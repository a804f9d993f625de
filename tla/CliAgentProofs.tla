---------------------------- MODULE CliAgentProofs ----------------------------
(***************************************************************************)
(* Theorems about CliAgent, for any commands, texts, native calls, frames  *)
(* and number of requests.  Base holds of the client and the agent step by *)
(* step; StreamInv has what is in the channel, in the accumulator and with *)
(* the agent together make up what has arrived of the answer (DsmlProofs). *)
(***************************************************************************)
EXTENDS CliAgent, DsmlProofs

-----------------------------------------------------------------------------
(* Sequences one after the other. *)

LEMMA FlattenFollows ==
    ASSUME NEW S, NEW seqs \in Seq(Seq(S)), NEW x,
           x[0] = <<>>, \A i \in 1..Len(seqs) : x[i] = x[i - 1] \o seqs[i]
    PROVE  FlattenSeq(seqs) = x[Len(seqs)] /\ FlattenSeq(seqs) \in Seq(S)
  <1> DEFINE n == Len(seqs)
             W == [i \in 0..n |-> {a \in Seq(S) : a = x[i]}]
  <1>0. n \in Nat /\ \A i \in 1..n : seqs[i] \in Seq(S)
    BY LenProperties, ElementOfSeq
  <1>1. \A i \in 0..n : W[i] = {a \in Seq(S) : a = x[i]}
    OBVIOUS
  <1> HIDE DEF W
  <1>2. <<>> \in W[0]
    <2>1. 0 \in 0..n /\ <<>> \in Seq(S)
      BY <1>0
    <2> QED BY <2>1, <1>1
  <1>3. \A i \in 0..n : W[i] \subseteq Seq(S)
    BY <1>1
  <1>4. ASSUME NEW i \in 1..n, NEW a \in W[i - 1] PROVE a \o seqs[i] \in W[i]
    <2>1. i - 1 \in 0..n /\ i \in 0..n
      BY <1>0
    <2>2. a \in Seq(S) /\ a = x[i - 1]
      BY <1>1, <2>1
    <2>3. a \o seqs[i] \in Seq(S)
      BY <1>0, <2>2, ConcatProperties
    <2>4. x[i] = a \o seqs[i]
      BY <2>2
    <2> QED BY <1>1, <2>1, <2>3, <2>4
  <1>5. FlattenSeq(seqs) \in W[n]
    BY <1>2, <1>3, <1>4, Flattened
  <1>6. n \in 0..n
    BY <1>0
  <1> QED BY <1>1, <1>5, <1>6

LEMMA FlattenSteps ==
    ASSUME NEW S, NEW seqs \in Seq(Seq(S))
    PROVE  \E x : x[0] = <<>> /\ \A i \in 1..Len(seqs) : x[i] = x[i - 1] \o seqs[i]
  <1> DEFINE n == Len(seqs)
  <1>0. n \in Nat /\ \A i \in 1..n : seqs[i] \in Seq(S)
    BY LenProperties, ElementOfSeq
  <1>1. PICK g : Flattens(g, seqs, n)
    <2>1. n \in Nat /\ n <= Len(seqs)
      BY <1>0
    <2> QED BY <2>1, FlattenExists
  <1>2. \A i \in 1..n : g[i] = IF i = 1 THEN seqs[i] ELSE g[i - 1] \o seqs[i]
    BY <1>1 DEF Flattens
  <1> DEFINE x == [i \in 0..n |-> IF i = 0 THEN <<>> ELSE g[i]]
  <1>3. x[0] = <<>>
    BY <1>0
  <1>4. ASSUME NEW i \in 1..n PROVE x[i] = x[i - 1] \o seqs[i]
    <2>1. x[i] = g[i]
      BY <1>0
    <2>2. CASE i = 1
      <3>1. x[i - 1] = <<>>
        BY <1>3, <2>2
      <3>2. <<>> \o seqs[i] = seqs[i]
        BY <1>0, ConcatProperties
      <3> HIDE DEF x
      <3> QED BY <3>1, <3>2, <2>1, <2>2, <1>2
    <2>3. CASE i # 1
      <3>1. x[i - 1] = g[i - 1]
        BY <1>0, <2>3
      <3> HIDE DEF x
      <3> QED BY <3>1, <2>1, <2>3, <1>2
    <2> QED BY <2>2, <2>3
  <1> HIDE DEF x
  <1> QED BY <1>3, <1>4

(* The flattening of two sequences one after the other. *)
LEMMA FlattenJoin ==
    ASSUME NEW S, NEW a \in Seq(Seq(S)), NEW b \in Seq(Seq(S))
    PROVE  /\ FlattenSeq(a \o b) = FlattenSeq(a) \o FlattenSeq(b)
           /\ FlattenSeq(a) \in Seq(S) /\ FlattenSeq(b) \in Seq(S)
  <1> DEFINE n == Len(a)
             m == Len(b)
             c == a \o b
  <1>0. n \in Nat /\ m \in Nat
    BY LenProperties
  <1>1. PICK x : x[0] = <<>> /\ \A i \in 1..n : x[i] = x[i - 1] \o a[i]
    BY FlattenSteps
  <1>2. PICK y : y[0] = <<>> /\ \A i \in 1..m : y[i] = y[i - 1] \o b[i]
    BY FlattenSteps
  <1>3. FlattenSeq(a) = x[n] /\ FlattenSeq(a) \in Seq(S)
    BY <1>1, FlattenFollows
  <1>4. FlattenSeq(b) = y[m] /\ FlattenSeq(b) \in Seq(S)
    BY <1>2, FlattenFollows
  <1>5. /\ c \in Seq(Seq(S)) /\ Len(c) = n + m
        /\ \A i \in 1..n : c[i] = a[i]
        /\ \A i \in 1..m : c[n + i] = b[i]
    BY JoinIs
  <1> HIDE DEF c
  <1> DEFINE z == [i \in 0..(n + m) |-> IF i <= n THEN x[i] ELSE x[n] \o y[i - n]]
  <1>6. \A i \in 0..(n + m) : z[i] = IF i <= n THEN x[i] ELSE x[n] \o y[i - n]
    OBVIOUS
  <1> HIDE DEF z, n, m
  <1>7. z[0] = <<>>
    BY <1>0, <1>1, <1>6
  <1>8. \A i \in 0..m : y[i] \in Seq(S)
    <2> DEFINE Bad == {i \in 0..m : y[i] \notin Seq(S)}
    <2> SUFFICES ASSUME Bad # {} PROVE FALSE
      OBVIOUS
    <2>1. PICK i \in Bad : \A j \in Bad : i <= j
      <3>1. Bad \in SUBSET Nat
        BY <1>0
      <3> HIDE DEF Bad
      <3> QED BY <3>1, Least
    <2>2. i # 0
      <3>1. <<>> \in Seq(S)
        OBVIOUS
      <3> QED BY <3>1, <1>2
    <2>3. i - 1 \in 0..m /\ i - 1 \notin Bad /\ i \in 1..m
      <3>1. i \in 0..m /\ i - 1 \in 0..m /\ ~(i <= i - 1)
        BY <2>2, <1>0
      <3> HIDE DEF Bad
      <3> QED BY <3>1, <2>1, <2>2, <1>0
    <2>4. y[i - 1] \in Seq(S) /\ b[i] \in Seq(S)
      BY <2>3, ElementOfSeq DEF m
    <2>5. y[i - 1] \o b[i] \in Seq(S)
      BY <2>4, ConcatProperties
    <2> QED BY <2>1, <2>3, <2>5, <1>2
  <1>9. ASSUME NEW i \in 1..(n + m) PROVE z[i] = z[i - 1] \o c[i]
    <2>1. i - 1 \in 0..(n + m) /\ i \in 0..(n + m)
      BY <1>0
    <2>2. CASE i <= n
      <3>1. i \in 1..n /\ i - 1 <= n
        BY <1>0, <2>2
      <3> QED BY <3>1, <2>1, <2>2, <1>1, <1>5, <1>6
    <2>3. CASE ~(i <= n)
      <3> DEFINE j == i - n
      <3>1. j \in 1..m /\ j - 1 \in 0..m /\ n + j = i /\ (i - 1) - n = j - 1
        BY <1>0, <2>3
      <3>2. z[i] = x[n] \o y[j]
        BY <1>6, <2>1, <2>3
      <3>3. z[i - 1] = x[n] \o y[j - 1]
        <4>1. CASE i - 1 <= n
          <5>1. i - 1 = n /\ j - 1 = 0
            BY <1>0, <2>3, <4>1
          <5>2. z[i - 1] = x[n] /\ y[j - 1] = <<>>
            BY <5>1, <4>1, <2>1, <1>2, <1>6
          <5>3. x[n] \o <<>> = x[n]
            BY <1>3, ConcatProperties
          <5> QED BY <5>2, <5>3
        <4>2. CASE ~(i - 1 <= n)
          BY <1>6, <2>1, <3>1, <4>2
        <4> QED BY <4>1, <4>2
      <3> HIDE DEF j
      <3>4. c[i] = b[j] /\ y[j] = y[j - 1] \o b[j] /\ b[j] \in Seq(S)
        BY <3>1, <1>2, <1>5, ElementOfSeq DEF m
      <3>5. (x[n] \o y[j - 1]) \o b[j] = x[n] \o (y[j - 1] \o b[j])
        <4> DEFINE p == x[n]
                   q == y[j - 1]
                   r == b[j]
        <4>1. p \in Seq(S) /\ q \in Seq(S) /\ r \in Seq(S)
          BY <1>3, <1>8, <3>1, <3>4
        <4> HIDE DEF p, q, r
        <4>2. (p \o q) \o r = p \o (q \o r)
          BY <4>1, ConcatAssociative, SMTT(30)
        <4> QED BY <4>2 DEF p, q, r
      <3> QED BY <3>2, <3>3, <3>4, <3>5
    <2> QED BY <2>2, <2>3
  <1>10. FlattenSeq(c) = z[n + m]
    BY <1>5, <1>7, <1>9, FlattenFollows
  <1>11. z[n + m] = x[n] \o y[m]
    <2>1. CASE m = 0
      <3>1. z[n + m] = x[n] /\ y[m] = <<>>
        BY <1>0, <1>2, <1>6, <2>1
      <3>2. x[n] \o <<>> = x[n]
        BY <1>3, ConcatProperties
      <3> QED BY <3>1, <3>2
    <2>2. CASE m # 0
      <3>1. n + m \in 0..(n + m) /\ ~(n + m <= n) /\ (n + m) - n = m
        BY <1>0, <2>2
      <3> QED BY <3>1, <1>6
    <2> QED BY <2>1, <2>2
  <1> QED BY <1>3, <1>4, <1>10, <1>11 DEF c, n, m
-----------------------------------------------------------------------------
(* The calls and the text of chunks. *)

WholeChunks == [kind : {"Content"}, text : Text]
               \cup [kind : {"ToolCallStart"}, command : Calls]
               \cup {Reasoning, StreamError}

CallIn(chunk) == IF chunk.kind = "ToolCallStart" THEN <<chunk.command>> ELSE <<>>
TextOfChunk(chunk) == IF chunk.kind = "Content" THEN chunk.text ELSE <<>>

LEMMA ChunkIs ==
    ASSUME NEW chunk \in WholeChunks
    PROVE  CallIn(chunk) \in Seq(Calls) /\ TextOfChunk(chunk) \in Text
  <1>1. CASE chunk \in [kind : {"Content"}, text : Text]
    <2>1. chunk.kind = "Content" /\ chunk.text \in Text
      BY <1>1
    <2>2. CallIn(chunk) = <<>> /\ TextOfChunk(chunk) = chunk.text
      BY <2>1 DEF CallIn, TextOfChunk
    <2>3. <<>> \in Seq(Calls)
      OBVIOUS
    <2> QED BY <2>1, <2>2, <2>3
  <1>2. CASE chunk \in [kind : {"ToolCallStart"}, command : Calls]
    <2>1. chunk.kind = "ToolCallStart" /\ chunk.command \in Calls
      BY <1>2
    <2>2. CallIn(chunk) = <<chunk.command>> /\ TextOfChunk(chunk) = <<>>
      BY <2>1 DEF CallIn, TextOfChunk
    <2>3. <<chunk.command>> \in Seq(Calls) /\ <<>> \in Text
      BY <2>1 DEF Text
    <2> QED BY <2>2, <2>3
  <1>3. CASE chunk = StreamError
    <2>1. chunk.kind = "Err"
      BY <1>3 DEF StreamError
    <2>2. CallIn(chunk) = <<>> /\ TextOfChunk(chunk) = <<>>
      BY <2>1 DEF CallIn, TextOfChunk
    <2>3. <<>> \in Seq(Calls) /\ <<>> \in Text
      BY DEF Text
    <2> QED BY <2>2, <2>3
  <1>4. CASE chunk = Reasoning
    <2>1. chunk.kind = "Reasoning"
      BY <1>4 DEF Reasoning
    <2>2. CallIn(chunk) = <<>> /\ TextOfChunk(chunk) = <<>>
      BY <2>1 DEF CallIn, TextOfChunk
    <2>3. <<>> \in Seq(Calls) /\ <<>> \in Text
      BY DEF Text
    <2> QED BY <2>2, <2>3
  <1> QED BY <1>1, <1>2, <1>3, <1>4 DEF WholeChunks

LEMMA PiecesOfChunks ==
    ASSUME NEW cs \in Seq(WholeChunks)
    PROVE  /\ [i \in 1..Len(cs) |-> CallIn(cs[i])] \in Seq(Seq(Calls))
           /\ Len([i \in 1..Len(cs) |-> CallIn(cs[i])]) = Len(cs)
           /\ CallsIn(cs) = FlattenSeq([i \in 1..Len(cs) |-> CallIn(cs[i])])
           /\ [i \in 1..Len(cs) |-> TextOfChunk(cs[i])] \in Seq(Text)
           /\ Len([i \in 1..Len(cs) |-> TextOfChunk(cs[i])]) = Len(cs)
           /\ TextIn(cs) = FlattenSeq([i \in 1..Len(cs) |-> TextOfChunk(cs[i])])
  <1> DEFINE n == Len(cs)
             f == [i \in 1..n |-> CallIn(cs[i])]
             g == [i \in 1..n |-> TextOfChunk(cs[i])]
  <1>0. n \in Nat /\ DOMAIN cs = 1..n /\ \A i \in 1..n : cs[i] \in WholeChunks
    BY LenProperties, ElementOfSeq
  <1>1. f \in [1..n -> Seq(Calls)]
    BY <1>0, ChunkIs
  <1>2. g \in [1..n -> Text]
    BY <1>0, ChunkIs
  <1>3. CallsIn(cs) = FlattenSeq(f)
    BY <1>0 DEF CallsIn, CallIn
  <1>4. TextIn(cs) = FlattenSeq(g)
    BY <1>0 DEF TextIn, TextOfChunk
  <1> HIDE DEF f, g
  <1>5. f \in Seq(Seq(Calls)) /\ Len(f) = n
    BY <1>0, <1>1, IsSequence
  <1>6. g \in Seq(Text) /\ Len(g) = n
    BY <1>0, <1>2, IsSequence
  <1> QED BY <1>3, <1>4, <1>5, <1>6 DEF f, g

(* Chunks after chunks, and a single one. *)
LEMMA ChunksJoin ==
    ASSUME NEW a \in Seq(WholeChunks), NEW b \in Seq(WholeChunks)
    PROVE  /\ a \o b \in Seq(WholeChunks)
           /\ CallsIn(a \o b) = CallsIn(a) \o CallsIn(b)
           /\ TextIn(a \o b) = TextIn(a) \o TextIn(b)
           /\ CallsIn(a) \in Seq(Calls) /\ TextIn(a) \in Text
  <1> DEFINE c == a \o b
             n == Len(a)
             m == Len(b)
             fa == [i \in 1..n |-> CallIn(a[i])]
             fb == [i \in 1..m |-> CallIn(b[i])]
             fc == [i \in 1..Len(c) |-> CallIn(c[i])]
             ga == [i \in 1..n |-> TextOfChunk(a[i])]
             gb == [i \in 1..m |-> TextOfChunk(b[i])]
             gc == [i \in 1..Len(c) |-> TextOfChunk(c[i])]
  <1>0. n \in Nat /\ m \in Nat
    BY LenProperties
  <1>1. /\ c \in Seq(WholeChunks) /\ Len(c) = n + m
        /\ \A i \in 1..n : c[i] = a[i]
        /\ \A i \in 1..m : c[n + i] = b[i]
    BY JoinIs
  <1> HIDE DEF c
  <1>2. /\ fa \in Seq(Seq(Calls)) /\ Len(fa) = n /\ CallsIn(a) = FlattenSeq(fa)
        /\ ga \in Seq(Text) /\ Len(ga) = n /\ TextIn(a) = FlattenSeq(ga)
    BY PiecesOfChunks
  <1>3. /\ fb \in Seq(Seq(Calls)) /\ Len(fb) = m /\ CallsIn(b) = FlattenSeq(fb)
        /\ gb \in Seq(Text) /\ Len(gb) = m /\ TextIn(b) = FlattenSeq(gb)
    BY PiecesOfChunks
  <1>4. /\ fc \in Seq(Seq(Calls)) /\ Len(fc) = n + m /\ CallsIn(c) = FlattenSeq(fc)
        /\ gc \in Seq(Text) /\ Len(gc) = n + m /\ TextIn(c) = FlattenSeq(gc)
    BY <1>1, PiecesOfChunks
  <1>5. /\ \A i \in 1..n : fa[i] = CallIn(a[i]) /\ ga[i] = TextOfChunk(a[i])
        /\ \A i \in 1..m : fb[i] = CallIn(b[i]) /\ gb[i] = TextOfChunk(b[i])
        /\ \A i \in 1..(n + m) : fc[i] = CallIn(c[i]) /\ gc[i] = TextOfChunk(c[i])
    BY <1>1
  <1> HIDE DEF fa, fb, fc, ga, gb, gc, n, m
  <1>6. fc = fa \o fb
    <2> DEFINE d == fa \o fb
    <2>1. /\ d \in Seq(Seq(Calls)) /\ Len(d) = n + m
          /\ \A i \in 1..n : d[i] = fa[i]
          /\ \A i \in 1..m : d[n + i] = fb[i]
      BY <1>2, <1>3, JoinIs
    <2> HIDE DEF d
    <2>2. ASSUME NEW i \in 1..(n + m) PROVE fc[i] = d[i]
      <3>1. CASE i <= n
        <4>1. i \in 1..n
          BY <1>0, <3>1
        <4> QED BY <4>1, <1>1, <1>5, <2>1
      <3>2. CASE ~(i <= n)
        <4>1. i - n \in 1..m /\ n + (i - n) = i
          BY <1>0, <3>2
        <4>2. c[n + (i - n)] = b[i - n] /\ d[n + (i - n)] = fb[i - n] /\ fb[i - n] = CallIn(b[i - n])
          BY <4>1, <1>1, <1>5, <2>1
        <4> QED BY <4>1, <4>2, <1>5
      <3> QED BY <3>1, <3>2
    <2>3. fc = d
      BY <1>4, <2>1, <2>2, SeqEqual
    <2> QED BY <2>3 DEF d
  <1>7. gc = ga \o gb
    <2> DEFINE d == ga \o gb
    <2>1. /\ d \in Seq(Text) /\ Len(d) = n + m
          /\ \A i \in 1..n : d[i] = ga[i]
          /\ \A i \in 1..m : d[n + i] = gb[i]
      <3>1. ga \in Seq(Text) /\ gb \in Seq(Text) /\ Len(ga) = n /\ Len(gb) = m
        BY <1>2, <1>3
      <3>2. /\ d \in Seq(Text) /\ Len(d) = Len(ga) + Len(gb)
            /\ \A i \in 1..Len(ga) : d[i] = ga[i]
            /\ \A i \in 1..Len(gb) : d[Len(ga) + i] = gb[i]
        <4>1. ga \in Seq(Text) /\ gb \in Seq(Text)
          BY <3>1
        <4> QED BY <4>1, JoinIs
      <3> HIDE DEF d
      <3> QED BY <3>1, <3>2
    <2> HIDE DEF d
    <2>2. ASSUME NEW i \in 1..(n + m) PROVE gc[i] = d[i]
      <3>1. CASE i <= n
        <4>1. i \in 1..n
          BY <1>0, <3>1
        <4> QED BY <4>1, <1>1, <1>5, <2>1
      <3>2. CASE ~(i <= n)
        <4>1. i - n \in 1..m /\ n + (i - n) = i
          BY <1>0, <3>2
        <4>2. c[n + (i - n)] = b[i - n] /\ d[n + (i - n)] = gb[i - n] /\ gb[i - n] = TextOfChunk(b[i - n])
          BY <4>1, <1>1, <1>5, <2>1
        <4> QED BY <4>1, <4>2, <1>5
      <3> QED BY <3>1, <3>2
    <2>3. gc = d
      BY <1>4, <2>1, <2>2, SeqEqual
    <2> QED BY <2>3 DEF d
  <1>8. /\ FlattenSeq(fa \o fb) = FlattenSeq(fa) \o FlattenSeq(fb)
        /\ FlattenSeq(fa) \in Seq(Calls)
    BY <1>2, <1>3, FlattenJoin
  <1>9. /\ FlattenSeq(ga \o gb) = FlattenSeq(ga) \o FlattenSeq(gb)
        /\ FlattenSeq(ga) \in Seq(Symbols)
    BY <1>2, <1>3, FlattenJoin DEF Text
  <1> QED BY <1>1, <1>2, <1>3, <1>4, <1>6, <1>7, <1>8, <1>9 DEF c, Text

LEMMA OneChunk ==
    ASSUME NEW chunk \in WholeChunks
    PROVE  /\ <<chunk>> \in Seq(WholeChunks)
           /\ CallsIn(<<chunk>>) = CallIn(chunk) /\ TextIn(<<chunk>>) = TextOfChunk(chunk)
  <1> DEFINE cs == <<chunk>>
             f == [i \in 1..Len(cs) |-> CallIn(cs[i])]
             g == [i \in 1..Len(cs) |-> TextOfChunk(cs[i])]
             x == [i \in 0..1 |-> IF i = 0 THEN <<>> ELSE CallIn(chunk)]
             y == [i \in 0..1 |-> IF i = 0 THEN <<>> ELSE TextOfChunk(chunk)]
  <1>1. cs \in Seq(WholeChunks) /\ Len(cs) = 1 /\ cs[1] = chunk
    OBVIOUS
  <1> HIDE DEF cs
  <1>2. /\ f \in Seq(Seq(Calls)) /\ Len(f) = 1 /\ CallsIn(cs) = FlattenSeq(f)
        /\ g \in Seq(Text) /\ Len(g) = 1 /\ TextIn(cs) = FlattenSeq(g)
    BY <1>1, PiecesOfChunks
  <1>3. f[1] = CallIn(chunk) /\ g[1] = TextOfChunk(chunk)
    BY <1>1
  <1>4. /\ x[0] = <<>> /\ x[1] = CallIn(chunk)
        /\ y[0] = <<>> /\ y[1] = TextOfChunk(chunk)
    OBVIOUS
  <1>5. CallIn(chunk) \in Seq(Calls) /\ TextOfChunk(chunk) \in Seq(Symbols)
    BY ChunkIs DEF Text
  <1> HIDE DEF f, g, x, y
  <1>6. <<>> \o CallIn(chunk) = CallIn(chunk) /\ <<>> \o TextOfChunk(chunk) = TextOfChunk(chunk)
    BY <1>5, ConcatProperties
  <1>7. FlattenSeq(f) = x[1]
    <2>1. ASSUME NEW i \in 1..Len(f) PROVE x[i] = x[i - 1] \o f[i]
      <3>1. i = 1 /\ i - 1 = 0
        BY <1>2
      <3> QED BY <3>1, <1>3, <1>4, <1>6
    <2> QED BY <2>1, <1>2, <1>4, FlattenFollows
  <1>8. FlattenSeq(g) = y[1]
    <2>1. ASSUME NEW i \in 1..Len(g) PROVE y[i] = y[i - 1] \o g[i]
      <3>1. i = 1 /\ i - 1 = 0
        BY <1>2
      <3> QED BY <3>1, <1>3, <1>4, <1>6
    <2>2. g \in Seq(Seq(Symbols))
      BY <1>2 DEF Text
    <2> QED BY <2>1, <2>2, <1>2, <1>4, FlattenFollows
  <1> QED BY <1>1, <1>2, <1>4, <1>7, <1>8 DEF cs

LEMMA NoChunk ==
    <<>> \in Seq(WholeChunks) /\ CallsIn(<<>>) = <<>> /\ TextIn(<<>>) = <<>>
  <1>1. <<>> \in Seq(WholeChunks) /\ Len(<<>>) = 0
    OBVIOUS
  <1>2. \A f : Len(f) = 0 => FlattenSeq(f) = f
    BY DEF FlattenSeq
  <1>3. /\ CallsIn(<<>>) \in Seq(Calls) /\ TextIn(<<>>) \in Seq(Symbols)
    BY <1>1, ChunksJoin DEF Text
  <1> DEFINE f == [i \in 1..Len(<<>>) |-> CallIn(<<>>[i])]
             g == [i \in 1..Len(<<>>) |-> TextOfChunk(<<>>[i])]
  <1>4. /\ f \in Seq(Seq(Calls)) /\ Len(f) = 0 /\ CallsIn(<<>>) = FlattenSeq(f)
        /\ g \in Seq(Text) /\ Len(g) = 0 /\ TextIn(<<>>) = FlattenSeq(g)
    BY <1>1, PiecesOfChunks
  <1> HIDE DEF f, g
  <1>5. f = <<>> /\ g = <<>>
    BY <1>4, EmptySeq
  <1> QED BY <1>1, <1>2, <1>4, <1>5

(* The chunks of calls. *)
LEMMA CallChunks ==
    ASSUME NEW calls \in Seq(Calls), NEW cs,
           cs = [i \in DOMAIN calls |-> ToolCallStart(calls[i])]
    PROVE  /\ cs \in Seq(WholeChunks)
           /\ CallsIn(cs) = calls /\ TextIn(cs) = <<>>
  <1> DEFINE n == Len(calls)
             f == [i \in 1..Len(cs) |-> CallIn(cs[i])]
             g == [i \in 1..Len(cs) |-> TextOfChunk(cs[i])]
             x == [i \in 0..n |-> UpTo(calls, i)]
             y == [i \in 0..n |-> <<>>]
  <1>0. n \in Nat /\ DOMAIN calls = 1..n /\ \A i \in 1..n : calls[i] \in Calls
    BY LenProperties, ElementOfSeq
  <1>1. \A i \in 1..n : cs[i] = [kind |-> "ToolCallStart", command |-> calls[i]]
    BY <1>0 DEF ToolCallStart
  <1>2. cs \in Seq(WholeChunks) /\ Len(cs) = n
    <2>1. \A i \in 1..n : cs[i] \in WholeChunks
      BY <1>0, <1>1 DEF WholeChunks
    <2>2. cs = [i \in 1..n |-> ToolCallStart(calls[i])]
      BY <1>0
    <2>3. cs \in [1..n -> WholeChunks]
      BY <2>1, <2>2
    <2> QED BY <2>3, <1>0, IsSequence
  <1>3. /\ f \in Seq(Seq(Calls)) /\ Len(f) = n /\ CallsIn(cs) = FlattenSeq(f)
        /\ g \in Seq(Text) /\ Len(g) = n /\ TextIn(cs) = FlattenSeq(g)
    BY <1>2, PiecesOfChunks
  <1>4. \A i \in 1..n : f[i] = <<calls[i]>> /\ g[i] = <<>>
    <2>1. \A i \in 1..n : f[i] = CallIn(cs[i]) /\ g[i] = TextOfChunk(cs[i])
      BY <1>2
    <2> HIDE DEF f, g
    <2>2. ASSUME NEW i \in 1..n PROVE cs[i].kind = "ToolCallStart" /\ cs[i].command = calls[i]
      <3>1. cs[i] = [kind |-> "ToolCallStart", command |-> calls[i]]
        BY <1>1
      <3>2. \A a, b : [kind |-> a, command |-> b].kind = a /\ [kind |-> a, command |-> b].command = b
        OBVIOUS
      <3> QED BY <3>1, <3>2
    <2> QED BY <2>1, <2>2 DEF CallIn, TextOfChunk
  <1>5. /\ \A i \in 0..n : x[i] = UpTo(calls, i) /\ y[i] = <<>>
    OBVIOUS
  <1> HIDE DEF f, g, x, y, n
  <1>6. x[0] = <<>> /\ y[0] = <<>>
    <2>1. 0 \in Nat /\ 0 <= Len(calls)
      BY <1>0 DEF n
    <2>2. UpTo(calls, 0) \in Seq(Calls) /\ Len(UpTo(calls, 0)) = 0
      BY <2>1, UpToIs
    <2>3. UpTo(calls, 0) = <<>>
      BY <2>2, EmptySeq
    <2> QED BY <2>3, <1>0, <1>5
  <1>7. ASSUME NEW i \in 1..n PROVE x[i] = x[i - 1] \o f[i]
    <2>1. i - 1 \in 0..n /\ i \in 0..n /\ i \in Nat
      BY <1>0
    <2>2. UpTo(calls, i) = UpTo(calls, i - 1) \o <<calls[i]>>
      <3>1. SubSeq(calls, i, i) = <<calls[i]>>
        BY SubSeqOne DEF n
      <3>2. SubSeq(calls, 1, i - 1) \o SubSeq(calls, (i - 1) + 1, i) = SubSeq(calls, 1, i)
        <4>1. 1 \in 1..(Len(calls) + 1) /\ i - 1 \in 1 - 1..Len(calls) /\ i \in (i - 1)..Len(calls)
          BY <1>0 DEF n
        <4> QED BY <4>1, ConcatAdjacentSubSeq
      <3>3. (i - 1) + 1 = i
        BY <2>1
      <3> QED BY <3>1, <3>2, <3>3 DEF UpTo
    <2> QED BY <2>1, <2>2, <1>4, <1>5
  <1>8. FlattenSeq(f) = x[n]
    BY <1>3, <1>6, <1>7, FlattenFollows
  <1>9. x[n] = calls
    <2>1. n \in 0..n
      BY <1>0
    <2>2. SubSeq(calls, 1, Len(calls)) = calls
      BY SubSeqFull
    <2> QED BY <2>1, <2>2, <1>5 DEF UpTo, n
  <1>10. FlattenSeq(g) = y[n]
    <2>1. ASSUME NEW i \in 1..n PROVE y[i] = y[i - 1] \o g[i]
      <3>1. y[i] = <<>> /\ y[i - 1] = <<>> /\ g[i] = <<>>
        <4>1. i - 1 \in 0..n /\ i \in 0..n
          BY <1>0
        <4> QED BY <4>1, <1>4, <1>5
      <3>2. <<>> \o <<>> = <<>>
        BY ConcatProperties
      <3> QED BY <3>1, <3>2
    <2>2. g \in Seq(Seq(Symbols))
      BY <1>3 DEF Text
    <2> QED BY <2>1, <2>2, <1>3, <1>6, FlattenFollows
  <1>11. y[n] = <<>>
    <2>1. n \in 0..n
      BY <1>0
    <2> QED BY <2>1, <1>5
  <1> QED BY <1>2, <1>3, <1>8, <1>9, <1>10, <1>11

(* The chunk of a text, if there is one. *)
LEMMA ContentIs ==
    ASSUME NEW text \in Text
    PROVE  /\ Content(text) \in Seq(WholeChunks)
           /\ CallsIn(Content(text)) = <<>> /\ TextIn(Content(text)) = text
  <1>1. CASE text = <<>>
    BY <1>1, NoChunk DEF Content
  <1>2. CASE text # <<>>
    <2> DEFINE chunk == [kind |-> "Content", text |-> text]
    <2>1. chunk \in WholeChunks /\ chunk.kind = "Content" /\ chunk.text = text
      BY DEF WholeChunks
    <2>2. Content(text) = <<chunk>>
      BY <1>2 DEF Content
    <2> HIDE DEF chunk
    <2>3. CallIn(chunk) = <<>> /\ TextOfChunk(chunk) = text
      BY <2>1 DEF CallIn, TextOfChunk
    <2> QED BY <2>1, <2>2, <2>3, OneChunk
  <1> QED BY <1>1, <1>2
-----------------------------------------------------------------------------
(* A sequence over a set is one over any larger set. *)
LEMMA Wider ==
    ASSUME NEW S, NEW T, S \subseteq T, NEW s \in Seq(S)
    PROVE  s \in Seq(T)
  <1>1. Len(s) \in Nat /\ s \in [1..Len(s) -> S]
    BY LenProperties
  <1>2. s \in [1..Len(s) -> T]
    BY <1>1
  <1> QED BY <1>1, <1>2, IsSequence

LEMMA CommandsAreCalls == \A s \in Seq(Commands) : s \in Seq(Calls)
  BY Wider DEF Calls

Ids == Nat \X Nat
Streamed == {"streaming", "closed", "broken"}

(* The types, sharper than TypeOK: no open block is empty. *)
TypeInv ==
    /\ call \in {"idle", "chat", "waiting", "asked", "streaming", "closed",
                 "broken", "refused", "answered", "failed"}
    /\ delay \in 1..MaxDelay /\ attempt \in 0..MaxRetries
    /\ answer \in [text : Texts, natives : Natives] \cup {NoAnswer}
    /\ received \in 0..Len(answer.text)
    /\ pieces \in 0..(Pieces * Len(answer.natives)) /\ reasoned \in BOOLEAN
    /\ builders \in Seq(1..Pieces) /\ Len(builders) <= Len(answer.natives)
    /\ dsml_acc \in Holding
    /\ finished \in BOOLEAN
    /\ dropped \in Text
    /\ rx \in Seq(WholeChunks)
    /\ place \in {"reading", "running", "done", "failed"}
    /\ phase \in 1..(MaxPhases + 1)
    /\ shown \in Text
    /\ tool_calls \in Seq(Calls) /\ ran \in Seq(Calls)
    /\ reasoning \in BOOLEAN
    /\ status \in {"ok", "partial", "error"}
    /\ messages \in Seq(Messages(Ids))
    /\ bare \subseteq 1..MaxPhases

(* The builders hold the pieces that have arrived, until they are sent. *)
BuilderInv ==
    ~finished =>
        /\ pieces = Pieces * Len(builders) \/ pieces + 1 = Pieces * Len(builders)
        /\ \A i \in 1..Len(builders) : builders[i] = IF Pieces * i <= pieces THEN Pieces ELSE 1

WaitInv == call = "waiting" => attempt < MaxRetries

(* Nothing is there before the answer is. *)
FreshInv ==
    call \notin Streamed =>
        NothingStreamed /\ shown = <<>> /\ tool_calls = <<>> /\ reasoning = FALSE

(* The finish reason leaves nothing held back. *)
FinishInv == finished => dsml_acc = EmptyAccumulator

(* Calls run when the answer has been read, in its order. *)
RunInv ==
    /\ place # "running" => ran = <<>>
    /\ place = "running" => call = "closed" /\ rx = <<>>
    /\ Len(ran) <= Len(tool_calls) /\ \A i \in 1..Len(ran) : ran[i] = tool_calls[i]

(* What broke is read last. *)
BrokenInv ==
    place = "reading" /\ call = "broken" => rx # <<>> /\ rx[Len(rx)] = StreamError

(* The messages are a request at any time. *)
RequestInv == WellFormed(messages)

Base ==
    /\ TypeInv /\ BuilderInv /\ WaitInv /\ FreshInv /\ FinishInv
    /\ RunInv /\ BrokenInv /\ RequestInv

LEMMA AnswerIs ==
    ASSUME answer \in [text : Texts, natives : Natives] \cup {NoAnswer}
    PROVE  answer.text \in Text /\ answer.natives \in Seq(Commands)
  <1>1. CASE answer \in [text : Texts, natives : Natives]
    BY <1>1, ClientAssumption DEF Text
  <1>2. CASE answer = NoAnswer
    <2>1. answer.text = <<>> /\ answer.natives = <<>>
      BY <1>2 DEF NoAnswer
    <2>2. <<>> \in Text /\ <<>> \in Seq(Commands)
      BY DEF Text
    <2> QED BY <2>1, <2>2
  <1> QED BY <1>1, <1>2

LEMMA EmptyIs == EmptyAccumulator \in Holding /\ Held(EmptyAccumulator)
  <1>1. EmptyAccumulator.buf = <<>> /\ EmptyAccumulator.in_dsml = FALSE
    BY DEF EmptyAccumulator
  <1>2. <<>> \in Seq(Symbols) /\ Len(<<>>) = 0
    OBVIOUS
  <1>3. EmptyAccumulator \in Holding
    BY <1>2 DEF Holding, Accumulator, EmptyAccumulator
  <1>4. \A p, k : ~Opens(<<>>, p, k)
    BY <1>2 DEF Opens
  <1> QED BY <1>1, <1>3, <1>4 DEF Held

LEMMA BaseInit == Init => Base
  <1> SUFFICES ASSUME Init PROVE Base
    OBVIOUS
  <1> USE DEF Init
  <1>1. call \in {"idle", "asked"} /\ NothingStreamed /\ place = "reading"
        /\ shown = <<>> /\ tool_calls = <<>> /\ reasoning = FALSE /\ ran = <<>> /\ bare = {}
    OBVIOUS
  <1>2. /\ answer = NoAnswer /\ received = 0 /\ pieces = 0 /\ reasoned = FALSE /\ builders = <<>>
        /\ dsml_acc = EmptyAccumulator /\ finished = FALSE /\ dropped = <<>> /\ rx = <<>>
    BY <1>1 DEF NothingStreamed
  <1>3. User \in Messages(Ids) /\ ~IsTool(User) /\ User.calls = <<>>
    BY DEF User, Message, Messages, Roles, IsTool
  <1>4. TypeInv
    <2>1. answer.text = <<>> /\ answer.natives = <<>>
      BY <1>2 DEF NoAnswer
    <2>2. received \in 0..Len(answer.text) /\ Len(builders) <= Len(answer.natives)
          /\ pieces \in 0..(Pieces * Len(answer.natives))
      BY <1>2, <2>1 DEF Pieces
    <2>3. builders \in Seq(1..Pieces) /\ dropped \in Text /\ rx \in Seq(WholeChunks)
          /\ shown \in Text /\ tool_calls \in Seq(Calls) /\ ran \in Seq(Calls)
      BY <1>1, <1>2 DEF Text
    <2>4. messages \in Seq(Messages(Ids))
      BY <1>3
    <2>5. phase \in 1..(MaxPhases + 1) /\ delay \in 1..MaxDelay /\ attempt \in 0..MaxRetries
      BY CliAssumption DEF MaxDelay, MaxRetries
    <2> QED BY <1>1, <1>2, <2>2, <2>3, <2>4, <2>5, EmptyIs DEF TypeInv
  <1>5. BuilderInv
    <2>1. Len(builders) = 0 /\ pieces = 0
      BY <1>2
    <2> QED BY <2>1 DEF BuilderInv, Pieces
  <1>6. WaitInv /\ FreshInv /\ FinishInv /\ BrokenInv
    BY <1>1, <1>2 DEF WaitInv, FreshInv, FinishInv, BrokenInv
  <1>7. RunInv
    BY <1>1, <1>2 DEF RunInv
  <1>8. RequestInv
    BY <1>3, SingletonIs DEF RequestInv
  <1> QED BY <1>4, <1>5, <1>6, <1>7, <1>8 DEF Base

(* Steps that leave the stream and the agent alone. *)
LEMMA ChatBase ==
    ASSUME Base, ChatNext \/ StreamRefused, UNCHANGED cliVars
    PROVE  Base'
  <1> USE DEF Base
  <1>1. UNCHANGED streamVars
    BY DEF ChatNext, Chat, ChatAnswered, ChatFails, RateLimited, Retry, StreamRefused
  <1>2. call' # "waiting" \/ RateLimited
    BY DEF ChatNext, Chat, ChatAnswered, ChatFails, RateLimited, Retry, StreamRefused, Streamed
  <1>3. call \notin Streamed /\ call' \notin Streamed
    BY DEF ChatNext, Chat, ChatAnswered, ChatFails, RateLimited, Retry, StreamRefused, Streamed
  <1>4. /\ call' \in {"idle", "chat", "waiting", "asked", "streaming", "closed",
                      "broken", "refused", "answered", "failed"}
        /\ delay' \in 1..MaxDelay /\ attempt' \in 0..MaxRetries
    <2>1. CASE Retry
      <3>1. attempt < MaxRetries /\ attempt' = attempt + 1 /\ call' = "chat"
            /\ delay' = Min({delay * 2, MaxDelay})
        BY <2>1 DEF Retry, WaitInv
      <3>2. delay \in 1..MaxDelay /\ attempt \in 0..MaxRetries
        BY DEF TypeInv
      <3>3. {delay * 2, MaxDelay} \in SUBSET Nat /\ {delay * 2, MaxDelay} # {}
        BY <3>2 DEF MaxDelay
      <3>4. delay' \in {delay * 2, MaxDelay} /\ delay' <= MaxDelay
        BY <3>1, <3>3, MinIs
      <3> QED BY <3>1, <3>2, <3>4 DEF MaxDelay, MaxRetries
    <2>2. CASE Chat
      <3>1. 1 \in 1..MaxDelay /\ 0 \in 0..MaxRetries
        BY DEF MaxDelay, MaxRetries
      <3> QED BY <2>2, <3>1 DEF Chat
    <2>3. CASE ChatAnswered \/ ChatFails \/ RateLimited \/ StreamRefused
      BY <2>3 DEF ChatAnswered, ChatFails, RateLimited, StreamRefused, TypeInv, retryVars
    <2> QED BY <2>1, <2>2, <2>3 DEF ChatNext
  <1>5. TypeInv'
    BY <1>1, <1>4 DEF TypeInv, streamVars, arrivedVars, cliVars
  <1>6. WaitInv'
    BY <1>2 DEF WaitInv, RateLimited, retryVars
  <1>7. BuilderInv' /\ FinishInv'
    BY <1>1 DEF BuilderInv, FinishInv, streamVars, arrivedVars
  <1>8. FreshInv'
    BY <1>1, <1>3 DEF FreshInv, NothingStreamed, streamVars, arrivedVars, cliVars
  <1>9. RunInv' /\ BrokenInv' /\ RequestInv'
    BY <1>1, <1>3 DEF RunInv, BrokenInv, RequestInv, streamVars, arrivedVars, cliVars, Streamed
  <1> QED BY <1>5, <1>6, <1>7, <1>8, <1>9

(* An answer begins. *)
LEMMA AcceptedBase ==
    ASSUME Base, StreamAccepted(AnswersNow), UNCHANGED cliVars
    PROVE  Base'
  <1> USE DEF Base
  <1>1. /\ call = "asked" /\ call' = "streaming" /\ answer' \in AnswersNow
        /\ UNCHANGED <<retryVars, received, pieces, reasoned, builders, dsml_acc, finished,
                       dropped, rx>>
    BY DEF StreamAccepted
  <1>2. NothingStreamed /\ shown = <<>> /\ tool_calls = <<>>
    BY <1>1 DEF FreshInv, Streamed
  <1>3. received = 0 /\ pieces = 0 /\ builders = <<>> /\ finished = FALSE
    BY <1>2 DEF NothingStreamed
  <1>4. answer' \in [text : Texts, natives : Natives]
    BY <1>1 DEF AnswersNow
  <1>5. answer'.text \in Seq(Symbols) /\ answer'.natives \in Seq(Commands)
    BY <1>4, ClientAssumption
  <1>6. received' \in 0..Len(answer'.text) /\ Len(builders') <= Len(answer'.natives)
        /\ pieces' \in 0..(Pieces * Len(answer'.natives))
    <2>1. Len(answer'.text) \in Nat /\ Len(answer'.natives) \in Nat
      BY <1>5, LenProperties
    <2>2. received' = 0 /\ pieces' = 0 /\ Len(builders') = 0
      BY <1>1, <1>3
    <2> HIDE DEF NoAnswer
    <2> QED BY <2>1, <2>2 DEF Pieces
  <1>7. TypeInv'
    BY <1>1, <1>4, <1>6 DEF TypeInv, retryVars, cliVars
  <1>8. BuilderInv' /\ WaitInv' /\ FreshInv' /\ FinishInv'
    BY <1>1, <1>3 DEF BuilderInv, WaitInv, FreshInv, FinishInv, Streamed
  <1>9. RunInv' /\ BrokenInv' /\ RequestInv'
    BY <1>1 DEF RunInv, BrokenInv, RequestInv, cliVars
  <1> QED BY <1>7, <1>8, <1>9

(* A piece of a native call. *)
LEMMA NativeBase ==
    ASSUME Base, NativeFrame, UNCHANGED cliVars
    PROVE  Base'
  <1> USE DEF Base
  <1> DEFINE n == Len(builders)
             m == Len(answer.natives)
  <1>1. /\ call = "streaming" /\ ~finished /\ pieces < Pieces * m
        /\ pieces' = pieces + 1 /\ builders' = WithPiece(builders)
        /\ UNCHANGED <<call, retryVars, answer, received, reasoned, dsml_acc, finished, dropped, rx>>
    BY DEF NativeFrame
  <1>2. builders \in Seq(1..Pieces) /\ pieces \in 0..(Pieces * m)
        /\ answer.natives \in Seq(Commands)
    BY AnswerIs DEF TypeInv
  <1>3. n \in Nat /\ m \in Nat /\ pieces \in Nat /\ DOMAIN builders = 1..n
    <2>1. n \in Nat /\ m \in Nat /\ DOMAIN builders = 1..n
      BY <1>2, LenProperties
    <2> HIDE DEF n, m
    <2> QED BY <2>1, <1>2
  <1>4. /\ pieces = Pieces * n \/ pieces + 1 = Pieces * n
        /\ \A i \in 1..n : builders[i] = IF Pieces * i <= pieces THEN Pieces ELSE 1
    BY <1>1 DEF BuilderInv
  <1>5. /\ builders' \in Seq(1..Pieces)
        /\ pieces' = Pieces * Len(builders') \/ pieces' + 1 = Pieces * Len(builders')
        /\ \A i \in 1..Len(builders') : builders'[i] = IF Pieces * i <= pieces' THEN Pieces ELSE 1
    <2>1. CASE builders # <<>> /\ Last(builders) < Pieces
      <3> DEFINE bs == [builders EXCEPT ![n] = @ + 1]
      <3>1. builders' = bs
        BY <1>1, <2>1 DEF WithPiece
      <3>2. n # 0
        BY <1>2, <2>1, EmptySeq
      <3>3. builders[n] < Pieces
        BY <2>1 DEF Last
      <3>4. bs = [i \in 1..n |-> IF i = n THEN builders[n] + 1 ELSE builders[i]]
        BY <1>2, <1>3
      <3> HIDE DEF bs, n
      <3>5. n \in 1..n
        BY <1>3, <3>2
      <3>6. pieces + 1 = Pieces * n /\ builders[n] = 1
        BY <1>3, <1>4, <3>3, <3>5 DEF Pieces
      <3>7. \A i \in 1..n : bs[i] = Pieces /\ Pieces * i <= pieces + 1
        BY <1>3, <1>4, <3>4, <3>6 DEF Pieces
      <3>8. bs \in [1..n -> 1..Pieces]
        BY <3>4, <3>7 DEF Pieces
      <3>9. bs \in Seq(1..Pieces) /\ Len(bs) = n
        BY <1>3, <3>8, IsSequence
      <3> QED BY <1>1, <3>1, <3>6, <3>7, <3>9
    <2>2. CASE ~(builders # <<>> /\ Last(builders) < Pieces)
      <3>1. builders' = Append(builders, 1)
        BY <1>1, <2>2 DEF WithPiece
      <3>2. pieces = Pieces * n
        <4>1. CASE builders = <<>>
          <5>1. n = 0
            BY <4>1
          <5> HIDE DEF n
          <5> QED BY <5>1, <1>3, <1>4 DEF Pieces
        <4>2. CASE builders # <<>> /\ ~(Last(builders) < Pieces)
          <5>1. n # 0 /\ ~(builders[n] < Pieces)
            BY <1>2, <4>2, EmptySeq DEF Last
          <5> HIDE DEF n
          <5>2. n \in 1..n
            BY <1>3, <5>1
          <5> QED BY <1>3, <1>4, <5>1, <5>2 DEF Pieces
        <4> QED BY <2>2, <4>1, <4>2
      <3>3. 1 \in 1..Pieces
        BY DEF Pieces
      <3>4. /\ builders' \in Seq(1..Pieces) /\ Len(builders') = n + 1
            /\ \A i \in 1..n : builders'[i] = builders[i]
            /\ builders'[n + 1] = 1
        BY <1>2, <3>1, <3>3, AppendProperties
      <3> HIDE DEF n
      <3>5. \A i \in 1..(n + 1) : builders'[i] = IF Pieces * i <= pieces + 1 THEN Pieces ELSE 1
        <4>1. ASSUME NEW i \in 1..(n + 1)
              PROVE  builders'[i] = IF Pieces * i <= pieces + 1 THEN Pieces ELSE 1
          <5>1. CASE i \in 1..n
            BY <5>1, <1>3, <1>4, <3>2, <3>4 DEF Pieces
          <5>2. CASE i \notin 1..n
            <6>1. i = n + 1
              BY <5>2, <1>3
            <6> QED BY <6>1, <1>3, <3>2, <3>4 DEF Pieces
          <5> QED BY <5>1, <5>2
        <4> QED BY <4>1
      <3>6. (pieces + 1) + 1 = Pieces * (n + 1)
        BY <1>3, <3>2 DEF Pieces
      <3> QED BY <1>1, <3>4, <3>5, <3>6
    <2> QED BY <2>1, <2>2
  <1>6. pieces' \in 0..(Pieces * m) /\ Len(builders') <= m
    <2>1. Len(builders') \in Nat
      BY <1>5, LenProperties
    <2> HIDE DEF n, m
    <2> QED BY <2>1, <1>1, <1>3, <1>5 DEF Pieces
  <1>7. TypeInv'
    BY <1>1, <1>5, <1>6 DEF TypeInv, retryVars, cliVars
  <1>8. BuilderInv'
    BY <1>5 DEF BuilderInv
  <1>9. WaitInv' /\ FreshInv' /\ FinishInv'
    BY <1>1 DEF WaitInv, FreshInv, FinishInv, Streamed
  <1>10. RunInv' /\ BrokenInv' /\ RequestInv'
    BY <1>1 DEF RunInv, BrokenInv, RequestInv, cliVars
  <1> QED BY <1>7, <1>8, <1>9, <1>10

(* The reasoning. *)
LEMMA ReasoningBase ==
    ASSUME Base, ReasoningFrame, UNCHANGED cliVars
    PROVE  Base'
  <1> USE DEF Base
  <1>1. /\ call = "streaming" /\ reasoned' = TRUE /\ rx' = Append(rx, Reasoning)
        /\ UNCHANGED <<call, retryVars, answer, received, pieces, builders, dsml_acc, finished, dropped>>
    BY DEF ReasoningFrame
  <1>2. rx' \in Seq(WholeChunks)
    <2>1. rx \in Seq(WholeChunks) /\ Reasoning \in WholeChunks
      BY DEF TypeInv, WholeChunks
    <2> QED BY <2>1, <1>1, AppendProperties
  <1>3. TypeInv'
    BY <1>1, <1>2 DEF TypeInv, retryVars, cliVars
  <1>4. BuilderInv' /\ WaitInv' /\ FreshInv' /\ FinishInv'
    BY <1>1 DEF BuilderInv, WaitInv, FreshInv, FinishInv, Streamed
  <1>5. RunInv' /\ BrokenInv' /\ RequestInv'
    BY <1>1 DEF RunInv, BrokenInv, RequestInv, cliVars
  <1> QED BY <1>3, <1>4, <1>5
-----------------------------------------------------------------------------
(* The native calls that have arrived: only the last can be half a one. *)
LEMMA NativesIs ==
    ASSUME TypeInv
    PROVE  /\ NativesArrived \in Seq(Calls) /\ Len(NativesArrived) = (pieces + 1) \div Pieces
           /\ \A i \in 1..Len(NativesArrived) :
                 /\ NativesArrived[i] = IF Pieces * i <= pieces THEN answer.natives[i] ELSE Broken
                 /\ NativesArrived[i] = Broken => i = Len(NativesArrived) /\ HalfCall
  <1> DEFINE natives == answer.natives
             m == Len(natives)
             n == (pieces + 1) \div Pieces
             x == [i \in 1..n |-> IF Pieces * i <= pieces THEN natives[i] ELSE Broken]
  <1>1. natives \in Seq(Commands) /\ m \in Nat /\ \A i \in 1..m : natives[i] \in Commands
    BY AnswerIs, LenProperties, ElementOfSeq DEF TypeInv
  <1>2. NativesArrived = x
    BY DEF NativesArrived
  <1>3. pieces \in 0..(Pieces * m)
    BY DEF TypeInv
  <1> HIDE DEF m, natives
  <1>4. /\ n \in Nat /\ pieces \in Nat
        /\ pieces = Pieces * n \/ pieces + 1 = Pieces * n
    BY <1>1, <1>3 DEF Pieces
  <1>5. pieces + 1 = Pieces * n => HalfCall
    BY <1>4 DEF Pieces, HalfCall
  <1> HIDE DEF n
  <1>6. ASSUME NEW i \in 1..n
        PROVE  IF Pieces * i <= pieces THEN natives[i] \in Commands ELSE i = n /\ HalfCall
    <2>1. CASE Pieces * i <= pieces
      <3>1. i \in 1..m
        BY <1>1, <1>3, <1>4, <2>1 DEF Pieces
      <3> QED BY <3>1, <1>1, <2>1 DEF m
    <2>2. CASE ~(Pieces * i <= pieces)
      <3>1. i = n /\ pieces + 1 = Pieces * n
        BY <1>4, <2>2 DEF Pieces
      <3> QED BY <3>1, <1>5, <2>2
    <2> QED BY <2>1, <2>2
  <1>7. \A i \in 1..n : x[i] = IF Pieces * i <= pieces THEN natives[i] ELSE Broken
    OBVIOUS
  <1>8. x \in [1..n -> Calls]
    BY <1>6 DEF Calls
  <1> HIDE DEF x
  <1>9. x \in Seq(Calls) /\ Len(x) = n
    BY <1>4, <1>8, IsSequence
  <1>10. \A i \in 1..n : x[i] = Broken => i = n /\ HalfCall
    BY <1>6, <1>7, ClientAssumption
  <1> QED BY <1>2, <1>7, <1>9, <1>10 DEF n, natives

(* The chunks of the native calls. *)
LEMMA NativeChunks ==
    ASSUME TypeInv, BuilderInv, ~finished
    PROVE  /\ NativeCalls(builders) \in Seq(WholeChunks)
           /\ CallsIn(NativeCalls(builders)) = NativesArrived
           /\ TextIn(NativeCalls(builders)) = <<>>
  <1> DEFINE x == NativesArrived
             n == Len(builders)
             cs == NativeCalls(builders)
  <1>1. DOMAIN builders = 1..n /\ n \in Nat
    BY LenProperties DEF TypeInv
  <1>2. /\ pieces = Pieces * n \/ pieces + 1 = Pieces * n
        /\ \A i \in 1..n : builders[i] = IF Pieces * i <= pieces THEN Pieces ELSE 1
    BY DEF BuilderInv
  <1>3. /\ x \in Seq(Calls) /\ Len(x) = (pieces + 1) \div Pieces
        /\ \A i \in 1..Len(x) : x[i] = IF Pieces * i <= pieces THEN answer.natives[i] ELSE Broken
    BY NativesIs
  <1>4. pieces \in Nat
    <2>1. pieces \in 0..(Pieces * Len(answer.natives)) /\ Len(answer.natives) \in Nat
      BY AnswerIs, LenProperties DEF TypeInv
    <2> QED BY <2>1 DEF Pieces
  <1>5. cs = [i \in 1..n |-> ToolCallStart(IF builders[i] = Pieces THEN answer.natives[i] ELSE Broken)]
    BY <1>1 DEF NativeCalls
  <1> HIDE DEF x, n, cs
  <1>6. Len(x) = n /\ DOMAIN x = 1..n
    <2>1. Len(x) = n
      BY <1>1, <1>2, <1>3, <1>4 DEF Pieces
    <2> QED BY <2>1, <1>3, LenProperties
  <1>7. \A i \in 1..n : (IF builders[i] = Pieces THEN answer.natives[i] ELSE Broken) = x[i]
    BY <1>2, <1>3, <1>6 DEF Pieces
  <1>8. cs = [i \in DOMAIN x |-> ToolCallStart(x[i])]
    BY <1>5, <1>6, <1>7
  <1>9. cs \in Seq(WholeChunks) /\ CallsIn(cs) = x /\ TextIn(cs) = <<>>
    BY <1>3, <1>8, CallChunks
  <1> QED BY <1>9 DEF x, cs

(* The chunks of what ingest returns. *)
LEMMA ShownChunks ==
    ASSUME NEW in \in Ingestion, NEW cs, cs = [i \in DOMAIN in.calls |-> ToolCallStart(in.calls[i])]
    PROVE  /\ Content(in.text) \o cs \in Seq(WholeChunks)
           /\ CallsIn(Content(in.text) \o cs) = in.calls
           /\ TextIn(Content(in.text) \o cs) = in.text
  <1> DEFINE c == Content(in.text)
             calls == in.calls
             text == in.text
  <1>1. text \in Text /\ calls \in Seq(Calls)
    BY CommandsAreCalls DEF Ingestion
  <1>2. c \in Seq(WholeChunks) /\ CallsIn(c) = <<>> /\ TextIn(c) = text
    BY <1>1, ContentIs
  <1>3. cs = [i \in DOMAIN calls |-> ToolCallStart(calls[i])]
    OBVIOUS
  <1> HIDE DEF c, calls, text
  <1>4. cs \in Seq(WholeChunks) /\ CallsIn(cs) = calls /\ TextIn(cs) = <<>>
    BY <1>1, <1>3, CallChunks
  <1>5. /\ c \o cs \in Seq(WholeChunks) /\ CallsIn(c \o cs) = CallsIn(c) \o CallsIn(cs)
        /\ TextIn(c \o cs) = TextIn(c) \o TextIn(cs)
    BY <1>2, <1>4, ChunksJoin
  <1>6. <<>> \o calls = calls /\ text \o <<>> = text
    BY <1>1, ConcatProperties DEF Text
  <1> QED BY <1>2, <1>4, <1>5, <1>6 DEF c, calls, text

(* A sequence followed by another keeps its elements. *)
LEMMA JoinKeeps ==
    ASSUME NEW S, NEW a \in Seq(S), NEW b \in Seq(S)
    PROVE  Len(a) <= Len(a \o b) /\ \A i \in 1..Len(a) : (a \o b)[i] = a[i]
  <1>1. Len(a) \in Nat /\ Len(b) \in Nat
    BY LenProperties
  <1>2. Len(a \o b) = Len(a) + Len(b) /\ \A i \in 1..Len(a) : (a \o b)[i] = a[i]
    BY JoinIs
  <1> QED BY <1>1, <1>2

(* What a frame with text sends. *)
LEMMA FrameIs ==
    ASSUME TypeInv, BuilderInv, ~finished,
           NEW n \in 0..(Len(answer.text) - received), NEW finish \in BOOLEAN, TextFrame(n, finish)
    PROVE  LET d == SubSeq(answer.text, received + 1, received + n)
               in == ingest(dsml_acc, d)
           IN  /\ d \in Text /\ in \in Ingestion
               /\ received' = received + n /\ received' \in 0..Len(answer.text)
               /\ Arrived \in Text /\ Arrived' = Arrived \o d
               /\ rx' \in Seq(WholeChunks) /\ Len(rx) <= Len(rx')
               /\ \A i \in 1..Len(rx) : rx'[i] = rx[i]
               /\ CallsIn(rx') = (CallsIn(rx) \o in.calls)
                                   \o (IF finish THEN NativesArrived ELSE <<>>)
               /\ TextIn(rx') = (TextIn(rx) \o in.text) \o (IF finish THEN in.acc.buf ELSE <<>>)
               /\ dropped' = dropped \o in.dropped
               /\ dsml_acc' = IF finish THEN EmptyAccumulator ELSE in.acc
               /\ builders' = IF finish THEN <<>> ELSE builders
               /\ finished' = finish /\ UNCHANGED <<call, retryVars, answer, pieces, reasoned>>
  <1> DEFINE text == answer.text
             natives == NativesArrived
             d == SubSeq(text, received + 1, received + n)
             in == ingest(dsml_acc, d)
             calls == [i \in DOMAIN in.calls |-> ToolCallStart(in.calls[i])]
             show == Content(in.text) \o calls
             nc == NativeCalls(builders)
             last == Content(in.acc.buf)
  <1>1. text \in Text /\ natives \in Seq(Calls)
    BY AnswerIs, NativesIs DEF TypeInv
  <1>2. Len(text) \in Nat /\ received \in 0..Len(text) /\ received + n \in 0..Len(text)
        /\ n \in Nat /\ received \in Nat
    <2>1. Len(text) \in Nat
      BY <1>1, LenProperties DEF Text
    <2>2. received \in 0..Len(text) /\ n \in 0..(Len(text) - received)
      BY DEF TypeInv
    <2> HIDE DEF text
    <2> QED BY <2>1, <2>2
  <1>3. dsml_acc \in Holding /\ dropped \in Text /\ rx \in Seq(WholeChunks)
        /\ builders \in Seq(1..Pieces)
    BY DEF TypeInv
  <1>4. /\ received' = received + n /\ dropped' = dropped \o in.dropped
        /\ rx' = IF finish THEN ((rx \o show) \o nc) \o last ELSE rx \o show
        /\ dsml_acc' = IF finish THEN EmptyAccumulator ELSE in.acc
        /\ builders' = IF finish THEN <<>> ELSE builders
        /\ finished' = finish /\ UNCHANGED <<call, retryVars, answer, pieces, reasoned>>
    BY DEF TextFrame, flush
  <1>5. d \in Text
    <2>1. /\ received + 1 \in Nat \ {0} /\ received + n \in Nat
          /\ received + 1 <= (received + n) + 1 /\ received + n <= Len(text)
      BY <1>2
    <2> HIDE DEF text
    <2> QED BY <2>1, <1>1, PartIs DEF Text
  <1>6. Arrived \in Text
    <2>1. UpTo(text, received) \in Text
      <3> HIDE DEF text
      <3>1. received \in Nat /\ received <= Len(text)
        BY <1>2
      <3> QED BY <3>1, <1>1, UpToIs DEF Text
    <2> QED BY <2>1 DEF Arrived
  <1>7. Arrived' = Arrived \o d
    <2>1. SubSeq(text, 1, received) \o SubSeq(text, received + 1, received + n)
            = SubSeq(text, 1, received + n)
      <3>1. /\ 1 \in 1..(Len(text) + 1) /\ received \in (1 - 1)..Len(text)
            /\ received + n \in received..Len(text)
        BY <1>2
      <3> HIDE DEF text
      <3> QED BY <3>1, <1>1, ConcatAdjacentSubSeq DEF Text
    <2>2. Arrived' = SubSeq(text, 1, received + n)
      BY <1>4 DEF Arrived, UpTo
    <2> QED BY <2>1, <2>2 DEF Arrived, UpTo
  <1> HIDE DEF d
  <1>8. in \in Ingestion
    BY <1>3, <1>5, IngestType
  <1> HIDE DEF in
  <1>9. show \in Seq(WholeChunks) /\ CallsIn(show) = in.calls /\ TextIn(show) = in.text
    BY <1>8, ShownChunks
  <1>10. in.acc.buf \in Text /\ in.calls \in Seq(Calls) /\ in.text \in Text
    BY <1>8, CommandsAreCalls DEF Ingestion, Holding, Accumulator, Text
  <1>11. last \in Seq(WholeChunks) /\ CallsIn(last) = <<>> /\ TextIn(last) = in.acc.buf
    BY <1>10, ContentIs
  <1>12. nc \in Seq(WholeChunks) /\ CallsIn(nc) = natives /\ TextIn(nc) = <<>>
    BY NativeChunks
  <1> HIDE DEF show, nc, last, natives, text
  <1> DEFINE s1 == rx \o show
             ic == in.calls
             it == in.text
             ib == in.acc.buf
  <1>13. /\ s1 \in Seq(WholeChunks) /\ CallsIn(s1) = CallsIn(rx) \o ic
         /\ TextIn(s1) = TextIn(rx) \o it
    BY <1>3, <1>9, ChunksJoin
  <1>20. Len(rx) <= Len(s1) /\ \A i \in 1..Len(rx) : s1[i] = rx[i]
    BY <1>3, <1>9, JoinKeeps
  <1>14. CallsIn(s1) \in Seq(Calls) /\ TextIn(s1) \in Seq(Symbols)
    <2>1. s1 \in Seq(WholeChunks)
      BY <1>13
    <2> HIDE DEF s1
    <2> QED BY <2>1, ChunksJoin DEF Text
  <1>15. CASE ~finish
    <2>1. rx' = s1
      BY <1>4, <1>15
    <2>2. CallsIn(s1) \o <<>> = CallsIn(s1) /\ TextIn(s1) \o <<>> = TextIn(s1)
      <3> HIDE DEF s1
      <3> QED BY <1>14, ConcatProperties
    <2>3. rx' \in Seq(WholeChunks) /\ CallsIn(rx') = CallsIn(s1) \o <<>>
          /\ TextIn(rx') = TextIn(s1) \o <<>>
      BY <2>1, <2>2, <1>13
    <2>4. /\ CallsIn(rx') = (CallsIn(rx) \o ic) \o (IF finish THEN natives ELSE <<>>)
          /\ TextIn(rx') = (TextIn(rx) \o it) \o (IF finish THEN ib ELSE <<>>)
      BY <2>3, <1>13, <1>15
    <2>5. Len(rx) <= Len(rx') /\ \A i \in 1..Len(rx) : rx'[i] = rx[i]
      BY <2>1, <1>20
    <2> QED BY <2>3, <2>4, <2>5, <1>2, <1>4, <1>5, <1>6, <1>7, <1>8 DEF d, in, text, natives
  <1>16. CASE finish
    <2> HIDE DEF s1
    <2> DEFINE s2 == s1 \o nc
    <2>1. rx' = s2 \o last
      BY <1>4, <1>16 DEF s1
    <2>2. /\ s2 \in Seq(WholeChunks) /\ CallsIn(s2) = CallsIn(s1) \o CallsIn(nc)
          /\ TextIn(s2) = TextIn(s1) \o TextIn(nc)
      BY <1>12, <1>13, <1>16, ChunksJoin
    <2> HIDE DEF s2
    <2>3. /\ s2 \o last \in Seq(WholeChunks) /\ CallsIn(s2 \o last) = CallsIn(s2) \o CallsIn(last)
          /\ TextIn(s2 \o last) = TextIn(s2) \o TextIn(last)
          /\ CallsIn(s2) \in Seq(Calls)
      BY <2>2, <1>11, ChunksJoin
    <2>4. CallsIn(s2) \o <<>> = CallsIn(s2) /\ TextIn(s1) \o <<>> = TextIn(s1)
      BY <2>3, <1>14, ConcatProperties
    <2>5. /\ CallsIn(rx') = CallsIn(s1) \o natives
          /\ TextIn(rx') = TextIn(s1) \o ib
      BY <2>1, <2>2, <2>3, <2>4, <1>11, <1>12, <1>16
    <2>6. /\ CallsIn(rx') = (CallsIn(rx) \o ic) \o (IF finish THEN natives ELSE <<>>)
          /\ TextIn(rx') = (TextIn(rx) \o it) \o (IF finish THEN ib ELSE <<>>)
      BY <2>5, <1>13, <1>16
    <2>7. Len(s1) <= Len(s2) /\ \A i \in 1..Len(s1) : s2[i] = s1[i]
      BY <1>12, <1>13, JoinKeeps DEF s2
    <2>8. Len(s2) <= Len(rx') /\ \A i \in 1..Len(s2) : rx'[i] = s2[i]
      BY <2>1, <2>2, <1>11, JoinKeeps
    <2>9. Len(rx) <= Len(rx') /\ \A i \in 1..Len(rx) : rx'[i] = rx[i]
      <3>1. Len(rx) \in Nat /\ Len(s1) \in Nat /\ Len(s2) \in Nat /\ Len(rx') \in Nat
        BY <1>3, <1>13, <2>1, <2>2, <2>3, LenProperties
      <3> QED BY <3>1, <2>7, <2>8, <1>20
    <2> QED BY <2>1, <2>3, <2>6, <2>9, <1>2, <1>4, <1>5, <1>6, <1>7, <1>8 DEF d, in, text, natives
  <1> QED BY <1>15, <1>16
-----------------------------------------------------------------------------
(* A frame takes no more than there is. *)
LEMMA FrameChoice ==
    ASSUME Base, Frame
    PROVE  \E n \in 0..(Len(answer.text) - received), finish \in BOOLEAN : TextFrame(n, finish)
  <1>1. answer.text \in Text /\ Len(answer.text) \in Nat /\ received \in 0..Len(answer.text)
    BY AnswerIs, LenProperties DEF Base, TypeInv, Text
  <1>2. PICK n \in 0..Min({MaxDelta, Len(answer.text) - received}), finish \in BOOLEAN : TextFrame(n, finish)
    BY DEF Frame
  <1> DEFINE m == Len(answer.text) - received
  <1>3. m \in Nat
    BY <1>1
  <1> HIDE DEF m
  <1>4. {MaxDelta, m} \in SUBSET Nat /\ {MaxDelta, m} # {}
    BY <1>3, ClientAssumption
  <1>5. Min({MaxDelta, m}) \in Nat /\ Min({MaxDelta, m}) <= m
    BY <1>4, MinIs
  <1>6. n \in 0..Min({MaxDelta, m})
    BY <1>2 DEF m
  <1>7. n \in 0..m
    BY <1>3, <1>5, <1>6
  <1> QED BY <1>2, <1>7 DEF m

(* A frame with text. *)
LEMMA FrameBase ==
    ASSUME Base, Frame, UNCHANGED cliVars
    PROVE  Base'
  <1> USE DEF Base
  <1>1. call = "streaming" /\ ~finished
    BY DEF Frame
  <1>2. answer.text \in Text /\ Len(answer.text) \in Nat /\ received \in 0..Len(answer.text)
    BY AnswerIs, LenProperties DEF TypeInv, Text
  <1>3. PICK n \in 0..(Len(answer.text) - received), finish \in BOOLEAN : TextFrame(n, finish)
    BY FrameChoice
  <1> DEFINE d == SubSeq(answer.text, received + 1, received + n)
             in == ingest(dsml_acc, d)
  <1>5. /\ in \in Ingestion /\ d \in Text
        /\ received' = received + n /\ received' \in 0..Len(answer.text)
        /\ rx' \in Seq(WholeChunks)
        /\ dropped' = dropped \o in.dropped
        /\ dsml_acc' = IF finish THEN EmptyAccumulator ELSE in.acc
        /\ builders' = IF finish THEN <<>> ELSE builders
        /\ finished' = finish /\ UNCHANGED <<call, retryVars, answer, pieces, reasoned>>
    BY <1>1, <1>3, FrameIs
  <1> HIDE DEF in, d
  <1>6. dsml_acc' \in Holding /\ in.dropped \in Text
    BY <1>5, EmptyIs DEF Ingestion
  <1>7. dropped' \in Text
    <2>1. dropped \in Text
      BY DEF TypeInv
    <2> DEFINE a == in.dropped
    <2>2. a \in Text
      BY <1>6
    <2> HIDE DEF a
    <2>3. dropped \o a \in Text
      BY <2>1, <2>2, JoinIs DEF Text
    <2> QED BY <2>3, <1>5 DEF a
  <1>8. builders' \in Seq(1..Pieces) /\ Len(builders') <= Len(answer.natives)
    <2>1. <<>> \in Seq(1..Pieces) /\ Len(<<>>) = 0
      OBVIOUS
    <2>2. Len(answer.natives) \in Nat
      BY AnswerIs, LenProperties DEF TypeInv
    <2>3. builders \in Seq(1..Pieces) /\ Len(builders) <= Len(answer.natives)
      BY DEF TypeInv
    <2>4. CASE finish
      <3>1. builders' = <<>>
        BY <1>5, <2>4
      <3> QED BY <3>1, <2>1, <2>2
    <2>5. CASE ~finish
      <3>1. builders' = builders
        BY <1>5, <2>5
      <3> QED BY <3>1, <2>3
    <2> QED BY <2>4, <2>5
  <1>9. TypeInv'
    BY <1>1, <1>3, <1>5, <1>6, <1>7, <1>8 DEF TypeInv, retryVars, cliVars
  <1>10. BuilderInv'
    <2>1. CASE finish
      BY <1>5, <2>1 DEF BuilderInv
    <2>2. CASE ~finish
      BY <1>1, <1>5, <2>2 DEF BuilderInv
    <2> QED BY <2>1, <2>2
  <1>11. WaitInv' /\ FreshInv'
    BY <1>1, <1>5 DEF WaitInv, FreshInv, Streamed
  <1>12. FinishInv'
    BY <1>5 DEF FinishInv
  <1>13. RunInv' /\ BrokenInv' /\ RequestInv'
    BY <1>1, <1>5 DEF RunInv, BrokenInv, RequestInv, cliVars
  <1> QED BY <1>9, <1>10, <1>11, <1>12, <1>13

(* The stream ends, or breaks. *)
LEMMA EndsBase ==
    ASSUME Base, StreamEnds, UNCHANGED cliVars
    PROVE  Base'
  <1> USE DEF Base
  <1>1. /\ call = "streaming" /\ call' = "closed"
        /\ rx' = rx \o Content(flush(dsml_acc)) /\ dsml_acc' = EmptyAccumulator
        /\ UNCHANGED <<retryVars, answer, received, pieces, reasoned, builders, finished, dropped>>
    BY DEF StreamEnds, arrivedVars
  <1>2. rx' \in Seq(WholeChunks)
    <2> DEFINE c == Content(dsml_acc.buf)
    <2>1. dsml_acc.buf \in Text /\ rx \in Seq(WholeChunks)
      BY DEF TypeInv, Holding, Accumulator, Text
    <2>2. c \in Seq(WholeChunks)
      BY <2>1, ContentIs
    <2> HIDE DEF c
    <2>3. rx \o c \in Seq(WholeChunks)
      BY <2>1, <2>2, ChunksJoin
    <2> QED BY <2>3, <1>1 DEF c, flush
  <1>3. TypeInv'
    BY <1>1, <1>2, EmptyIs DEF TypeInv, retryVars, cliVars
  <1>4. BuilderInv' /\ WaitInv' /\ FreshInv' /\ FinishInv'
    BY <1>1 DEF BuilderInv, WaitInv, FreshInv, FinishInv, Streamed
  <1>5. RunInv' /\ BrokenInv' /\ RequestInv'
    BY <1>1 DEF RunInv, BrokenInv, RequestInv, cliVars
  <1> QED BY <1>3, <1>4, <1>5

LEMMA BreaksBase ==
    ASSUME Base, StreamBreaks, UNCHANGED cliVars
    PROVE  Base'
  <1> USE DEF Base
  <1>1. /\ call = "streaming" /\ call' = "broken" /\ rx' = Append(rx, StreamError)
        /\ UNCHANGED <<retryVars, answer, received, pieces, reasoned, builders, dsml_acc, finished, dropped>>
    BY DEF StreamBreaks, arrivedVars
  <1>2. rx' \in Seq(WholeChunks) /\ rx' # <<>> /\ rx'[Len(rx')] = StreamError
    <2>1. rx \in Seq(WholeChunks) /\ StreamError \in WholeChunks
      BY DEF TypeInv, WholeChunks
    <2>2. Append(rx, StreamError) \in Seq(WholeChunks)
          /\ Len(Append(rx, StreamError)) = Len(rx) + 1
          /\ Append(rx, StreamError)[Len(rx) + 1] = StreamError
      BY <2>1, AppendProperties
    <2>3. Len(rx) \in Nat
      BY <2>1, LenProperties
    <2>4. Append(rx, StreamError) # <<>>
      BY <2>2, <2>3, EmptySeq
    <2> QED BY <2>2, <2>4, <1>1
  <1>3. TypeInv'
    BY <1>1, <1>2 DEF TypeInv, retryVars, cliVars
  <1>4. BuilderInv' /\ WaitInv' /\ FreshInv' /\ FinishInv'
    BY <1>1 DEF BuilderInv, WaitInv, FreshInv, FinishInv, Streamed
  <1>5. RunInv' /\ BrokenInv' /\ RequestInv'
    BY <1>1, <1>2 DEF RunInv, BrokenInv, RequestInv, cliVars
  <1> QED BY <1>3, <1>4, <1>5
-----------------------------------------------------------------------------
(* The steps of the agent. *)

LEMMA AskFailsBase ==
    ASSUME Base, AskFails
    PROVE  Base'
  <1> USE DEF Base
  <1>1. /\ place = "reading" /\ call = "refused" /\ place' = "failed" /\ status' = "error"
        /\ UNCHANGED <<clientVars, phase, shown, tool_calls, reasoning, ran, messages, bare>>
    BY DEF AskFails
  <1>2. TypeInv' /\ BuilderInv' /\ WaitInv' /\ FreshInv' /\ FinishInv'
    BY <1>1 DEF TypeInv, BuilderInv, WaitInv, FreshInv, FinishInv, NothingStreamed,
                clientVars, streamVars, arrivedVars, retryVars
  <1>3. RunInv' /\ BrokenInv' /\ RequestInv'
    BY <1>1 DEF RunInv, BrokenInv, RequestInv, clientVars, streamVars, arrivedVars, retryVars
  <1> QED BY <1>2, <1>3

(* What TakeChunk does, in terms of the chunk. *)
LEMMA ChunkTaken ==
    ASSUME Base, TakeChunk
    PROVE  LET chunk == Head(rx) IN
           /\ place = "reading" /\ rx \in Seq(WholeChunks) /\ rx # <<>>
           /\ chunk \in WholeChunks /\ rx' = Tail(rx) /\ rx' \in Seq(WholeChunks)
           /\ rx = <<chunk>> \o rx'
           /\ shown' = shown \o TextOfChunk(chunk)
           /\ tool_calls' = tool_calls \o CallIn(chunk)
           /\ reasoning' = (reasoning \/ chunk.kind = "Reasoning")
           /\ CASE chunk.kind = "Err" -> place' = "failed" /\ status' = "error"
                [] OTHER -> UNCHANGED <<place, status>>
           /\ UNCHANGED <<call, retryVars, answer, received, pieces, reasoned, builders, dsml_acc, finished,
                          dropped, phase, ran, messages, bare>>
  <1> DEFINE chunk == Head(rx)
  <1>1. place = "reading" /\ rx # <<>> /\ rx' = Tail(rx)
        /\ UNCHANGED <<call, retryVars, answer, received, pieces, reasoned, builders, dsml_acc, finished,
                       dropped, phase, ran, messages, bare>>
    BY DEF TakeChunk, arrivedVars
  <1>2. rx \in Seq(WholeChunks) /\ shown \in Text /\ tool_calls \in Seq(Calls)
        /\ reasoning \in BOOLEAN
    BY DEF Base, TypeInv
  <1>3. chunk \in WholeChunks /\ Tail(rx) \in Seq(WholeChunks) /\ rx = <<chunk>> \o Tail(rx)
    BY <1>1, <1>2, HeadTailProperties
  <1>4. shown \o <<>> = shown /\ tool_calls \o <<>> = tool_calls
    BY <1>2, ConcatProperties DEF Text
  <1>5. CASE chunk.kind = "Content"
    <2>1. shown' = shown \o chunk.text /\ UNCHANGED <<place, tool_calls, reasoning, status>>
      BY <1>5 DEF TakeChunk
    <2>2. TextOfChunk(chunk) = chunk.text /\ CallIn(chunk) = <<>>
      BY <1>5 DEF TextOfChunk, CallIn
    <2> HIDE DEF chunk
    <2> QED BY <1>1, <1>2, <1>3, <1>4, <1>5, <2>1, <2>2 DEF chunk
  <1>6. CASE chunk.kind = "ToolCallStart"
    <2>1. tool_calls' = Append(tool_calls, chunk.command) /\ UNCHANGED <<place, shown, reasoning, status>>
      BY <1>6 DEF TakeChunk
    <2>2. TextOfChunk(chunk) = <<>> /\ CallIn(chunk) = <<chunk.command>>
      BY <1>6 DEF TextOfChunk, CallIn
    <2>3. chunk.command \in Calls
      <3>1. chunk \in [kind : {"ToolCallStart"}, command : Calls]
        BY <1>3, <1>6 DEF WholeChunks, StreamError, Reasoning
      <3> QED BY <3>1
    <2>4. Append(tool_calls, chunk.command) = tool_calls \o <<chunk.command>>
      <3> DEFINE c == chunk.command
      <3> HIDE DEF c
      <3>1. c \in Calls
        BY <2>3 DEF c
      <3>2. Append(tool_calls, c) = tool_calls \o <<c>>
        BY <3>1, <1>2, AppendIsConcat
      <3> QED BY <3>2 DEF c
    <2> HIDE DEF chunk
    <2> QED BY <1>1, <1>2, <1>3, <1>4, <1>6, <2>1, <2>2, <2>4 DEF chunk
  <1>7. CASE chunk.kind = "Err"
    <2>1. place' = "failed" /\ status' = "error" /\ UNCHANGED <<shown, tool_calls, reasoning>>
      BY <1>7 DEF TakeChunk, ErrorTaken
    <2>2. TextOfChunk(chunk) = <<>> /\ CallIn(chunk) = <<>>
      BY <1>7 DEF TextOfChunk, CallIn
    <2> HIDE DEF chunk
    <2> QED BY <1>1, <1>2, <1>3, <1>4, <1>7, <2>1, <2>2 DEF chunk
  <1>8. CASE chunk.kind = "Reasoning"
    <2>1. reasoning' = TRUE /\ UNCHANGED <<place, shown, tool_calls, status>>
      BY <1>8 DEF TakeChunk
    <2>2. TextOfChunk(chunk) = <<>> /\ CallIn(chunk) = <<>>
      BY <1>8 DEF TextOfChunk, CallIn
    <2> HIDE DEF chunk
    <2> QED BY <1>1, <1>2, <1>3, <1>4, <1>8, <2>1, <2>2 DEF chunk
  <1> QED BY <1>5, <1>6, <1>7, <1>8 DEF TakeChunk

LEMMA ChunkBase ==
    ASSUME Base, TakeChunk
    PROVE  Base'
  <1> DEFINE chunk == Head(rx)
  <1>1. /\ place = "reading" /\ rx \in Seq(WholeChunks) /\ rx # <<>>
        /\ chunk \in WholeChunks /\ rx' = Tail(rx) /\ rx' \in Seq(WholeChunks)
        /\ shown' = shown \o TextOfChunk(chunk)
        /\ tool_calls' = tool_calls \o CallIn(chunk)
        /\ UNCHANGED <<call, retryVars, answer, received, pieces, reasoned, builders, dsml_acc, finished,
                       dropped, phase, ran, messages, bare>>
    BY ChunkTaken
  <1>2. \/ chunk.kind = "Err" /\ place' = "failed" /\ status' = "error"
        \/ chunk.kind # "Err" /\ UNCHANGED <<place, status>>
    BY ChunkTaken
  <1>20. reasoning' \in BOOLEAN
    BY ChunkTaken
  <1>3. TextOfChunk(chunk) \in Text /\ CallIn(chunk) \in Seq(Calls)
    BY <1>1, ChunkIs
  <1>4. rx[Len(rx)] = StreamError /\ place' = "reading" => rx' # <<>> /\ rx'[Len(rx')] = StreamError
    <2> SUFFICES ASSUME rx[Len(rx)] = StreamError, place' = "reading"
                 PROVE  rx' # <<>> /\ rx'[Len(rx')] = StreamError
      OBVIOUS
    <2> DEFINE n == Len(rx)
    <2>1. n \in Nat /\ n # 0
      BY <1>1, LenProperties, EmptySeq
    <2>2. chunk.kind # "Err"
      BY <1>2
    <2>3. rx[1] = chunk
      BY <1>1
    <2>4. n # 1
      BY <2>2, <2>3 DEF StreamError
    <2>5. /\ Len(rx') = n - 1
          /\ \A i \in 1..(n - 1) : rx'[i] = rx[i + 1]
      BY <1>1, HeadTailProperties
    <2> HIDE DEF n, chunk
    <2>6. n - 1 \in 1..(n - 1) /\ (n - 1) + 1 = n
      BY <2>1, <2>4
    <2>7. rx'[n - 1] = StreamError
      BY <2>5, <2>6 DEF n
    <2>8. rx' # <<>>
      <3>1. n - 1 # 0
        BY <2>1, <2>4
      <3>2. Len(<<>>) = 0
        OBVIOUS
      <3> QED BY <3>1, <3>2, <2>5
    <2> QED BY <2>5, <2>7, <2>8
  <1> HIDE DEF chunk
  <1>5. shown' \in Text /\ tool_calls' \in Seq(Calls)
        /\ Len(tool_calls) <= Len(tool_calls')
        /\ \A i \in 1..Len(tool_calls) : tool_calls'[i] = tool_calls[i]
    <2> DEFINE a == TextOfChunk(chunk)
               b == CallIn(chunk)
    <2>1. a \in Text /\ b \in Seq(Calls)
      BY <1>3
    <2>2. shown \in Text /\ tool_calls \in Seq(Calls)
      BY DEF Base, TypeInv
    <2> HIDE DEF a, b
    <2>3. shown \o a \in Text
      BY <2>1, <2>2, JoinIs DEF Text
    <2>4. tool_calls \o b \in Seq(Calls) /\ Len(tool_calls \o b) = Len(tool_calls) + Len(b)
          /\ \A i \in 1..Len(tool_calls) : (tool_calls \o b)[i] = tool_calls[i]
      BY <2>1, <2>2, JoinIs
    <2>5. Len(tool_calls) \in Nat /\ Len(b) \in Nat
      BY <2>1, <2>2, LenProperties
    <2>6. Len(tool_calls) <= Len(tool_calls) + Len(b)
      BY <2>5
    <2>7. shown' = shown \o a /\ tool_calls' = tool_calls \o b
      BY <1>1 DEF a, b
    <2> QED BY <2>3, <2>4, <2>6, <2>7
  <1>6. call \in Streamed
    BY <1>1 DEF Base, FreshInv, NothingStreamed
  <1>7. TypeInv'
    BY <1>1, <1>2, <1>5, <1>20 DEF Base, TypeInv, retryVars
  <1>8. BuilderInv' /\ WaitInv' /\ FinishInv'
    BY <1>1 DEF Base, BuilderInv, WaitInv, FinishInv, retryVars
  <1>9. FreshInv'
    BY <1>1, <1>6 DEF FreshInv
  <1>10. RunInv'
    <2>1. ran = <<>> /\ ran' = <<>> /\ place' # "running" /\ Len(<<>>) = 0
      BY <1>1, <1>2 DEF Base, RunInv
    <2>2. Len(tool_calls') \in Nat
      BY <1>5, LenProperties
    <2>3. Len(ran') = 0
      BY <2>1
    <2> QED BY <2>1, <2>2, <2>3 DEF RunInv
  <1>11. BrokenInv'
    BY <1>1, <1>2, <1>4 DEF Base, BrokenInv
  <1>12. RequestInv'
    BY <1>1 DEF Base, RequestInv
  <1> QED BY <1>7, <1>8, <1>9, <1>10, <1>11, <1>12 DEF Base

(* The answer is complete: one that broke never is. *)
LEMMA AnswerBase ==
    ASSUME Base, AnswerTaken
    PROVE  Base'
  <1> USE DEF Base
  <1>1. /\ place = "reading" /\ call \in {"closed", "broken"} /\ rx = <<>>
        /\ place' \in {"done", "running"}
        /\ UNCHANGED <<clientVars, phase, shown, tool_calls, reasoning, ran, messages, status, bare>>
    BY DEF AnswerTaken
  <1>2. call = "closed" /\ ran = <<>>
    BY <1>1 DEF BrokenInv, RunInv
  <1>3. TypeInv' /\ BuilderInv' /\ WaitInv' /\ FreshInv' /\ FinishInv'
    BY <1>1 DEF TypeInv, BuilderInv, WaitInv, FreshInv, FinishInv, NothingStreamed,
                clientVars, streamVars, arrivedVars, retryVars
  <1>4. RunInv' /\ BrokenInv' /\ RequestInv'
    BY <1>1, <1>2 DEF RunInv, BrokenInv, RequestInv, clientVars, streamVars, arrivedVars, retryVars
  <1> QED BY <1>3, <1>4

(* A message whose reasoning is set is the same otherwise. *)
LEMMA WithReason ==
    ASSUME NEW I, NEW m \in Messages(I), NEW b \in BOOLEAN
    PROVE  LET w == [m EXCEPT !.reason = b] IN
           w \in Messages(I) /\ w.reason = b /\ w.calls = m.calls /\ w.role = m.role
  <1> DEFINE w == [m EXCEPT !.reason = b]
  <1>1. w \in Messages(I)
    BY DEF Messages
  <1>2. w.reason = b
    BY DEF Messages
  <1>3. w.calls = m.calls
    BY DEF Messages
  <1>4. w.role = m.role
    BY DEF Messages
  <1> QED BY <1>1, <1>2, <1>3, <1>4

(* A message with a call, and the result of the call. *)
LEMMA FollowUpIs ==
    ASSUME NEW id \in Ids, NEW reason \in BOOLEAN, NEW outcome
    PROVE  LET w == FollowUp(id, reason, outcome) IN
           /\ w \in Seq(Messages(Ids)) /\ WellFormed(w) /\ Len(w) = 2
           /\ w[1].calls = <<id>> /\ w[1].reason = reason /\ w[2].calls = <<>>
  <1> DEFINE a == Called(id, reason)
             b == Result(id)
             w == <<a, b>>
  <1>1. /\ a \in Messages(Ids) /\ a.calls = <<id>> /\ ~IsTool(a) /\ a.reason = reason
        /\ b \in Messages(Ids) /\ b.calls = <<>> /\ IsTool(b) /\ b.id = id
    <2> DEFINE m == Assistant(<<id>>)
    <2>1. m = [role |-> "assistant", calls |-> <<id>>, id |-> <<>>,
               reason |-> FALSE, image |-> FALSE, made |-> FALSE]
      BY DEF Assistant, Message
    <2>2. b = [role |-> "tool", calls |-> <<>>, id |-> id,
               reason |-> FALSE, image |-> FALSE, made |-> FALSE]
      BY DEF Result, Message
    <2>3. a = [m EXCEPT !.reason = reason]
      BY DEF Called
    <2> HIDE DEF a, b, m
    <2>4. m \in Messages(Ids) /\ m.role = "assistant" /\ m.calls = <<id>>
      BY <2>1 DEF Messages, Roles
    <2>5. b \in Messages(Ids) /\ b.role = "tool" /\ b.calls = <<>> /\ b.id = id
      BY <2>2 DEF Messages, Roles
    <2>6. a \in Messages(Ids) /\ a.reason = reason /\ a.calls = m.calls /\ a.role = m.role
      BY <2>3, <2>4, WithReason
    <2> QED BY <2>4, <2>5, <2>6 DEF IsTool
  <1> HIDE DEF a, b
  <1>2. w \in Seq(Messages(Ids)) /\ Len(w) = 2 /\ DOMAIN w = 1..2 /\ w[1] = a /\ w[2] = b
    BY <1>1
  <1> HIDE DEF w
  <1>3. Answered(w, 1)
    <2>1. Len(w[1].calls) = 1 /\ w[1].calls[1] = id
      <3>1. w[1].calls = <<id>>
        BY <1>1, <1>2
      <3>2. Len(<<id>>) = 1 /\ <<id>>[1] = id
        OBVIOUS
      <3> QED BY <3>1, <3>2
    <2>2. \A k \in (1 + 1)..(1 + 1) : k = 2
      OBVIOUS
    <2>3. {w[k].id : k \in (1 + 1)..(1 + 1)} = {id}
      <3>1. (1 + 1)..(1 + 1) = {2}
        OBVIOUS
      <3>2. {w[k].id : k \in {2}} = {id}
        BY <1>1, <1>2
      <3> QED BY <3>1, <3>2
    <2>4. {w[1].calls[k] : k \in 1..1} = {id}
      <3>1. 1..1 = {1}
        OBVIOUS
      <3>2. {w[1].calls[k] : k \in {1}} = {id}
        BY <2>1
      <3> QED BY <3>1, <3>2
    <2>5. \A k \in (1 + 1)..(1 + 1) : IsTool(w[k])
      BY <2>2, <1>1, <1>2
    <2>6. 1 + 1 <= Len(w)
      BY <1>2
    <2> QED BY <2>1, <2>3, <2>4, <2>5, <2>6 DEF Answered
  <1>4. Owned(w, 2)
    <2>1. w[1].calls = <<id>> /\ Len(<<id>>) = 1
      BY <1>1, <1>2
    <2>2. 1 \in 1..(2 - 1) /\ 2 - 1 <= 1
      OBVIOUS
    <2> QED BY <2>1, <2>2 DEF Owned
  <1>5. WellFormed(w)
    <2>1. ASSUME NEW i \in DOMAIN w
          PROVE  (w[i].calls # <<>> => Answered(w, i)) /\ (IsTool(w[i]) => Owned(w, i))
      <3>1. i = 1 \/ i = 2
        BY <1>2
      <3> QED BY <3>1, <1>1, <1>2, <1>3, <1>4
    <2> QED BY <2>1 DEF WellFormed
  <1> QED BY <1>1, <1>2, <1>5 DEF FollowUp, w, a, b

LEMMA RunBase ==
    ASSUME Base, RunCall
    PROVE  Base'
  <1> USE DEF Base
  <1> DEFINE n == Len(ran)
             id == <<phase, n + 1>>
  <1>1. /\ place = "running" /\ n < Len(tool_calls)
        /\ ran' = Append(ran, tool_calls[n + 1])
        /\ status' \in {"partial", status}
        /\ UNCHANGED <<clientVars, place, phase, shown, tool_calls, reasoning, bare>>
    BY DEF RunCall
  <1>2. PICK outcome \in Outcomes : messages' = messages \o FollowUp(id, reasoning, outcome)
    BY DEF RunCall
  <1>3. /\ ran \in Seq(Calls) /\ tool_calls \in Seq(Calls)
        /\ messages \in Seq(Messages(Ids)) /\ phase \in 1..(MaxPhases + 1)
        /\ reasoning \in BOOLEAN
    BY DEF TypeInv
  <1>4. n \in Nat /\ Len(tool_calls) \in Nat /\ n + 1 \in 1..Len(tool_calls)
        /\ tool_calls[n + 1] \in Calls
    <2>1. n \in Nat /\ Len(tool_calls) \in Nat
      BY <1>3, LenProperties
    <2>2. n + 1 \in 1..Len(tool_calls)
      BY <2>1, <1>1
    <2> QED BY <2>1, <2>2, <1>3, ElementOfSeq
  <1>5. /\ ran' \in Seq(Calls) /\ Len(ran') = n + 1
        /\ \A i \in 1..n : ran'[i] = ran[i]
        /\ ran'[n + 1] = tool_calls[n + 1]
    BY <1>1, <1>3, <1>4, AppendProperties
  <1>6. messages' \in Seq(Messages(Ids)) /\ WellFormed(messages')
    <2>1. id \in Ids
      BY <1>3, <1>4, CliAssumption DEF Ids
    <2> DEFINE f == FollowUp(id, reasoning, outcome)
    <2>2. f \in Seq(Messages(Ids)) /\ WellFormed(f)
      BY <2>1, <1>3, FollowUpIs
    <2> HIDE DEF f
    <2>3. WellFormed(messages)
      BY DEF RequestInv
    <2>4. messages \o f \in Seq(Messages(Ids))
      BY <1>3, <2>2, JoinIs
    <2>5. WellFormed(messages \o f)
      BY <1>3, <2>2, <2>3, WellFormedConcat
    <2> QED BY <2>4, <2>5, <1>2 DEF f
  <1>7. TypeInv'
    BY <1>1, <1>5, <1>6 DEF TypeInv, clientVars, streamVars, arrivedVars, retryVars
  <1>8. BuilderInv' /\ WaitInv' /\ FreshInv' /\ FinishInv'
    BY <1>1 DEF BuilderInv, WaitInv, FreshInv, FinishInv, NothingStreamed,
                clientVars, streamVars, arrivedVars, retryVars
  <1>9. RunInv'
    <2>1. \A i \in 1..(n + 1) : ran'[i] = tool_calls[i]
      <3>1. \A i \in 1..n : ran[i] = tool_calls[i]
        BY DEF RunInv
      <3> HIDE DEF n
      <3>2. \A i \in 1..(n + 1) : i \in 1..n \/ i = n + 1
        BY <1>4
      <3> QED BY <3>1, <3>2, <1>5
    <2>2. n + 1 <= Len(tool_calls)
      BY <1>1, <1>4
    <2>3. call = "closed" /\ rx = <<>>
      BY <1>1 DEF RunInv
    <2> HIDE DEF n
    <2> QED BY <2>1, <2>2, <2>3, <1>1, <1>5 DEF RunInv, clientVars, streamVars, arrivedVars
  <1>10. BrokenInv' /\ RequestInv'
    BY <1>1, <1>6 DEF BrokenInv, RequestInv, clientVars, streamVars, arrivedVars
  <1> QED BY <1>7, <1>8, <1>9, <1>10

LEMMA AgainBase ==
    ASSUME Base, AskAgain
    PROVE  Base'
  <1> USE DEF Base
  <1>1. /\ place = "running" /\ phase <= MaxPhases
        /\ place' = "reading" /\ phase' = phase + 1 /\ call' = "asked"
        /\ answer' = NoAnswer /\ received' = 0 /\ pieces' = 0 /\ reasoned' = FALSE /\ builders' = <<>>
        /\ dsml_acc' = EmptyAccumulator /\ finished' = FALSE
        /\ dropped' = <<>> /\ rx' = <<>>
        /\ shown' = <<>> /\ tool_calls' = <<>> /\ reasoning' = FALSE /\ ran' = <<>>
        /\ bare' = IF reasoned THEN bare ELSE bare \cup {phase}
        /\ UNCHANGED <<retryVars, messages, status>>
    BY DEF AskAgain
  <1>2. /\ <<>> \in Seq(1..Pieces) /\ <<>> \in Text /\ <<>> \in Seq(WholeChunks)
        /\ <<>> \in Seq(Calls) /\ Len(<<>>) = 0
    BY DEF Text
  <1>3. NoAnswer.text = <<>> /\ NoAnswer.natives = <<>>
    BY DEF NoAnswer
  <1>4. phase' \in 1..(MaxPhases + 1)
    <2>1. phase \in 1..(MaxPhases + 1)
      BY DEF TypeInv
    <2> QED BY <1>1, <2>1, CliAssumption
  <1>5. received' \in 0..Len(answer'.text) /\ Len(builders') <= Len(answer'.natives)
        /\ pieces' \in 0..(Pieces * Len(answer'.natives))
    BY <1>1, <1>2, <1>3 DEF Pieces
  <1>9. bare' \subseteq 1..MaxPhases
    <2>1. bare \subseteq 1..MaxPhases /\ phase \in 1..(MaxPhases + 1)
      BY DEF TypeInv
    <2>2. phase \in 1..MaxPhases
      BY <1>1, <2>1, CliAssumption
    <2> QED BY <1>1, <2>1, <2>2
  <1>6. TypeInv'
    BY <1>1, <1>2, <1>4, <1>5, <1>9, EmptyIs DEF TypeInv, retryVars
  <1>10. BuilderInv'
    BY <1>1, <1>2 DEF BuilderInv, Pieces
  <1>7. WaitInv' /\ FreshInv' /\ FinishInv'
    BY <1>1, <1>2 DEF WaitInv, FreshInv, FinishInv, NothingStreamed
  <1>8. RunInv' /\ BrokenInv' /\ RequestInv'
    BY <1>1, <1>2 DEF RunInv, BrokenInv, RequestInv
  <1> QED BY <1>6, <1>7, <1>8, <1>10

LEMMA BaseStutter ==
    ASSUME Base, UNCHANGED vars
    PROVE  Base'
  <1>1. UNCHANGED <<call, delay, attempt, answer, received, pieces, reasoned, builders, dsml_acc, finished,
                    dropped, rx, place, phase, shown, tool_calls, reasoning, ran, messages,
                    status, bare>>
    BY DEF vars, clientVars, streamVars, arrivedVars, retryVars, cliVars
  <1> QED BY <1>1 DEF Base, TypeInv, BuilderInv, WaitInv, FreshInv, FinishInv,
                      NothingStreamed, RunInv, BrokenInv, RequestInv

(* Every step keeps Base. *)
LEMMA BaseNext == Base /\ [Next]_vars => Base'
  <1> SUFFICES ASSUME Base, [Next]_vars PROVE Base'
    OBVIOUS
  <1>1. CASE ChatNext /\ UNCHANGED cliVars
    BY <1>1, ChatBase
  <1>2. CASE StreamAccepted(AnswersNow) /\ UNCHANGED cliVars
    BY <1>2, AcceptedBase
  <1>3. CASE StreamRefused /\ UNCHANGED cliVars
    BY <1>3, ChatBase
  <1>4. CASE StreamNext /\ UNCHANGED cliVars
    BY <1>4, ReasoningBase, NativeBase, FrameBase, EndsBase, BreaksBase DEF StreamNext
  <1>5. CASE Agent
    BY <1>5, AskFailsBase, ChunkBase, AnswerBase, RunBase, AgainBase DEF Agent
  <1>6. CASE UNCHANGED vars
    BY <1>6, BaseStutter
  <1> QED BY <1>1, <1>2, <1>3, <1>4, <1>5, <1>6 DEF Next, Client
-----------------------------------------------------------------------------
(* What the agent has, or will read, of an answer, as the accumulator's    *)
(* Good has it.                                                            *)
SoFar == [acc |-> dsml_acc, text |-> TextSent, calls |-> CallsSent, dropped |-> dropped]

WholeSent ==
    ~Spaced(Arrived) =>
        /\ CallsSent = CallsOf(Arrived) \o (IF finished THEN NativesArrived ELSE <<>>)
        /\ dropped = <<>> => TextSent = TextOf(Arrived)

(* A call that lacks its arguments is the last, and native. *)
HalfInv ==
    IF finished
    THEN \A i \in 1..Len(CallsSent) : CallsSent[i] = Broken => i = Len(CallsSent) /\ HalfCall
    ELSE CallsSent \in Seq(Commands)

StreamInv ==
    /\ call \in {"streaming", "broken"} /\ ~finished => Good(Arrived, SoFar)
    /\ call = "closed" \/ finished => WholeSent
    /\ HalfInv

(* Types; and what arrives of a text without spaced tags has none. *)
LEMMA SentIs ==
    ASSUME TypeInv
    PROVE  /\ CallsSent \in Seq(Calls) /\ TextSent \in Text /\ Arrived \in Text
           /\ CallsIn(rx) \in Seq(Calls) /\ TextIn(rx) \in Text
           /\ tool_calls \in Seq(Calls) /\ shown \in Text
           /\ ~Spaced(answer.text) => ~Spaced(Arrived)
  <1>1. /\ rx \in Seq(WholeChunks) /\ shown \in Text /\ tool_calls \in Seq(Calls)
        /\ received \in 0..Len(answer.text)
    BY DEF TypeInv
  <1> DEFINE a == CallsIn(rx)
             b == TextIn(rx)
             text == answer.text
             rest == SubSeq(text, received + 1, Len(text))
  <1>2. a \in Seq(Calls) /\ b \in Text
    BY <1>1, ChunksJoin
  <1>3. text \in Text /\ Len(text) \in Nat
    BY AnswerIs, LenProperties DEF TypeInv, Text
  <1> HIDE DEF a, b
  <1>4. tool_calls \o a \in Seq(Calls) /\ shown \o b \in Text
    <2>1. tool_calls \o a \in Seq(Calls)
      BY <1>1, <1>2, JoinIs
    <2>2. shown \o b \in Text
      BY <1>1, <1>2, JoinIs DEF Text
    <2> QED BY <2>1, <2>2
  <1>5. received \in 0..Len(text)
    BY <1>1
  <1>6. Arrived = SubSeq(text, 1, received)
    BY DEF Arrived, UpTo
  <1> HIDE DEF text
  <1>7. Arrived \in Text
    <2>1. received \in Nat /\ received <= Len(text)
      BY <1>3, <1>5
    <2> QED BY <2>1, <1>3, <1>6, UpToIs DEF Text, UpTo
  <1>8. Arrived \o rest = text
    <2>1. SubSeq(text, 1, received) \o SubSeq(text, received + 1, Len(text))
            = SubSeq(text, 1, Len(text))
      <3>1. /\ 1 \in 1..(Len(text) + 1) /\ received \in (1 - 1)..Len(text)
            /\ Len(text) \in received..Len(text)
        BY <1>3, <1>5
      <3> QED BY <3>1, <1>3, ConcatAdjacentSubSeq DEF Text
    <2>2. SubSeq(text, 1, Len(text)) = text
      BY <1>3, SubSeqFull DEF Text
    <2> QED BY <2>1, <2>2, <1>6
  <1>9. rest \in Text
    <2>1. received + 1 \in Nat \ {0} /\ Len(text) \in Nat /\ received + 1 <= Len(text) + 1
          /\ Len(text) <= Len(text)
      BY <1>3, <1>5
    <2> QED BY <2>1, <1>3, PartIs DEF Text
  <1> HIDE DEF rest
  <1>10. ~Spaced(text) => ~Spaced(Arrived)
    BY <1>7, <1>8, <1>9, SpacedJoin
  <1> QED BY <1>1, <1>2, <1>4, <1>7, <1>10 DEF a, b, text, CallsSent, TextSent

(* What is kept back is the end of the text, and has no call.              *)
LEMMA GoodEnd ==
    ASSUME NEW s \in Text, NEW r \in Ingestion, Good(s, r), ~Spaced(s)
    PROVE  /\ CallsOf(s) = r.calls
           /\ r.dropped = <<>> => TextOf(s) = r.text \o r.acc.buf
  <1> DEFINE acc == r.acc
             calls == r.calls
             text == r.text
             buf == acc.buf
  <1>1. acc \in Accumulator /\ buf \in Text /\ calls \in Seq(Commands) /\ text \in Text
    BY DEF Ingestion, Holding, Accumulator, Text
  <1>2. s \o <<>> = s /\ buf \o <<>> = buf /\ calls \o <<>> = calls
    <2> HIDE DEF buf, calls
    <2> QED BY <1>1, ConcatProperties DEF Text
  <1>3. <<>> \in Text
    BY DEF Text
  <1>4. /\ Held(acc) /\ ~Spaced(buf)
        /\ extract_tool_calls[s].calls = calls \o extract_tool_calls[buf].calls
        /\ r.dropped = <<>> =>
             extract_tool_calls[s].cleaned = text \o extract_tool_calls[buf].cleaned
    <2>1. ~Spaced(s \o <<>>)
      BY <1>2
    <2>2. /\ Held(r.acc) /\ ~Spaced(r.acc.buf \o <<>>)
          /\ extract_tool_calls[s \o <<>>].calls
               = r.calls \o extract_tool_calls[r.acc.buf \o <<>>].calls
          /\ r.dropped = <<>> =>
               extract_tool_calls[s \o <<>>].cleaned
                 = r.text \o extract_tool_calls[r.acc.buf \o <<>>].cleaned
      BY <2>1, <1>3, Zenon DEF Good
    <2> QED BY <2>2, <1>2
  <1>5. extract_tool_calls[buf] = [cleaned |-> buf, calls |-> <<>>]
    BY <1>1, <1>4, HeldIs
  <1>6. extract_tool_calls[buf].cleaned = buf /\ extract_tool_calls[buf].calls = <<>>
    BY <1>5
  <1> QED BY <1>2, <1>4, <1>6 DEF CallsOf, TextOf

(* Nothing has arrived of the answer that begins. *)
LEMMA AcceptedStream ==
    ASSUME Base, StreamAccepted(AnswersNow), UNCHANGED cliVars
    PROVE  StreamInv'
  <1>1. /\ call = "asked" /\ call' = "streaming"
        /\ UNCHANGED <<received, dsml_acc, finished, dropped, rx, shown, tool_calls>>
    BY DEF StreamAccepted, cliVars
  <1>2. /\ received' = 0 /\ dsml_acc' = EmptyAccumulator /\ finished' = FALSE
        /\ dropped' = <<>> /\ rx' = <<>> /\ shown' = <<>> /\ tool_calls' = <<>>
    BY <1>1 DEF Base, FreshInv, Streamed, NothingStreamed
  <1>3. Arrived' = <<>>
    <2>1. answer'.text \in Text
      <3>1. Base'
        BY AcceptedBase
      <3>2. answer' \in [text : Texts, natives : Natives] \cup {NoAnswer}
        BY <3>1 DEF Base, TypeInv
      <3>3. CASE answer' \in [text : Texts, natives : Natives]
        BY <3>3, ClientAssumption DEF Text
      <3>4. CASE answer' = NoAnswer
        <4>1. answer'.text = <<>> /\ <<>> \in Text
          BY <3>4 DEF NoAnswer, Text
        <4> QED BY <4>1
      <3> QED BY <3>2, <3>3, <3>4
    <2> DEFINE text == answer'.text
    <2>2. Len(text) \in Nat
      BY <2>1, LenProperties DEF Text
    <2> HIDE DEF text
    <2>3. UpTo(text, 0) \in Seq(Symbols) /\ Len(UpTo(text, 0)) = 0
      BY <2>1, <2>2, UpToIs DEF Text, text
    <2>4. UpTo(text, 0) = <<>>
      BY <2>3, EmptySeq
    <2> QED BY <2>4, <1>2 DEF Arrived, text
  <1>4. CallsSent' = <<>> /\ TextSent' = <<>>
    <2>1. <<>> \o <<>> = <<>>
      BY ConcatProperties
    <2>2. CallsIn(rx') = <<>> /\ TextIn(rx') = <<>>
      BY <1>2, NoChunk
    <2> QED BY <2>1, <2>2, <1>2 DEF CallsSent, TextSent
  <1> DEFINE r == [acc |-> EmptyAccumulator, text |-> <<>>, calls |-> <<>>, dropped |-> <<>>]
  <1>5. SoFar' = r
    BY <1>2, <1>4 DEF SoFar
  <1>6. Good(<<>>, r)
    <2>1. r.acc = EmptyAccumulator /\ r.acc.buf = <<>> /\ r.calls = <<>> /\ r.text = <<>>
      BY DEF EmptyAccumulator
    <2> HIDE DEF r
    <2>2. ASSUME NEW e \in Text, ~Spaced(<<>> \o e)
          PROVE  /\ Held(r.acc) /\ ~Spaced(r.acc.buf \o e)
                 /\ extract_tool_calls[<<>> \o e].calls
                      = r.calls \o extract_tool_calls[r.acc.buf \o e].calls
                 /\ extract_tool_calls[<<>> \o e].cleaned
                      = r.text \o extract_tool_calls[r.acc.buf \o e].cleaned
      <3>1. <<>> \o e = e
        BY ConcatProperties DEF Text
      <3> DEFINE c == extract_tool_calls[e].calls
                 t == extract_tool_calls[e].cleaned
      <3>2. c \in Seq(Commands) /\ t \in Seq(Symbols)
        BY ExtractIs DEF Extraction, Text
      <3> HIDE DEF c, t
      <3>3. <<>> \o c = c /\ <<>> \o t = t
        BY <3>2, ConcatProperties
      <3> QED BY <3>1, <3>3, <2>1, <2>2, EmptyIs DEF c, t
    <2> QED BY <2>2 DEF Good
  <1> QED BY <1>1, <1>2, <1>3, <1>4, <1>5, <1>6 DEF StreamInv, HalfInv
-----------------------------------------------------------------------------
(* The calls of the text are whole, and the native ones come after them. *)
LEMMA HalfLast ==
    ASSUME TypeInv, NEW cs \in Seq(Commands)
    PROVE  \A i \in 1..Len(cs \o NativesArrived) :
              (cs \o NativesArrived)[i] = Broken => i = Len(cs \o NativesArrived) /\ HalfCall
  <1> DEFINE b == NativesArrived
             c == cs \o b
             n == Len(cs)
             m == Len(b)
  <1>1. b \in Seq(Calls) /\ \A i \in 1..m : b[i] = Broken => i = m /\ HalfCall
    BY NativesIs
  <1>2. cs \in Seq(Calls) /\ \A i \in 1..n : cs[i] # Broken
    BY CommandsAreCalls, ElementOfSeq, ClientAssumption
  <1> HIDE DEF b
  <1>3. n \in Nat /\ m \in Nat
    BY <1>1, <1>2, LenProperties
  <1>4. Len(c) = n + m /\ (\A i \in 1..n : c[i] = cs[i]) /\ (\A i \in 1..m : c[n + i] = b[i])
    BY <1>1, <1>2, JoinIs
  <1> HIDE DEF c, n, m
  <1>5. ASSUME NEW i \in 1..(n + m), c[i] = Broken PROVE i = n + m /\ HalfCall
    <2>1. ~(i <= n)
      BY <1>2, <1>3, <1>4, <1>5
    <2>2. i - n \in 1..m /\ n + (i - n) = i
      BY <1>3, <2>1
    <2>3. b[i - n] = Broken
      BY <1>4, <1>5, <2>2
    <2> QED BY <1>1, <1>3, <2>2, <2>3
  <1> QED BY <1>4, <1>5 DEF c, b

(* A frame adds to what is sent what it adds to the answer. *)
LEMMA FrameStream ==
    ASSUME Base, StreamInv, Frame, UNCHANGED cliVars
    PROVE  StreamInv'
  <1>1. call = "streaming" /\ ~finished /\ Good(Arrived, SoFar) /\ CallsSent \in Seq(Commands)
    BY DEF Frame, StreamInv, HalfInv
  <1>2. answer.text \in Text /\ Len(answer.text) \in Nat /\ received \in 0..Len(answer.text)
        /\ NativesArrived \in Seq(Calls)
    BY AnswerIs, NativesIs, LenProperties DEF Base, TypeInv, Text
  <1>3. PICK n \in 0..(Len(answer.text) - received), finish \in BOOLEAN : TextFrame(n, finish)
    BY FrameChoice
  <1> DEFINE d == SubSeq(answer.text, received + 1, received + n)
             in == ingest(dsml_acc, d)
             natives == NativesArrived
  <1>4. /\ in \in Ingestion /\ d \in Text
        /\ Arrived \in Text /\ Arrived' = Arrived \o d
        /\ rx' \in Seq(WholeChunks)
        /\ CallsIn(rx') = (CallsIn(rx) \o in.calls) \o (IF finish THEN natives ELSE <<>>)
        /\ TextIn(rx') = (TextIn(rx) \o in.text) \o (IF finish THEN in.acc.buf ELSE <<>>)
        /\ dropped' = dropped \o in.dropped
        /\ dsml_acc' = IF finish THEN EmptyAccumulator ELSE in.acc
        /\ finished' = finish /\ UNCHANGED <<call, retryVars, answer, pieces, reasoned>>
    BY <1>1, <1>3, FrameIs DEF Base
  <1>5. /\ CallsSent \in Seq(Calls) /\ TextSent \in Text
        /\ CallsIn(rx) \in Seq(Calls) /\ TextIn(rx) \in Text
        /\ tool_calls \in Seq(Calls) /\ shown \in Text
        /\ shown' = shown /\ tool_calls' = tool_calls
    BY SentIs DEF Base, cliVars
  <1>6. dsml_acc \in Holding /\ dropped \in Text
    BY DEF Base, TypeInv
  <1>7. SoFar \in Ingestion /\ SoFar.acc = dsml_acc /\ SoFar.text = TextSent
        /\ SoFar.calls = CallsSent /\ SoFar.dropped = dropped
    BY <1>1, <1>5, <1>6 DEF SoFar, Ingestion
  <1> DEFINE R == [acc |-> in.acc, text |-> TextSent \o in.text,
                   calls |-> CallsSent \o in.calls, dropped |-> dropped \o in.dropped]
  <1>8. Good(Arrived \o d, R)
    <2> DEFINE i == ingest(SoFar.acc, d)
    <2>1. Good(Arrived \o d, [acc |-> i.acc, text |-> SoFar.text \o i.text,
                              calls |-> SoFar.calls \o i.calls,
                              dropped |-> SoFar.dropped \o i.dropped])
      <3> HIDE DEF d
      <3> QED BY <1>1, <1>4, <1>7, NextDelta
    <2>2. i = in
      BY <1>7
    <2> HIDE DEF i, in, d
    <2> QED BY <2>1, <2>2, <1>7
  <1> HIDE DEF d, in, natives
  <1> DEFINE ia == in.acc
             ib == in.acc.buf
             ic == in.calls
             it == in.text
             id == in.dropped
             nc == IF finish THEN natives ELSE <<>>
             nt == IF finish THEN ib ELSE <<>>
  <1>9. /\ ia \in Holding /\ ib \in Text /\ ic \in Seq(Commands) /\ it \in Text /\ id \in Text
    BY <1>4 DEF Ingestion, Holding, Accumulator, Text
  <1>20. ic \in Seq(Calls)
    BY <1>9, CommandsAreCalls
  <1>10. nc \in Seq(Calls) /\ nt \in Text
    <2>1. <<>> \in Seq(Calls) /\ <<>> \in Text
      BY DEF Text
    <2> QED BY <2>1, <1>2, <1>9 DEF natives
  <1> HIDE DEF ia, ib, ic, it, id, nc, nt
  <1>11. CallsSent' = (CallsSent \o ic) \o nc
    <2> DEFINE a == CallsIn(rx)
    <2>1. CallsSent' = tool_calls \o ((a \o ic) \o nc) /\ CallsSent = tool_calls \o a
      BY <1>4, <1>5 DEF CallsSent, ic, nc
    <2>2. a \in Seq(Calls)
      BY <1>5
    <2> HIDE DEF a
    <2>3. a \o ic \in Seq(Calls)
      BY <1>20, <2>2, JoinIs
    <2>4. /\ tool_calls \in Seq(Calls) /\ a \in Seq(Calls) /\ ic \in Seq(Calls)
          /\ nc \in Seq(Calls) /\ a \o ic \in Seq(Calls)
      BY <1>5, <1>20, <1>10, <2>2, <2>3
    <2>5. (tool_calls \o (a \o ic)) \o nc = tool_calls \o ((a \o ic) \o nc)
      <3> DEFINE b == a \o ic
      <3>1. b \in Seq(Calls)
        BY <2>4
      <3> HIDE DEF b
      <3>2. (tool_calls \o b) \o nc = tool_calls \o (b \o nc)
        BY <3>1, <2>4, Associative
      <3> QED BY <3>2 DEF b
    <2>6. (tool_calls \o a) \o ic = tool_calls \o (a \o ic)
      BY <2>4, Associative
    <2> QED BY <2>1, <2>5, <2>6
  <1>12. TextSent' = (TextSent \o it) \o nt
    <2> DEFINE a == TextIn(rx)
    <2>1. TextSent' = shown \o ((a \o it) \o nt) /\ TextSent = shown \o a
      BY <1>4, <1>5 DEF TextSent, it, nt, ib
    <2>2. a \in Text
      BY <1>5
    <2> HIDE DEF a
    <2>3. a \o it \in Text
      BY <1>9, <2>2, JoinIs DEF Text
    <2>4. /\ shown \in Seq(Symbols) /\ a \in Seq(Symbols) /\ it \in Seq(Symbols)
          /\ nt \in Seq(Symbols) /\ a \o it \in Seq(Symbols)
      BY <1>5, <1>9, <1>10, <2>2, <2>3 DEF Text
    <2>5. (shown \o (a \o it)) \o nt = shown \o ((a \o it) \o nt)
      <3> DEFINE b == a \o it
      <3>1. b \in Seq(Symbols)
        BY <2>4
      <3> HIDE DEF b
      <3>2. (shown \o b) \o nt = shown \o (b \o nt)
        BY <3>1, <2>4, Associative
      <3> QED BY <3>2 DEF b
    <2>6. (shown \o a) \o it = shown \o (a \o it)
      BY <2>4, Associative
    <2> QED BY <2>1, <2>5, <2>6
  <1>13. /\ CallsSent \o ic \in Seq(Commands) /\ TextSent \o it \in Text /\ dropped \o id \in Text
    <2>1. CallsSent \o ic \in Seq(Commands)
      BY <1>1, <1>9, JoinIs
    <2>2. TextSent \o it \in Text
      BY <1>5, <1>9, JoinIs DEF Text
    <2>3. dropped \o id \in Text
      BY <1>6, <1>9, JoinIs DEF Text
    <2> QED BY <2>1, <2>2, <2>3
  <1> DEFINE cs == CallsSent \o ic
             ts == TextSent \o it
             dr == dropped \o id
  <1>14. R = [acc |-> ia, text |-> ts, calls |-> cs, dropped |-> dr]
    BY DEF ia, ic, it, id
  <1>15. cs \in Seq(Commands) /\ ts \in Text /\ dr \in Text
         /\ CallsSent' = cs \o nc /\ TextSent' = ts \o nt /\ dropped' = dr
    BY <1>4, <1>11, <1>12, <1>13 DEF id
  <1> HIDE DEF R, cs, ts, dr
  <1>16. R \in Ingestion /\ R.acc = ia /\ R.text = ts /\ R.calls = cs /\ R.dropped = dr
    BY <1>9, <1>14, <1>15 DEF Ingestion
  <1>17. CASE ~finish
    <2>1. nc = <<>> /\ nt = <<>> /\ dsml_acc' = ia
      BY <1>4, <1>17 DEF nc, nt, ia
    <2>2. cs \o <<>> = cs /\ ts \o <<>> = ts
      BY <1>15, ConcatProperties DEF Text
    <2>3. SoFar' = R
      BY <2>1, <2>2, <1>14, <1>15 DEF SoFar
    <2>4. HalfInv'
      BY <2>1, <2>2, <1>4, <1>15, <1>17 DEF HalfInv
    <2> QED BY <2>3, <2>4, <1>1, <1>4, <1>8, <1>17 DEF StreamInv
  <1>18. CASE finish
    <2>1. nc = natives /\ nt = ib /\ ib = R.acc.buf
      BY <1>16, <1>18 DEF nc, nt, ib, ia
    <2>2. Arrived \o d \in Text
      BY <1>4, JoinIs DEF Text
    <2> DEFINE s == Arrived \o d
    <2>3. ~Spaced(s) => CallsOf(s) = cs /\ (dr = <<>> => TextOf(s) = ts \o ib)
      <3> HIDE DEF s
      <3> SUFFICES ASSUME ~Spaced(s)
                   PROVE  CallsOf(s) = cs /\ (dr = <<>> => TextOf(s) = ts \o ib)
        OBVIOUS
      <3>1. s \in Text /\ Good(s, R)
        BY <2>2, <1>8 DEF s
      <3>2. CallsOf(s) = R.calls /\ (R.dropped = <<>> => TextOf(s) = R.text \o R.acc.buf)
        BY <3>1, <1>16, GoodEnd
      <3> QED BY <3>2, <2>1, <1>16
    <2>4. NativesArrived' = natives
      BY <1>4 DEF NativesArrived, natives
    <2>5. WholeSent'
      BY <2>1, <2>3, <2>4, <1>4, <1>15, <1>18 DEF WholeSent
    <2>6. HalfInv'
      <3>1. \A i \in 1..Len(cs \o natives) :
               (cs \o natives)[i] = Broken => i = Len(cs \o natives) /\ HalfCall
        BY <1>15, HalfLast DEF Base, natives
      <3>2. HalfCall' <=> HalfCall
        BY <1>4 DEF HalfCall
      <3>3. CallsSent' = cs \o natives
        BY <1>15, <2>1
      <3> QED BY <3>1, <3>2, <3>3, <1>4, <1>18 DEF HalfInv
    <2> QED BY <2>5, <2>6, <1>1, <1>4, <1>18 DEF StreamInv
  <1> QED BY <1>17, <1>18
-----------------------------------------------------------------------------
(* The end of the stream sends what is held back. *)
LEMMA EndsStream ==
    ASSUME Base, StreamInv, StreamEnds, UNCHANGED cliVars
    PROVE  StreamInv'
  <1> DEFINE buf == dsml_acc.buf
             c == Content(buf)
             calls == CallsIn(rx)
             text == TextIn(rx)
  <1>1. /\ call = "streaming" /\ call' = "closed"
        /\ rx' = rx \o c /\ shown' = shown /\ tool_calls' = tool_calls
        /\ UNCHANGED <<answer, received, pieces, finished, dropped>>
    BY DEF StreamEnds, flush, arrivedVars, cliVars
  <1>2. /\ CallsSent \in Seq(Calls) /\ TextSent \in Text /\ Arrived \in Text
        /\ calls \in Seq(Calls) /\ text \in Text
        /\ tool_calls \in Seq(Calls) /\ shown \in Text
    BY SentIs DEF Base
  <1>3. dsml_acc \in Holding /\ dropped \in Text /\ rx \in Seq(WholeChunks) /\ buf \in Text
    BY DEF Base, TypeInv, Holding, Accumulator, Text
  <1>4. c \in Seq(WholeChunks) /\ CallsIn(c) = <<>> /\ TextIn(c) = buf
    BY <1>3, ContentIs
  <1>5. Arrived' = Arrived /\ NativesArrived' = NativesArrived /\ (HalfCall' <=> HalfCall)
    BY <1>1 DEF Arrived, NativesArrived, HalfCall
  <1> HIDE DEF c, buf
  <1>6. CallsIn(rx \o c) = calls \o <<>> /\ TextIn(rx \o c) = text \o buf
    BY <1>3, <1>4, ChunksJoin
  <1> HIDE DEF calls, text
  <1>7. CallsSent' = CallsSent
    <2>1. calls \o <<>> = calls
      BY <1>2, ConcatProperties
    <2> QED BY <2>1, <1>1, <1>6 DEF CallsSent, calls
  <1>8. TextSent' = TextSent \o buf
    <2>1. shown \in Seq(Symbols) /\ text \in Seq(Symbols) /\ buf \in Seq(Symbols)
      BY <1>2, <1>3 DEF Text
    <2>2. (shown \o text) \o buf = shown \o (text \o buf)
      BY <2>1, Associative
    <2> QED BY <2>2, <1>1, <1>6 DEF TextSent, text
  <1>20. HalfInv'
    BY <1>1, <1>5, <1>7 DEF StreamInv, HalfInv
  <1>9. CASE ~finished
    <2>1. Good(Arrived, SoFar)
      BY <1>1, <1>9 DEF StreamInv
    <2>6. CallsSent \in Seq(Commands)
      BY <1>9 DEF StreamInv, HalfInv
    <2>2. SoFar \in Ingestion /\ SoFar.acc = dsml_acc /\ SoFar.text = TextSent
          /\ SoFar.calls = CallsSent /\ SoFar.dropped = dropped
      BY <2>6, <1>2, <1>3 DEF SoFar, Ingestion
    <2>3. ~Spaced(Arrived) =>
             /\ CallsOf(Arrived) = CallsSent
             /\ dropped = <<>> => TextOf(Arrived) = TextSent \o buf
      <3> SUFFICES ASSUME ~Spaced(Arrived)
                   PROVE  /\ CallsOf(Arrived) = CallsSent
                          /\ dropped = <<>> => TextOf(Arrived) = TextSent \o buf
        OBVIOUS
      <3>1. /\ CallsOf(Arrived) = SoFar.calls
            /\ SoFar.dropped = <<>> => TextOf(Arrived) = SoFar.text \o SoFar.acc.buf
        BY <1>2, <2>1, <2>2, GoodEnd
      <3> QED BY <3>1, <2>2 DEF buf
    <2>4. CallsSent \o <<>> = CallsSent
      BY <1>2, ConcatProperties
    <2>5. WholeSent'
      BY <2>3, <2>4, <1>1, <1>5, <1>7, <1>8, <1>9 DEF WholeSent
    <2> QED BY <2>5, <1>1, <1>20 DEF StreamInv
  <1>10. CASE finished
    <2>1. WholeSent
      BY <1>10 DEF StreamInv
    <2>2. buf = <<>>
      BY <1>10 DEF Base, FinishInv, EmptyAccumulator, buf
    <2>3. TextSent \o <<>> = TextSent
      BY <1>2, ConcatProperties DEF Text
    <2>4. WholeSent'
      BY <2>1, <2>2, <2>3, <1>1, <1>5, <1>7, <1>8 DEF WholeSent
    <2> QED BY <2>4, <1>1, <1>20 DEF StreamInv
  <1>11. finished \in BOOLEAN
    BY DEF Base, TypeInv
  <1> QED BY <1>9, <1>10, <1>11

(* A step that leaves what is sent alone. *)
LEMMA SameStream ==
    ASSUME StreamInv, CallsSent' = CallsSent, TextSent' = TextSent,
           UNCHANGED <<answer, received, dsml_acc, finished, dropped>>,
           pieces' = pieces \/ ~finished,
           call' = call \/ (call = "streaming" /\ call' = "broken")
             \/ (call \notin Streamed /\ call' \notin Streamed)
    PROVE  StreamInv'
  <1>1. Arrived' = Arrived /\ SoFar' = SoFar
    BY DEF Arrived, SoFar
  <1>2. finished => NativesArrived' = NativesArrived /\ (HalfCall' <=> HalfCall)
    BY DEF NativesArrived, HalfCall
  <1>3. WholeSent <=> WholeSent'
    BY <1>1, <1>2 DEF WholeSent
  <1>4. HalfInv'
    BY <1>2 DEF StreamInv, HalfInv
  <1> QED BY <1>1, <1>3, <1>4 DEF StreamInv, Streamed

(* The reasoning, and the error of a broken stream, have no call and no text. *)
LEMMA BareChunk ==
    ASSUME Base, NEW chunk \in {Reasoning, StreamError},
           rx' = Append(rx, chunk), shown' = shown, tool_calls' = tool_calls
    PROVE  CallsSent' = CallsSent /\ TextSent' = TextSent
  <1> DEFINE e == <<chunk>>
             calls == CallsIn(rx)
             text == TextIn(rx)
  <1>1. rx \in Seq(WholeChunks) /\ calls \in Seq(Calls) /\ text \in Text
    BY SentIs DEF Base, TypeInv
  <1>2. chunk \in WholeChunks /\ chunk.kind \in {"Reasoning", "Err"}
    BY DEF WholeChunks, StreamError, Reasoning
  <1>3. Append(rx, chunk) = rx \o e
    BY <1>1, <1>2, AppendIsConcat
  <1>4. e \in Seq(WholeChunks) /\ CallsIn(e) = <<>> /\ TextIn(e) = <<>>
    <2>1. CallIn(chunk) = <<>> /\ TextOfChunk(chunk) = <<>>
      BY <1>2 DEF CallIn, TextOfChunk
    <2> QED BY <2>1, <1>2, OneChunk
  <1> HIDE DEF e
  <1>5. CallsIn(rx \o e) = calls \o <<>> /\ TextIn(rx \o e) = text \o <<>>
    <2>1. rx \in Seq(WholeChunks) /\ e \in Seq(WholeChunks)
      BY <1>1, <1>4
    <2>2. CallsIn(rx \o e) = CallsIn(rx) \o CallsIn(e) /\ TextIn(rx \o e) = TextIn(rx) \o TextIn(e)
      BY <2>1, ChunksJoin
    <2> QED BY <2>2, <1>4
  <1> HIDE DEF calls, text
  <1>6. calls \o <<>> = calls /\ text \o <<>> = text
    BY <1>1, ConcatProperties DEF Text
  <1> QED BY <1>3, <1>5, <1>6 DEF CallsSent, TextSent, calls, text

LEMMA BareStream ==
    ASSUME Base, StreamInv, ReasoningFrame \/ StreamBreaks, UNCHANGED cliVars
    PROVE  StreamInv'
  <1>1. /\ call = "streaming" /\ call' \in {call, "broken"}
        /\ shown' = shown /\ tool_calls' = tool_calls
        /\ UNCHANGED <<answer, received, pieces, dsml_acc, finished, dropped>>
    BY DEF StreamBreaks, ReasoningFrame, arrivedVars, cliVars
  <1>2. \E chunk \in {Reasoning, StreamError} : rx' = Append(rx, chunk)
    BY DEF StreamBreaks, ReasoningFrame
  <1>3. CallsSent' = CallsSent /\ TextSent' = TextSent
    BY <1>1, <1>2, BareChunk
  <1> QED BY <1>1, <1>3, SameStream

(* A chunk goes from the channel to the agent. *)
LEMMA ChunkStream ==
    ASSUME Base, StreamInv, TakeChunk
    PROVE  StreamInv'
  <1> DEFINE chunk == Head(rx)
             c == CallIn(chunk)
             t == TextOfChunk(chunk)
             rest == rx'
             calls == CallsIn(rest)
             text == TextIn(rest)
  <1>1. /\ chunk \in WholeChunks /\ rest \in Seq(WholeChunks)
        /\ rx = <<chunk>> \o rest
        /\ shown' = shown \o t /\ tool_calls' = tool_calls \o c
        /\ UNCHANGED <<call, answer, received, pieces, reasoned, dsml_acc, finished, dropped>>
    BY ChunkTaken
  <1>2. tool_calls \in Seq(Calls) /\ shown \in Text
    BY DEF Base, TypeInv
  <1>3. c \in Seq(Calls) /\ t \in Text /\ <<chunk>> \in Seq(WholeChunks)
        /\ CallsIn(<<chunk>>) = c /\ TextIn(<<chunk>>) = t
    BY <1>1, ChunkIs, OneChunk
  <1> DEFINE one == <<chunk>>
  <1> HIDE DEF chunk, c, t, rest, one
  <1>4. CallsIn(one \o rest) = c \o calls /\ TextIn(one \o rest) = t \o text
    <2>1. one \in Seq(WholeChunks) /\ rest \in Seq(WholeChunks)
          /\ CallsIn(one) = c /\ TextIn(one) = t
      BY <1>1, <1>3 DEF one
    <2> QED BY <2>1, ChunksJoin
  <1>5. calls \in Seq(Calls) /\ text \in Text
    BY <1>1, ChunksJoin
  <1> HIDE DEF calls, text
  <1>6. (tool_calls \o c) \o calls = tool_calls \o (c \o calls)
    <2>1. tool_calls \in Seq(Calls) /\ c \in Seq(Calls) /\ calls \in Seq(Calls)
      BY <1>2, <1>3, <1>5
    <2> QED BY <2>1, Associative
  <1>7. (shown \o t) \o text = shown \o (t \o text)
    <2>1. shown \in Seq(Symbols) /\ t \in Seq(Symbols) /\ text \in Seq(Symbols)
      BY <1>2, <1>3, <1>5 DEF Text
    <2> QED BY <2>1, Associative
  <1>8. CallsSent' = CallsSent
    BY <1>1, <1>4, <1>6 DEF CallsSent, calls, rest, one
  <1>9. TextSent' = TextSent
    BY <1>1, <1>4, <1>7 DEF TextSent, text, rest, one
  <1> QED BY <1>1, <1>8, <1>9, SameStream

(* Every step keeps StreamInv. *)
LEMMA StreamNextInv == Base /\ StreamInv /\ [Next]_vars => StreamInv'
  <1> SUFFICES ASSUME Base, StreamInv, [Next]_vars PROVE StreamInv'
    OBVIOUS
  <1>1. CASE (ChatNext \/ StreamRefused) /\ UNCHANGED cliVars
    <2>1. call \notin Streamed /\ call' \notin Streamed /\ UNCHANGED streamVars
      BY <1>1 DEF ChatNext, Chat, ChatAnswered, ChatFails, RateLimited, Retry,
                  StreamRefused, Streamed
    <2>2. CallsSent' = CallsSent /\ TextSent' = TextSent
      BY <1>1, <2>1 DEF CallsSent, TextSent, streamVars, arrivedVars, cliVars
    <2> QED BY <2>1, <2>2, SameStream DEF streamVars, arrivedVars
  <1>2. CASE StreamAccepted(AnswersNow) /\ UNCHANGED cliVars
    BY <1>2, AcceptedStream
  <1>3. CASE NativeFrame /\ UNCHANGED cliVars
    <2>1. UNCHANGED <<call, answer, received, dsml_acc, finished, dropped, rx>> /\ ~finished
      BY <1>3 DEF NativeFrame
    <2>2. CallsSent' = CallsSent /\ TextSent' = TextSent
      BY <1>3, <2>1 DEF CallsSent, TextSent, cliVars
    <2> QED BY <2>1, <2>2, SameStream
  <1>4. CASE (ReasoningFrame \/ Frame \/ StreamEnds \/ StreamBreaks) /\ UNCHANGED cliVars
    BY <1>4, FrameStream, EndsStream, BareStream
  <1>5. CASE TakeChunk
    BY <1>5, ChunkStream
  <1>6. CASE AskFails \/ AnswerTaken \/ RunCall
    <2>1. UNCHANGED <<clientVars, shown, tool_calls>>
      BY <1>6 DEF AskFails, AnswerTaken, RunCall
    <2>2. CallsSent' = CallsSent /\ TextSent' = TextSent
      BY <2>1 DEF CallsSent, TextSent, clientVars, streamVars, arrivedVars
    <2> QED BY <2>1, <2>2, SameStream DEF clientVars, streamVars, arrivedVars
  <1>7. CASE AskAgain
    <2>1. call' = "asked" /\ finished' = FALSE /\ rx' = <<>> /\ tool_calls' = <<>>
      BY <1>7 DEF AskAgain
    <2>2. CallsSent' = <<>>
      <3>1. <<>> \o <<>> = <<>>
        BY ConcatProperties
      <3> QED BY <2>1, <3>1, NoChunk DEF CallsSent
    <2> QED BY <2>1, <2>2 DEF StreamInv, HalfInv
  <1>8. CASE UNCHANGED vars
    <2>1. CallsSent' = CallsSent /\ TextSent' = TextSent
      BY <1>8 DEF CallsSent, TextSent, vars, clientVars, streamVars, arrivedVars, cliVars
    <2> QED BY <2>1, <1>8, SameStream DEF vars, clientVars, streamVars, arrivedVars
  <1> QED BY <1>1, <1>2, <1>3, <1>4, <1>5, <1>6, <1>7, <1>8
          DEF Next, Client, Agent, StreamNext
-----------------------------------------------------------------------------
(* No reasoning is lost: it is with the agent or on its way; and only the  *)
(* calls of an answer without it are without it.                           *)
HeardInv == reasoned => reasoning \/ \E i \in 1..Len(rx) : rx[i] = Reasoning

Excused(m) ==
    m.calls # <<>> /\ ~m.reason =>
        \/ m.calls[1][1] \in bare
        \/ m.calls[1][1] = phase /\ place = "running" /\ ~reasoned

KeptInv == HeardInv /\ \A i \in 1..Len(messages) : Excused(messages[i])

(* A step of the stream. *)
LEMMA StreamKept ==
    ASSUME Base, KeptInv, StreamNext, UNCHANGED cliVars
    PROVE  KeptInv'
  <1>1. call = "streaming" /\ place # "running"
    BY DEF Base, RunInv, StreamNext, ReasoningFrame, NativeFrame, Frame, StreamEnds, StreamBreaks
  <1>2. UNCHANGED <<place, phase, reasoning, messages, bare>>
    BY DEF cliVars
  <1>3. \A i \in 1..Len(messages') : Excused(messages[i])'
    BY <1>1, <1>2 DEF KeptInv, Excused
  <1>4. rx \in Seq(WholeChunks) /\ Len(rx) \in Nat
    BY LenProperties DEF Base, TypeInv
  <1>5. CASE ReasoningFrame
    <2>1. rx' = Append(rx, Reasoning) /\ Reasoning \in WholeChunks
      BY <1>5 DEF ReasoningFrame, WholeChunks
    <2>2. Len(rx') = Len(rx) + 1 /\ rx'[Len(rx) + 1] = Reasoning
      BY <2>1, <1>4, AppendProperties
    <2>3. Len(rx) + 1 \in 1..Len(rx')
      BY <2>2, <1>4
    <2> QED BY <2>2, <2>3, <1>2, <1>3 DEF KeptInv, HeardInv
  <1>6. CASE NativeFrame
    BY <1>6, <1>2, <1>3 DEF KeptInv, HeardInv, NativeFrame
  <1>7. CASE Frame \/ StreamEnds \/ StreamBreaks
    <2>1. reasoned' = reasoned /\ Len(rx) <= Len(rx') /\ \A i \in 1..Len(rx) : rx'[i] = rx[i]
      <3>1. CASE Frame
        <4>1. ~finished
          BY <3>1 DEF Frame
        <4>2. PICK n \in 0..(Len(answer.text) - received), finish \in BOOLEAN : TextFrame(n, finish)
          BY <3>1, FrameChoice
        <4> QED BY <4>1, <4>2, FrameIs DEF Base
      <3>2. CASE StreamEnds
        <4> DEFINE c == Content(dsml_acc.buf)
        <4>1. rx' = rx \o c /\ reasoned' = reasoned
          BY <3>2 DEF StreamEnds, flush, arrivedVars
        <4>2. c \in Seq(WholeChunks)
          <5>1. dsml_acc.buf \in Text
            BY DEF Base, TypeInv, Holding, Accumulator, Text
          <5> QED BY <5>1, ContentIs
        <4> HIDE DEF c
        <4> QED BY <4>1, <4>2, <1>4, JoinKeeps
      <3>3. CASE StreamBreaks
        <4>1. rx' = Append(rx, StreamError) /\ reasoned' = reasoned /\ StreamError \in WholeChunks
          BY <3>3 DEF StreamBreaks, arrivedVars, WholeChunks
        <4>2. Len(rx') = Len(rx) + 1 /\ \A i \in 1..Len(rx) : rx'[i] = rx[i]
          BY <4>1, <1>4, AppendProperties
        <4> QED BY <4>1, <4>2, <1>4
      <3> QED BY <1>7, <3>1, <3>2, <3>3
    <2>2. rx' \in Seq(WholeChunks) /\ Len(rx') \in Nat
      <3>1. Base'
        BY <1>7, FrameBase, EndsBase, BreaksBase
      <3> QED BY <3>1, LenProperties DEF Base, TypeInv
    <2>3. 1..Len(rx) \subseteq 1..Len(rx')
      BY <2>1, <2>2, <1>4
    <2> QED BY <2>1, <2>3, <1>2, <1>3 DEF KeptInv, HeardInv
  <1> QED BY <1>5, <1>6, <1>7 DEF StreamNext

(* The agent takes a chunk: it keeps the reasoning. *)
LEMMA ChunkKept ==
    ASSUME Base, KeptInv, TakeChunk
    PROVE  KeptInv'
  <1> DEFINE chunk == Head(rx)
  <1>1. /\ place = "reading" /\ rx \in Seq(WholeChunks) /\ rx # <<>> /\ rx' = Tail(rx)
        /\ reasoning' = (reasoning \/ chunk.kind = "Reasoning")
        /\ UNCHANGED <<reasoned, phase, messages, bare>>
    BY ChunkTaken
  <1>2. place' # "running"
    BY <1>1, ChunkTaken
  <1>3. \A i \in 1..Len(messages') : Excused(messages[i])'
    BY <1>1, <1>2 DEF KeptInv, Excused
  <1>4. HeardInv'
    <2> SUFFICES ASSUME reasoned, ~reasoning, chunk.kind # "Reasoning"
                 PROVE  \E i \in 1..Len(rx') : rx'[i] = Reasoning
      BY <1>1 DEF HeardInv
    <2>1. PICK i \in 1..Len(rx) : rx[i] = Reasoning
      BY DEF KeptInv, HeardInv
    <2>2. Len(rx) \in Nat /\ chunk = rx[1]
      BY <1>1, LenProperties
    <2>3. i # 1
      BY <2>1, <2>2 DEF Reasoning
    <2>4. Len(rx') = Len(rx) - 1 /\ \A k \in 1..(Len(rx) - 1) : rx'[k] = rx[k + 1]
      BY <1>1, HeadTailProperties
    <2>5. i - 1 \in 1..(Len(rx) - 1) /\ (i - 1) + 1 = i
      BY <2>2, <2>3
    <2>6. rx'[i - 1] = Reasoning
      BY <2>1, <2>4, <2>5
    <2> QED BY <2>4, <2>5, <2>6
  <1> QED BY <1>3, <1>4 DEF KeptInv

(* A call runs: its message has the reasoning of the answer. *)
LEMMA RunKept ==
    ASSUME Base, KeptInv, RunCall
    PROVE  KeptInv'
  <1> DEFINE id == <<phase, Len(ran) + 1>>
             n == Len(messages)
  <1>1. /\ place = "running" /\ UNCHANGED <<clientVars, place, phase, reasoning, bare>>
    BY DEF RunCall
  <1>2. PICK outcome \in Outcomes : messages' = messages \o FollowUp(id, reasoning, outcome)
    BY DEF RunCall
  <1>3. UNCHANGED <<rx, reasoned>> /\ rx = <<>>
    BY <1>1 DEF clientVars, streamVars, arrivedVars, Base, RunInv
  <1>4. reasoned => reasoning
    <2>1. Len(rx) = 0
      BY <1>3
    <2> QED BY <2>1 DEF KeptInv, HeardInv
  <1>5. /\ messages \in Seq(Messages(Ids)) /\ n \in Nat /\ id \in Ids /\ reasoning \in BOOLEAN
    <2>1. messages \in Seq(Messages(Ids)) /\ ran \in Seq(Calls) /\ phase \in 1..(MaxPhases + 1)
          /\ reasoning \in BOOLEAN
      BY DEF Base, TypeInv
    <2>2. Len(ran) \in Nat /\ n \in Nat
      BY <2>1, LenProperties
    <2> QED BY <2>1, <2>2, CliAssumption DEF Ids
  <1> DEFINE w == FollowUp(id, reasoning, outcome)
  <1>6. /\ w \in Seq(Messages(Ids)) /\ Len(w) = 2
        /\ w[1].calls = <<id>> /\ w[1].reason = reasoning /\ w[2].calls = <<>>
    BY <1>5, FollowUpIs
  <1>7. messages' = messages \o w
    BY <1>2
  <1>8. <<id>>[1][1] = phase
    OBVIOUS
  <1> HIDE DEF w, n, id
  <1>9. Len(messages') = n + 2 /\ (\A i \in 1..n : messages'[i] = messages[i])
        /\ messages'[n + 1] = w[1] /\ messages'[n + 2] = w[2]
    <2>1. 1 \in 1..2 /\ 2 \in 1..2
      OBVIOUS
    <2>2. /\ Len(messages \o w) = n + Len(w)
          /\ \A i \in 1..n : (messages \o w)[i] = messages[i]
          /\ \A i \in 1..Len(w) : (messages \o w)[n + i] = w[i]
      <3>1. messages \in Seq(Messages(Ids)) /\ w \in Seq(Messages(Ids))
        BY <1>5, <1>6
      <3> QED BY <3>1, JoinIs DEF n
    <2> QED BY <2>1, <2>2, <1>6, <1>7
  <1>10. ASSUME NEW m, Excused(m) PROVE Excused(m)'
    BY <1>1, <1>3, <1>10 DEF Excused
  <1>11. ASSUME NEW i \in 1..(n + 2) PROVE Excused(messages[i])'
    <2>1. CASE i \in 1..n
      <3>1. Excused(messages[i])
        BY <2>1 DEF KeptInv, n
      <3>2. messages'[i] = messages[i]
        BY <2>1, <1>9
      <3> QED BY <3>1, <3>2, <1>1, <1>3 DEF Excused
    <2>2. CASE i = n + 1
      <3>1. messages'[i].calls = <<id>> /\ (~messages'[i].reason => ~reasoned)
        BY <2>2, <1>4, <1>6, <1>9
      <3> QED BY <3>1, <1>1, <1>3, <1>8 DEF Excused
    <2>3. CASE i = n + 2
      <3>1. messages'[i].calls = <<>>
        BY <2>3, <1>6, <1>9
      <3> QED BY <3>1 DEF Excused
    <2> QED BY <2>1, <2>2, <2>3, <1>5
  <1>12. HeardInv'
    BY <1>1, <1>3 DEF KeptInv, HeardInv
  <1> QED BY <1>9, <1>11, <1>12 DEF KeptInv

(* Any other step. *)
LEMMA OtherKept ==
    ASSUME Base, KeptInv,
           \/ (ChatNext \/ StreamRefused \/ StreamAccepted(AnswersNow)) /\ UNCHANGED cliVars
           \/ AskFails \/ AnswerTaken \/ AskAgain \/ UNCHANGED vars
    PROVE  KeptInv'
  <1>1. CASE (ChatNext \/ StreamRefused \/ StreamAccepted(AnswersNow)) /\ UNCHANGED cliVars
    <2>1. UNCHANGED <<rx, reasoned>>
      BY <1>1 DEF ChatNext, Chat, ChatAnswered, ChatFails, RateLimited, Retry, StreamRefused,
                  StreamAccepted, streamVars, arrivedVars
    <2> QED BY <2>1, <1>1 DEF KeptInv, HeardInv, Excused, cliVars
  <1>2. CASE AskFails \/ AnswerTaken
    <2>1. UNCHANGED <<rx, reasoned, reasoning, phase, messages, bare>> /\ place # "running"
      BY <1>2 DEF AskFails, AnswerTaken, clientVars, streamVars, arrivedVars
    <2>2. ASSUME NEW m, Excused(m) PROVE Excused(m)'
      BY <2>1, <2>2 DEF Excused
    <2> QED BY <2>1 DEF KeptInv, HeardInv, Excused
  <1>3. CASE AskAgain
    <2>1. /\ messages' = messages /\ reasoned' = FALSE
          /\ bare' = IF reasoned THEN bare ELSE bare \cup {phase}
      BY <1>3 DEF AskAgain
    <2> QED BY <2>1 DEF KeptInv, HeardInv, Excused
  <1>4. CASE UNCHANGED vars
    BY <1>4 DEF KeptInv, HeardInv, Excused, vars, clientVars, streamVars, arrivedVars, cliVars
  <1> QED BY <1>1, <1>2, <1>3, <1>4

(* Every step keeps KeptInv. *)
LEMMA KeptNext == Base /\ KeptInv /\ [Next]_vars => KeptInv'
  <1> SUFFICES ASSUME Base, KeptInv, [Next]_vars PROVE KeptInv'
    OBVIOUS
  <1>1. \/ (ChatNext \/ StreamRefused \/ StreamAccepted(AnswersNow)) /\ UNCHANGED cliVars
        \/ StreamNext /\ UNCHANGED cliVars
        \/ TakeChunk \/ RunCall \/ AskFails \/ AnswerTaken \/ AskAgain \/ UNCHANGED vars
    BY DEF Next, Client, Agent
  <1> QED BY <1>1, StreamKept, ChunkKept, RunKept, OtherKept
-----------------------------------------------------------------------------
(* In every reachable state Base holds, and StreamInv: what is sent and    *)
(* what is held back make up what has arrived of the answer; and KeptInv:  *)
(* no reasoning is lost on the way.                                        *)
Inductive == Base /\ StreamInv /\ KeptInv

THEOREM InductiveInvariant == Spec => []Inductive
  <1>1. Init => Inductive
    <2> SUFFICES ASSUME Init PROVE StreamInv /\ KeptInv
      BY BaseInit DEF Inductive
    <2>1. call \in {"idle", "asked"} /\ finished = FALSE /\ reasoned = FALSE /\ rx = <<>>
          /\ tool_calls = <<>> /\ messages = <<User>>
      BY DEF Init, NothingStreamed
    <2>2. CallsSent = <<>>
      <3>1. <<>> \o <<>> = <<>>
        BY ConcatProperties
      <3> QED BY <2>1, <3>1, NoChunk DEF CallsSent
    <2>3. StreamInv
      BY <2>1, <2>2 DEF StreamInv, HalfInv
    <2>4. KeptInv
      <3>1. Len(<<User>>) = 1 /\ <<User>>[1] = User /\ User.calls = <<>>
        BY DEF User, Message
      <3> QED BY <2>1, <3>1 DEF KeptInv, HeardInv, Excused
    <2> QED BY <2>3, <2>4
  <1>2. Inductive /\ [Next]_vars => Inductive'
    BY BaseNext, StreamNextInv, KeptNext DEF Inductive
  <1> QED BY <1>1, <1>2, PTL DEF Spec

(* Type correctness. *)
THEOREM TypeCorrect == Spec => []TypeOK
  <1>1. Base => TypeOK
    <2> SUFFICES ASSUME Base PROVE TypeOK
      OBVIOUS
    <2>1. rx \in Seq(Chunks)
      <3>1. WholeChunks \subseteq Chunks
        BY DEF WholeChunks, Chunks, Text
      <3>2. rx \in Seq(WholeChunks)
        BY DEF Base, TypeInv
      <3> HIDE DEF WholeChunks, Chunks
      <3> QED BY <3>1, <3>2, Wider
    <2>3. ClientTypeOK
      BY <2>1 DEF Base, TypeInv, ClientTypeOK, Holding, Text
    <2> QED BY <2>3 DEF TypeOK, Base, TypeInv, Text
  <1>2. Inductive => TypeOK
    BY <1>1 DEF Inductive
  <1> QED BY <1>2, InductiveInvariant, PTL

(* Every request of the agent, whatever its commands do, has one result of *)
(* each call, and its calls carry the reasoning of their answer, if it had *)
(* any.                                                                    *)
THEOREM Accepted == Spec => []RequestsComplete
  <1>1. Inductive => RequestsComplete
    <2> SUFFICES ASSUME Inductive, call = "asked",
                        NEW i \in DOMAIN messages, messages[i].calls # <<>>, ~messages[i].reason
                 PROVE  messages[i].calls[1][1] \in bare
      BY DEF Inductive, Base, RequestInv, RequestsComplete
    <2>1. place # "running"
      BY DEF Inductive, Base, RunInv
    <2>2. i \in 1..Len(messages)
      BY LenProperties DEF Inductive, Base, TypeInv
    <2>3. Excused(messages[i])
      BY <2>2 DEF Inductive, KeptInv
    <2> QED BY <2>1, <2>3 DEF Excused
  <1> QED BY <1>1, InductiveInvariant, PTL

(* Beginnings of sequences. *)
LEMMA PrefixOf ==
    ASSUME NEW S, NEW s \in Seq(S), NEW t \in Seq(S), Len(s) <= Len(t),
           \A i \in 1..Len(s) : s[i] = t[i]
    PROVE  IsPrefix(s, t)
  <1>1. Len(s) \in Nat /\ Len(t) \in Nat
    BY LenProperties
  <1>2. /\ SubSeq(t, 1, Len(s)) \in Seq(S) /\ Len(SubSeq(t, 1, Len(s))) = Len(s)
        /\ \A i \in 1..Len(s) : SubSeq(t, 1, Len(s))[i] = t[i]
    BY <1>1, UpToIs DEF UpTo
  <1>3. SubSeq(s, 1, Len(s)) = s
    BY SubSeqFull
  <1>4. SubSeq(t, 1, Len(s)) = s
    BY <1>2, SeqEqual
  <1> QED BY <1>3, <1>4 DEF IsPrefix

(* What is joined to a sequence leaves it a beginning. *)
LEMMA PrefixOfJoin ==
    ASSUME NEW S, NEW a \in Seq(S), NEW b \in Seq(S)
    PROVE  IsPrefix(a, a \o b)
  <1>1. /\ a \o b \in Seq(S) /\ Len(a \o b) = Len(a) + Len(b)
        /\ \A i \in 1..Len(a) : a[i] = (a \o b)[i]
    BY JoinIs
  <1>2. Len(a) \in Nat /\ Len(b) \in Nat
    BY LenProperties
  <1>3. Len(a) <= Len(a \o b)
    BY <1>1, <1>2
  <1> QED BY <1>1, <1>3, PrefixOf

(* Commands run only when the answer has ended by itself and been read to  *)
(* its end, each once, in its order: an answer that broke ends with an     *)
(* error, which the agent reads last (BrokenInv).  One without arguments   *)
(* is the last, and the finish reason came before they did (HalfInv).      *)
THEOREM WholeAnswersRun == Spec => []RunsWholeAnswers
  <1>1. Inductive => RunsWholeAnswers
    <2> SUFFICES ASSUME Inductive, ran # <<>> PROVE
          /\ EndedWell /\ rx = <<>>
          /\ IsPrefix(ran, tool_calls)
          /\ \A i \in DOMAIN ran : ran[i] = Broken => i = Len(tool_calls) /\ finished /\ HalfCall
      BY DEF RunsWholeAnswers
    <2> USE DEF Inductive
    <2>1. call = "closed" /\ rx = <<>>
      BY DEF Base, RunInv
    <2>2. ran \in Seq(Calls) /\ tool_calls \in Seq(Calls)
      BY DEF Base, TypeInv
    <2>3. Len(ran) <= Len(tool_calls) /\ \A i \in 1..Len(ran) : ran[i] = tool_calls[i]
      BY DEF Base, RunInv
    <2>4. IsPrefix(ran, tool_calls)
      BY <2>2, <2>3, PrefixOf
    <2>5. CallsSent = tool_calls
      <3>1. tool_calls \o <<>> = tool_calls
        BY <2>2, ConcatProperties
      <3> QED BY <2>1, <3>1, NoChunk DEF CallsSent
    <2>6. ASSUME NEW i \in DOMAIN ran, ran[i] = Broken
          PROVE  i = Len(tool_calls) /\ finished /\ HalfCall
      <3>1. i \in 1..Len(ran) /\ Len(ran) \in Nat /\ Len(tool_calls) \in Nat
        BY <2>2, LenProperties
      <3>2. i \in 1..Len(tool_calls) /\ tool_calls[i] = Broken
        BY <2>3, <2>6, <3>1
      <3>3. finished
        <4> SUFFICES ASSUME ~finished PROVE FALSE
          OBVIOUS
        <4>1. tool_calls \in Seq(Commands)
          BY <2>5 DEF StreamInv, HalfInv
        <4>2. tool_calls[i] \in Commands
          BY <4>1, <3>2, ElementOfSeq
        <4> QED BY <4>2, <3>2, ClientAssumption
      <3> QED BY <2>5, <3>2, <3>3 DEF StreamInv, HalfInv
    <2> QED BY <2>1, <2>4, <2>6 DEF EndedWell
  <1> QED BY <1>1, InductiveInvariant, PTL
-----------------------------------------------------------------------------
(* Before an answer there is nothing. *)
LEMMA NothingSent ==
    ASSUME Base, call \notin Streamed
    PROVE  /\ finished = FALSE /\ CallsSent = <<>> /\ TextSent = <<>>
           /\ CallsOf(Arrived) = <<>> /\ TextOf(Arrived) = <<>>
  <1>1. /\ answer = NoAnswer /\ received = 0 /\ finished = FALSE /\ rx = <<>>
        /\ shown = <<>> /\ tool_calls = <<>>
    BY DEF Base, FreshInv, NothingStreamed
  <1>2. <<>> \o <<>> = <<>>
    BY ConcatProperties
  <1>3. CallsSent = <<>> /\ TextSent = <<>>
    <2>1. CallsIn(rx) = <<>> /\ TextIn(rx) = <<>>
      BY <1>1, NoChunk
    <2> QED BY <2>1, <1>1, <1>2 DEF CallsSent, TextSent
  <1>4. Arrived = <<>>
    <2>1. <<>> \in Seq(Symbols) /\ 0 \in Nat /\ 0 <= Len(<<>>)
      OBVIOUS
    <2>2. UpTo(<<>>, 0) \in Seq(Symbols) /\ Len(UpTo(<<>>, 0)) = 0
      BY <2>1, UpToIs
    <2>3. UpTo(<<>>, 0) = <<>>
      BY <2>2, EmptySeq
    <2>4. answer.text = <<>>
      BY <1>1 DEF NoAnswer
    <2> QED BY <2>3, <2>4, <1>1 DEF Arrived
  <1>5. extract_tool_calls[<<>>] = [cleaned |-> <<>>, calls |-> <<>>]
    <2> DEFINE acc == EmptyAccumulator
    <2>1. acc \in Accumulator /\ Held(acc)
      BY EmptyIs DEF Holding
    <2>2. acc.buf = <<>>
      BY DEF EmptyAccumulator
    <2>3. ~Spaced(<<>>)
      BY DEF Spaced
    <2> HIDE DEF acc
    <2> QED BY <2>1, <2>2, <2>3, HeldIs
  <1>6. CallsOf(<<>>) = <<>> /\ TextOf(<<>>) = <<>>
    BY <1>5 DEF CallsOf, TextOf
  <1> QED BY <1>1, <1>3, <1>4, <1>6

(* While it streams, what is missing is what the accumulator holds. *)
LEMMA SentSoFar ==
    ASSUME Base, StreamInv, call \in {"streaming", "broken"}, ~finished, ~Spaced(answer.text)
    PROVE  /\ CallsOf(Arrived) = CallsSent
           /\ dropped = <<>> => TextOf(Arrived) = TextSent \o dsml_acc.buf
  <1>1. Good(Arrived, SoFar) /\ CallsSent \in Seq(Commands)
    BY DEF StreamInv, HalfInv
  <1>2. /\ CallsSent \in Seq(Calls) /\ TextSent \in Text /\ Arrived \in Text
        /\ ~Spaced(Arrived)
    BY SentIs DEF Base
  <1>3. SoFar \in Ingestion /\ SoFar.acc = dsml_acc /\ SoFar.text = TextSent
        /\ SoFar.calls = CallsSent /\ SoFar.dropped = dropped
    <2>1. dsml_acc \in Holding /\ dropped \in Text
      BY DEF Base, TypeInv
    <2> QED BY <2>1, <1>1, <1>2 DEF SoFar, Ingestion
  <1>4. /\ CallsOf(Arrived) = SoFar.calls
        /\ SoFar.dropped = <<>> => TextOf(Arrived) = SoFar.text \o SoFar.acc.buf
    BY <1>1, <1>2, <1>3, GoodEnd
  <1> QED BY <1>3, <1>4

(* However the answer is cut into frames, the calls that have come out of  *)
(* it are those of what has arrived, and, with the finish reason, the      *)
(* native ones after them.                                                 *)
THEOREM CallsFound == Spec => []CallsOfTheWhole
  <1>1. Base /\ StreamInv => CallsOfTheWhole
    <2> DEFINE whole == CallsOf(Arrived) \o (IF finished THEN NativesArrived ELSE <<>>)
    <2> SUFFICES ASSUME Base, StreamInv, ~Spaced(answer.text)
                 PROVE  IsPrefix(CallsSent, whole) /\ (EndedWell => CallsSent = whole)
      BY DEF CallsOfTheWhole
    <2>1. CallsSent \in Seq(Calls) /\ ~Spaced(Arrived)
      BY SentIs DEF Base
    <2>2. CallsSent \o <<>> = CallsSent
      BY <2>1, ConcatProperties
    <2>3. whole = CallsSent
      <3>1. CASE call \in {"streaming", "broken"} /\ ~finished
        <4>1. CallsOf(Arrived) = CallsSent
          BY <3>1, SentSoFar
        <4> QED BY <4>1, <2>2, <3>1
      <3>2. CASE call = "closed" \/ finished
        BY <3>2, <2>1 DEF StreamInv, WholeSent
      <3>3. CASE call \notin Streamed
        <4>1. finished = FALSE /\ CallsSent = <<>> /\ CallsOf(Arrived) = <<>>
          BY <3>3, NothingSent
        <4> QED BY <4>1, <2>2
      <3> QED BY <3>1, <3>2, <3>3 DEF Streamed
    <2> HIDE DEF whole
    <2>4. IsPrefix(CallsSent, CallsSent)
      <3> DEFINE a == CallsSent
      <3>1. a \in Seq(Calls) /\ <<>> \in Seq(Calls)
        BY <2>1
      <3> HIDE DEF a
      <3>2. IsPrefix(a, a \o <<>>)
        BY <3>1, PrefixOfJoin
      <3> QED BY <3>2, <2>2 DEF a
    <2> QED BY <2>3, <2>4
  <1>2. Inductive => CallsOfTheWhole
    BY <1>1 DEF Inductive
  <1> QED BY <1>2, InductiveInvariant, PTL

(* What is shown is a beginning of the text without its calls, and in the  *)
(* end all of it, unless the accumulator has dropped some.                 *)
THEOREM TextShown == Spec => []TextOfTheWhole
  <1>1. Base /\ StreamInv => TextOfTheWhole
    <2> SUFFICES ASSUME Base, StreamInv, ~Spaced(answer.text), dropped = <<>>
                 PROVE  /\ IsPrefix(TextSent, TextOf(Arrived))
                        /\ EndedWell => TextSent = TextOf(Arrived)
      BY DEF TextOfTheWhole
    <2>1. TextSent \in Text /\ ~Spaced(Arrived)
      BY SentIs DEF Base
    <2>2. TextSent \o <<>> = TextSent
      BY <2>1, ConcatProperties DEF Text
    <2> DEFINE buf == dsml_acc.buf
    <2>3. buf \in Text /\ <<>> \in Text
      BY DEF Base, TypeInv, Holding, Accumulator, Text
    <2> HIDE DEF buf
    <2>4. \A b \in Text : IsPrefix(TextSent, TextSent \o b)
      <3> DEFINE a == TextSent
      <3>1. a \in Seq(Symbols)
        BY <2>1 DEF Text
      <3> HIDE DEF a
      <3>2. \A b \in Seq(Symbols) : IsPrefix(a, a \o b)
        BY <3>1, PrefixOfJoin
      <3> QED BY <3>2 DEF a, Text
    <2>5. CASE call \in {"streaming", "broken"} /\ ~finished
      <3>1. TextOf(Arrived) = TextSent \o buf
        BY <2>5, SentSoFar DEF buf
      <3> QED BY <3>1, <2>3, <2>4, <2>5 DEF EndedWell
    <2>6. CASE call = "closed" \/ finished
      <3>1. TextSent = TextOf(Arrived)
        BY <2>6, <2>1 DEF StreamInv, WholeSent
      <3> QED BY <3>1, <2>2, <2>3, <2>4
    <2>7. CASE call \notin Streamed
      <3>1. TextSent = <<>> /\ TextOf(Arrived) = <<>>
        BY <2>7, NothingSent
      <3> QED BY <3>1, <2>2, <2>3, <2>4
    <2> QED BY <2>5, <2>6, <2>7 DEF Streamed
  <1>2. Inductive => TextOfTheWhole
    BY <1>1 DEF Inductive
  <1> QED BY <1>2, InductiveInvariant, PTL
===============================================================================
