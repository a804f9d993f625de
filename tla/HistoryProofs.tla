---------------------------- MODULE HistoryProofs ----------------------------
(***************************************************************************)
(* Theorems about the passes of History that repair a conversation, for    *)
(* any history.  What a flattening returns is proved by the least number   *)
(* of pieces for which it would fail (Least, Flattened), since the         *)
(* induction theorems of the library cannot be instantiated.               *)
(***************************************************************************)
EXTENDS History, FiniteSetTheorems, SequenceTheorems, TLAPS

(* A non-empty set of numbers has a least one. *)
LEMMA Least ==
    ASSUME NEW T \in SUBSET Nat, T # {}
    PROVE  \E x \in T : \A y \in T : x <= y
  <1> DEFINE U == {0..m : m \in T}
             R == StrictSubsetOrdering(Nat)
             F == FiniteSubsetsOf(Nat)
  <1>a. \A m \in Nat : IsFiniteSet(0..m)
    BY FS_Interval
  <1>b. \A m \in T : 0..m \in F
    BY <1>a DEF FiniteSubsetsOf
  <1>1. U \subseteq F 
    BY <1>b, Zenon
  <1>c. U # {}
    OBVIOUS
  <1>21. IsWellFoundedOn(R, F)
      BY FS_StrictSubsetOrderingWellFounded, Zenon
  <1> HIDE DEF R, F
  <1>2. PICK I \in U : \A J \in U : <<J, I>> \notin R
    <2> HIDE DEF U
    <2> QED BY <1>1, <1>c, <1>21, WFMin, Zenon
  <1>3. PICK x \in T : I = 0..x
    OBVIOUS
  <1>4. ASSUME NEW y \in T, y < x
        PROVE  FALSE
    <2>1. 0..y \in SUBSET Nat /\ 0..x \in SUBSET Nat
      OBVIOUS
    <2>2. 0..y \subseteq 0..x /\ x \in 0..x /\ x \notin 0..y
      BY <1>4
    <2>3. <<0..y, 0..x>> \in R
      BY <2>1, <2>2, Zenon DEF StrictSubsetOrdering, R
    <2> QED BY <2>3, <1>2, <1>3
  <1> QED BY <1>4

(* An interval has one upper end. *)
LEMMA SameInterval ==
    ASSUME NEW a \in Nat, NEW b \in Nat, 1..a = 1..b
    PROVE  a = b
  <1>1. ASSUME a < b PROVE FALSE
    <2>1. b \in 1..b /\ b \notin 1..a
      BY <1>1
    <2> QED BY <2>1
  <1>2. ASSUME b < a PROVE FALSE
    <2>1. a \in 1..a /\ a \notin 1..b
      BY <1>2
    <2> QED BY <2>1
  <1> QED BY <1>1, <1>2

(* A function on 1..n is a sequence of length n. *)
LEMMA IsSequence ==
    ASSUME NEW S, NEW n \in Nat, NEW f \in [1..n -> S]
    PROVE  f \in Seq(S) /\ Len(f) = n /\ DOMAIN f = 1..n
  <1>1. f \in Seq(S)
    BY SeqDef
  <1>2. DOMAIN f = 1..Len(f) /\ Len(f) \in Nat /\ DOMAIN f = 1..n
    BY <1>1, LenProperties
  <1>3. Len(f) = n
    BY <1>2, SameInterval
  <1> QED BY <1>1, <1>2, <1>3

(* g[i] is the first i of seqs, one after the other. *)
Flattens(g, seqs, n) == g = [i \in 1..n |-> IF i = 1 THEN seqs[i] ELSE g[i-1] \o seqs[i]]

(* The function that FlattenSeq is defined by exists. *)
LEMMA FlattenExists ==
    ASSUME NEW S, NEW seqs \in Seq(Seq(S)), NEW n \in Nat, n <= Len(seqs)
    PROVE  \E g : Flattens(g, seqs, n)
  <1> DEFINE Bad == {k \in 0..Len(seqs) : ~\E g : Flattens(g, seqs, k)}
  <1>a. Len(seqs) \in Nat
    BY LenProperties
  <1> SUFFICES ASSUME Bad # {} PROVE FALSE
    BY <1>a
  <1>1. Bad \in SUBSET Nat
    BY <1>a
  <1>2. PICK k \in Bad : \A j \in Bad : k <= j
    <2> HIDE DEF Bad
    <2> QED BY <1>1, Least
  <1>3. k # 0
    <2>1. Flattens(<<>>, seqs, 0)
      BY SMT DEF Flattens
    <2> QED BY <2>1
  <1>b. k \in 0..Len(seqs)
    OBVIOUS
  <1>4. k \in Nat /\ k - 1 \in 0..Len(seqs) /\ k - 1 \notin Bad
    <2>1. k \in Nat /\ k - 1 \in 0..Len(seqs)
      BY <1>b, <1>3, <1>a
    <2>2. ~(k <= k - 1)
      BY <2>1
    <2> HIDE DEF Bad
    <2> QED BY <2>1, <2>2, <1>2
  <1>5. PICK g : Flattens(g, seqs, k - 1)
    BY <1>4
  <1> DEFINE h == [i \in 1..k |-> IF i < k THEN g[i] ELSE IF i = 1 THEN seqs[i] ELSE g[i-1] \o seqs[i]]
  <1>6. \A i \in 1..(k-1) : g[i] = (IF i = 1 THEN seqs[i] ELSE g[i-1] \o seqs[i])
    BY <1>5, <1>4 DEF Flattens
  <1>7. \A i \in 1..k : h[i] = (IF i = 1 THEN seqs[i] ELSE h[i-1] \o seqs[i])
    BY <1>6, <1>4
  <1>8. Flattens(h, seqs, k)
    BY <1>7 DEF Flattens
  <1> QED BY <1>8, <1>2

(* FlattenSeq appends one piece after the other. *)
LEMMA FlattenRecursive ==
    ASSUME NEW S, NEW seqs \in Seq(Seq(S)), Len(seqs) # 0
    PROVE  \E g : Flattens(g, seqs, Len(seqs)) /\ FlattenSeq(seqs) = g[Len(seqs)]
  <1>1. \E g : Flattens(g, seqs, Len(seqs))
    BY FlattenExists, LenProperties
  <1> DEFINE c == CHOOSE g : Flattens(g, seqs, Len(seqs))
  <1>2. Flattens(c, seqs, Len(seqs))
    BY <1>1
  <1>3. FlattenSeq(seqs) = c[Len(seqs)]
    BY DEF FlattenSeq, Flattens
  <1> QED BY <1>2, <1>3

(* Induction over the pieces: what holds of nothing and is kept by each     *)
(* piece holds of the whole.                                               *)
LEMMA Flattened ==
    ASSUME NEW S, NEW seqs \in Seq(Seq(S)), NEW W,
           <<>> \in W[0],
           \A i \in 0..Len(seqs) : W[i] \subseteq Seq(S),
           \A i \in 1..Len(seqs) : \A a \in W[i - 1] : a \o seqs[i] \in W[i]
    PROVE  FlattenSeq(seqs) \in W[Len(seqs)]
  <1>a. Len(seqs) \in Nat
    BY LenProperties
  <1>1. CASE Len(seqs) = 0
    <2>1. seqs = <<>>
      BY <1>1, EmptySeq
    <2>2. FlattenSeq(seqs) = seqs
      BY <1>1 DEF FlattenSeq
    <2> QED BY <2>1, <2>2, <1>1
  <1>2. CASE Len(seqs) # 0
    <2>1. PICK g : Flattens(g, seqs, Len(seqs)) /\ FlattenSeq(seqs) = g[Len(seqs)]
      BY <1>2, FlattenRecursive
    <2>2. \A i \in 1..Len(seqs) : g[i] = (IF i = 1 THEN seqs[i] ELSE g[i-1] \o seqs[i])
      BY <2>1 DEF Flattens
    <2> DEFINE Bad == {k \in 1..Len(seqs) : g[k] \notin W[k]}
    <2>3. SUFFICES ASSUME Bad # {} PROVE FALSE
      <3>1. Len(seqs) \in 1..Len(seqs)
        BY <1>2, <1>a
      <3>2. g[Len(seqs)] \in W[Len(seqs)]
        BY <3>1
      <3> QED BY <3>2, <2>1
    <2>4. Bad \in SUBSET Nat
      BY <1>a
    <2>5. PICK k \in Bad : \A j \in Bad : k <= j
      <3> HIDE DEF Bad
      <3> QED BY <2>3, <2>4, Least
    <2>6. CASE k = 1
      <3>1. seqs[1] \in Seq(S)
        BY ElementOfSeq, <1>2, <1>a
      <3>2. <<>> \o seqs[1] = seqs[1]
        BY <3>1, ConcatEmptySeq
      <3>3. seqs[1] \in W[1]
        <4>1. 1 \in 1..Len(seqs) /\ 1 - 1 = 0
          BY <1>2, <1>a
        <4>2. <<>> \o seqs[1] \in W[1]
          BY <4>1
        <4> QED BY <4>2, <3>2
      <3> QED BY <3>3, <2>2, <2>6, <2>5
    <2>7. CASE k # 1
      <3>1. k \in 1..Len(seqs) /\ k - 1 \in 1..Len(seqs) /\ k - 1 \notin Bad
        BY <2>5, <2>7, <1>a
      <3>2. g[k - 1] \in W[k - 1]
        BY <3>1
      <3>3. g[k - 1] \o seqs[k] \in W[k]
        BY <3>2, <3>1
      <3>4. g[k] = g[k - 1] \o seqs[k]
        BY <3>1, <2>2, <2>7
      <3> QED BY <3>3, <3>4, <2>5
    <2> QED BY <2>6, <2>7
  <1> QED BY <1>1, <1>2

-----------------------------------------------------------------------------
Roles == {"user", "assistant", "tool", "system"}

(* The messages whose calls have their ids in Ids. *)
Messages(Ids) == [role : Roles, calls : Seq(Ids), id : Ids \cup {<<>>},
                  reason : BOOLEAN, image : BOOLEAN, made : BOOLEAN]

(* A history has finitely many images. *)
LEMMA ImagesFinite ==
    ASSUME NEW Ids, NEW ms \in Seq(Messages(Ids))
    PROVE  IsFiniteSet(Images(ms)) /\ Images(ms) \subseteq 1..Len(ms)
  <1>1. Len(ms) \in Nat /\ DOMAIN ms = 1..Len(ms)
    BY LenProperties
  <1>2. Images(ms) \in SUBSET (1..Len(ms)) /\ IsFiniteSet(1..Len(ms))
    BY <1>1, FS_Interval DEF Images
  <1> QED BY <1>2, FS_Subset

(* Calls that are answered stay so, whatever follows ... *)
LEMMA AnsweredBefore ==
    ASSUME NEW Ids, NEW a \in Seq(Messages(Ids)), NEW b \in Seq(Messages(Ids)),
           NEW i \in 1..Len(a), Answered(a, i)
    PROVE  Answered(a \o b, i)
  <1> DEFINE n == Len(a[i].calls)
  <1>1. Len(a) \in Nat /\ Len(b) \in Nat /\ Len(a \o b) = Len(a) + Len(b)
    BY LenProperties, ConcatProperties
  <1>2. \A k \in 1..Len(a) : (a \o b)[k] = a[k]
    BY <1>1, ConcatProperties
  <1>3. a[i].calls \in Seq(Ids)
    <2>1. a[i] \in Messages(Ids)
      BY ElementOfSeq
    <2> QED BY <2>1 DEF Messages
  <1>4. n \in Nat /\ i + n <= Len(a) /\ (a \o b)[i] = a[i]
    BY <1>2, <1>3, LenProperties DEF Answered
  <1>5. \A k \in (i + 1)..(i + n) : k \in 1..Len(a) /\ (a \o b)[k] = a[k]
    BY <1>1, <1>2, <1>4
  <1>6. {(a \o b)[k].id : k \in (i + 1)..(i + n)} = {a[k].id : k \in (i + 1)..(i + n)}
    BY <1>5
  <1>7. i + n <= Len(a \o b)
    BY <1>1, <1>4
  <1>8. \A k \in (i + 1)..(i + n) : IsTool((a \o b)[k])
    BY <1>5 DEF Answered
  <1> QED BY <1>4, <1>6, <1>7, <1>8 DEF Answered

(* ... and whatever comes before. *)
LEMMA AnsweredBehind ==
    ASSUME NEW Ids, NEW a \in Seq(Messages(Ids)), NEW b \in Seq(Messages(Ids)),
           NEW i \in 1..Len(b), Answered(b, i)
    PROVE  Answered(a \o b, Len(a) + i)
  <1> DEFINE n == Len(b[i].calls)
             m == Len(a)
  <1>1. m \in Nat /\ Len(b) \in Nat /\ Len(a \o b) = m + Len(b)
    BY LenProperties, ConcatProperties
  <1>2. \A k \in 1..Len(b) : (a \o b)[m + k] = b[k]
    BY <1>1, ConcatProperties
  <1>3. b[i].calls \in Seq(Ids)
    <2>1. b[i] \in Messages(Ids)
      BY ElementOfSeq
    <2> QED BY <2>1 DEF Messages
  <1>4. n \in Nat /\ i + n <= Len(b) /\ (a \o b)[m + i] = b[i]
    BY <1>2, <1>3, LenProperties DEF Answered
  <1>a. i \in Nat
    BY <1>1
  <1> HIDE DEF n, m
  <1>5. ASSUME NEW k \in (m + i + 1)..(m + i + n)
        PROVE  k - m \in (i + 1)..(i + n) /\ (a \o b)[k] = b[k - m]
    <2>1. k - m \in (i + 1)..(i + n) /\ k - m \in 1..Len(b) /\ m + (k - m) = k
      BY <1>1, <1>4, <1>a
    <2> QED BY <2>1, <1>2
  <1>6. ASSUME NEW k \in (i + 1)..(i + n)
        PROVE  m + k \in (m + i + 1)..(m + i + n) /\ (a \o b)[m + k] = b[k]
    <2>1. m + k \in (m + i + 1)..(m + i + n) /\ k \in 1..Len(b)
      BY <1>1, <1>4, <1>a
    <2> QED BY <2>1, <1>2
  <1>7. {(a \o b)[k].id : k \in (m + i + 1)..(m + i + n)} = {b[k].id : k \in (i + 1)..(i + n)}
    <2>1. ASSUME NEW x \in {(a \o b)[k].id : k \in (m + i + 1)..(m + i + n)}
          PROVE  x \in {b[k].id : k \in (i + 1)..(i + n)}
      BY <1>5
    <2>2. ASSUME NEW x \in {b[k].id : k \in (i + 1)..(i + n)}
          PROVE  x \in {(a \o b)[k].id : k \in (m + i + 1)..(m + i + n)}
      <3>1. PICK k \in (i + 1)..(i + n) : x = b[k].id
        OBVIOUS
      <3> QED BY <3>1, <1>6
    <2> QED BY <2>1, <2>2
  <1>8. m + i + n <= Len(a \o b)
    BY <1>1, <1>4, <1>a
  <1>9. \A k \in (m + i + 1)..(m + i + n) : IsTool((a \o b)[k])
    BY <1>5 DEF Answered, n
  <1> QED BY <1>4, <1>7, <1>8, <1>9 DEF Answered, n, m

(* Two well-formed histories make one. *)
LEMMA WellFormedConcat ==
    ASSUME NEW Ids, NEW a \in Seq(Messages(Ids)), NEW b \in Seq(Messages(Ids)),
           WellFormed(a), WellFormed(b)
    PROVE  WellFormed(a \o b)
  <1>1. /\ Len(a) \in Nat /\ Len(b) \in Nat /\ Len(a \o b) = Len(a) + Len(b)
        /\ DOMAIN a = 1..Len(a) /\ DOMAIN b = 1..Len(b)
        /\ DOMAIN (a \o b) = 1..(Len(a) + Len(b))
    BY LenProperties, ConcatProperties
  <1>2. \A k \in 1..Len(a) : (a \o b)[k] = a[k]
    BY <1>1, ConcatProperties
  <1>3. \A k \in 1..Len(b) : (a \o b)[Len(a) + k] = b[k]
    BY <1>1, ConcatProperties
  <1> SUFFICES ASSUME NEW i \in 1..(Len(a) + Len(b))
               PROVE  /\ (a \o b)[i].calls # <<>> => Answered(a \o b, i)
                      /\ IsTool((a \o b)[i]) => Owned(a \o b, i)
    BY <1>1 DEF WellFormed
  <1>4. CASE i \in 1..Len(a)
    <2>1. (a \o b)[i] = a[i]
      BY <1>2, <1>4
    <2>2. ASSUME IsTool(a[i])
          PROVE  Owned(a \o b, i)
      <3>1. PICK j \in 1..(i - 1) : i - j <= Len(a[j].calls)
        BY <2>2, <1>4, <1>1 DEF WellFormed, Owned
      <3>2. (a \o b)[j] = a[j]
        BY <1>2, <1>4, <1>1
      <3> QED BY <3>1, <3>2 DEF Owned
    <2> QED BY <2>1, <2>2, <1>1, <1>4, AnsweredBefore DEF WellFormed
  <1>5. CASE i \notin 1..Len(a)
    <2>1. PICK k \in 1..Len(b) : i = Len(a) + k
      <3>1. i - Len(a) \in 1..Len(b) /\ i = Len(a) + (i - Len(a))
        BY <1>1, <1>5
      <3> QED BY <3>1
    <2>2. (a \o b)[i] = b[k]
      BY <2>1, <1>3
    <2>3. ASSUME IsTool(b[k])
          PROVE  Owned(a \o b, i)
      <3>1. PICK j \in 1..(k - 1) : k - j <= Len(b[j].calls)
        BY <2>3, <1>1 DEF WellFormed, Owned
      <3>2. /\ Len(a) + j \in 1..(i - 1) /\ i - (Len(a) + j) = k - j
            /\ (a \o b)[Len(a) + j] = b[j]
        BY <1>1, <1>3, <2>1
      <3> QED BY <3>1, <3>2 DEF Owned
    <2>4. b[k].calls # <<>> => Answered(a \o b, i)
      BY <2>1, <1>1, AnsweredBehind DEF WellFormed
    <2> QED BY <2>2, <2>3, <2>4
  <1> QED BY <1>4, <1>5

(* A piece with at most one image adds no more than that one. *)
LEMMA ImagesConcat ==
    ASSUME NEW Ids, NEW a \in Seq(Messages(Ids)), NEW b \in Seq(Messages(Ids)),
           Images(b) \subseteq {1}
    PROVE  Cardinality(Images(a \o b)) <= Cardinality(Images(a))
                                         + (IF Images(b) = {} THEN 0 ELSE 1)
  <1>1. /\ Len(a) \in Nat /\ Len(b) \in Nat
        /\ DOMAIN a = 1..Len(a) /\ DOMAIN b = 1..Len(b)
        /\ DOMAIN (a \o b) = 1..(Len(a) + Len(b))
    BY LenProperties, ConcatProperties
  <1>2. \A k \in 1..Len(a) : (a \o b)[k] = a[k]
    BY <1>1, ConcatProperties
  <1>3. \A k \in 1..Len(b) : (a \o b)[Len(a) + k] = b[k]
    BY <1>1, ConcatProperties
  <1>4. ASSUME NEW i \in Images(a \o b)
        PROVE  i \in Images(a) \/ (i = Len(a) + 1 /\ Images(b) # {})
    <2>1. i \in 1..(Len(a) + Len(b)) /\ (a \o b)[i].image
      BY <1>1 DEF Images
    <2>2. CASE i \in 1..Len(a)
      BY <2>1, <2>2, <1>1, <1>2 DEF Images
    <2>3. CASE i \notin 1..Len(a)
      <3>1. i - Len(a) \in 1..Len(b) /\ i = Len(a) + (i - Len(a))
        BY <1>1, <2>1, <2>3
      <3>2. b[i - Len(a)].image
        BY <3>1, <2>1, <1>3
      <3>3. i - Len(a) \in Images(b)
        BY <3>1, <3>2, <1>1 DEF Images
      <3> QED BY <3>1, <3>3, <1>1
    <2> QED BY <2>2, <2>3
  <1>5. IsFiniteSet(Images(a))
    BY ImagesFinite
  <1>6. Cardinality(Images(a)) \in Nat
    BY <1>5, FS_CardinalityType
  <1>7. CASE Images(b) = {}
    <2>1. Images(a \o b) \in SUBSET Images(a)
      BY <1>4, <1>7
    <2>2. Cardinality(Images(a \o b)) <= Cardinality(Images(a))
      BY <2>1, <1>5, FS_Subset
    <2> QED BY <2>2, <1>6, <1>7
  <1>8. CASE Images(b) # {}
    <2>1. Images(a \o b) \in SUBSET (Images(a) \cup {Len(a) + 1})
      BY <1>4
    <2>2. /\ IsFiniteSet(Images(a) \cup {Len(a) + 1})
          /\ Cardinality(Images(a) \cup {Len(a) + 1}) <= Cardinality(Images(a)) + 1
      <3>1. Cardinality(Images(a) \cup {Len(a) + 1})
              = IF Len(a) + 1 \in Images(a) THEN Cardinality(Images(a)) ELSE Cardinality(Images(a)) + 1
        BY <1>5, FS_AddElement
      <3>2. IsFiniteSet(Images(a) \cup {Len(a) + 1})
        BY <1>5, FS_AddElement
      <3> QED BY <3>1, <3>2, <1>6
    <2>3. /\ Cardinality(Images(a \o b)) <= Cardinality(Images(a) \cup {Len(a) + 1})
          /\ IsFiniteSet(Images(a \o b))
      BY <2>1, <2>2, FS_Subset
    <2>4. /\ Cardinality(Images(a \o b)) \in Nat
          /\ Cardinality(Images(a) \cup {Len(a) + 1}) \in Nat
      BY <2>2, <2>3, FS_CardinalityType
    <2> QED BY <2>2, <2>3, <2>4, <1>6, <1>8
  <1> QED BY <1>7, <1>8
-----------------------------------------------------------------------------
(* The result that is found or made up answers its call. *)
LEMMA ResultForIs ==
    ASSUME NEW Ids, NEW ms \in Seq(Messages(Ids)), NEW i \in 1..Len(ms),
           NEW k \in 1..Len(ms[i].calls)
    PROVE  /\ ResultFor(ms, i, k) \in Messages(Ids)
           /\ ResultFor(ms, i, k).role = "tool"
           /\ ResultFor(ms, i, k).id = ms[i].calls[k]
           /\ ResultFor(ms, i, k).calls = <<>>
           /\ ~ResultFor(ms, i, k).image
  <1>1. ms[i] \in Messages(Ids)
    BY ElementOfSeq
  <1>2. ms[i].calls \in Seq(Ids)
    BY <1>1 DEF Messages
  <1>3. ms[i].calls[k] \in Ids
    BY <1>2, ElementOfSeq
  <1> DEFINE id == ms[i].calls[k]
  <1>4. ResultFor(ms, i, k) \in {Result(id), Missing(id)}
    BY DEF ResultFor
  <1>5. <<>> \in Seq(Ids)
    BY EmptySeq
  <1> HIDE DEF id
  <1>6. \A r \in {Result(id), Missing(id)} :
            r.role = "tool" /\ r.id = id /\ r.calls = <<>> /\ ~r.image
    BY DEF Result, Missing, Message
  <1>7. id \in Ids => {Result(id), Missing(id)} \subseteq Messages(Ids)
    <2>1. id \in Ids => Result(id) \in Messages(Ids)
      BY <1>5 DEF Result, Message, Messages, Roles
    <2>2. \A r \in Messages(Ids) : [r EXCEPT !.made = TRUE] \in Messages(Ids)
      BY DEF Messages
    <2> QED BY <2>1, <2>2 DEF Missing
  <1> QED BY <1>3, <1>4, <1>6, <1>7 DEF id

(* A message with its results is a well-formed history. *)
LEMMA WithResultsIs ==
    ASSUME NEW Ids, NEW ms \in Seq(Messages(Ids)), NEW i \in 1..Len(ms)
    PROVE  /\ WithResults(ms, i) \in Seq(Messages(Ids))
           /\ WellFormed(WithResults(ms, i))
           /\ Images(WithResults(ms, i)) \subseteq {j \in {1} : ms[i].image}
  <1>1. ms[i] \in Messages(Ids)
    BY ElementOfSeq
  <1>2. ms[i].calls \in Seq(Ids)
    BY <1>1 DEF Messages
  <1>3. CASE IsTool(ms[i])
    <2>1. WithResults(ms, i) = <<>>
      BY <1>3 DEF WithResults
    <2>2. <<>> \in Seq(Messages(Ids)) /\ DOMAIN <<>> = {}
      BY EmptySeq
    <2> QED BY <2>1, <2>2 DEF WellFormed, Images
  <1>4. CASE ~IsTool(ms[i])
    <2> DEFINE n == Len(ms[i].calls)
               rs == [k \in 1..n |-> ResultFor(ms, i, k)]
               w == WithResults(ms, i)
    <2>1. n \in Nat /\ DOMAIN ms[i].calls = 1..n
      BY <1>2, LenProperties
    <2>2. w = <<ms[i]>> \o rs
      BY <2>1, <1>4 DEF WithResults
    <2>3. \A k \in 1..n : rs[k] = ResultFor(ms, i, k) /\ rs[k] \in Messages(Ids)
      BY ResultForIs
    <2>4. rs \in Seq(Messages(Ids)) /\ Len(rs) = n
      <3>1. rs \in [1..n -> Messages(Ids)]
        BY <2>3
      <3> HIDE DEF rs, n
      <3> QED BY <3>1, <2>1, IsSequence
    <2>5. <<ms[i]>> \in Seq(Messages(Ids)) /\ Len(<<ms[i]>>) = 1 /\ <<ms[i]>>[1] = ms[i]
      BY <1>1
    <2> HIDE DEF rs
    <2>6. w \in Seq(Messages(Ids)) /\ Len(w) = n + 1
      BY <2>1, <2>2, <2>4, <2>5, ConcatProperties
    <2>7. w[1] = ms[i]
      BY <2>2, <2>4, <2>5, ConcatProperties
    <2>8. \A k \in 1..n : w[k + 1] = ResultFor(ms, i, k)
      BY <2>1, <2>2, <2>3, <2>4, <2>5, ConcatProperties
    <2>9. DOMAIN w = 1..(n + 1)
      BY <2>6, LenProperties
    <2> HIDE DEF w
    <2>10. ASSUME NEW j \in 2..(n + 1)
           PROVE  /\ j - 1 \in 1..n /\ w[j].role = "tool" /\ w[j].calls = <<>>
                  /\ ~w[j].image /\ w[j].id = ms[i].calls[j - 1]
      <3>1. j - 1 \in 1..n /\ (j - 1) + 1 = j
        BY <2>1
      <3>2. w[j] = ResultFor(ms, i, j - 1)
        BY <3>1, <2>8
      <3> QED BY <3>1, <3>2, ResultForIs
    <2>11. Answered(w, 1)
      <3>1. {w[k].id : k \in 2..(n + 1)} = {ms[i].calls[k] : k \in 1..n}
        <4>1. ASSUME NEW k \in 1..n PROVE k + 1 \in 2..(n + 1) /\ w[k + 1].id = ms[i].calls[k]
          BY <2>1, <2>8, ResultForIs
        <4>2. ASSUME NEW x \in {w[k].id : k \in 2..(n + 1)}
              PROVE  x \in {ms[i].calls[k] : k \in 1..n}
          BY <2>10
        <4>3. ASSUME NEW x \in {ms[i].calls[k] : k \in 1..n}
              PROVE  x \in {w[k].id : k \in 2..(n + 1)}
          <5>1. PICK k \in 1..n : x = ms[i].calls[k]
            OBVIOUS
          <5> QED BY <5>1, <4>1
        <4> QED BY <4>2, <4>3
      <3>2. Len(w[1].calls) = n /\ 1 + n <= Len(w) /\ 1 + 1 = 2 /\ 1 + n = n + 1
        BY <2>1, <2>6, <2>7
      <3>3. \A k \in 2..(n + 1) : IsTool(w[k])
        BY <2>10 DEF IsTool
      <3>4. (1 + 1)..(1 + Len(w[1].calls)) = 2..(n + 1)
        BY <3>2, <2>1
      <3> HIDE DEF n
      <3>5. {w[k].id : k \in (1 + 1)..(1 + Len(w[1].calls))}
              = {w[1].calls[k] : k \in 1..Len(w[1].calls)}
        <4>1. Len(w[1].calls) = n
          BY <3>2
        <4>2. {w[k].id : k \in (1 + 1)..(1 + Len(w[1].calls))} = {w[k].id : k \in 2..(n + 1)}
          BY <3>4, Zenon
        <4>3. {w[1].calls[k] : k \in 1..Len(w[1].calls)} = {ms[i].calls[k] : k \in 1..n}
          BY <4>1, <2>7, Zenon
        <4> QED BY <4>2, <4>3, <3>1, Zenon
      <3>6. \A k \in (1 + 1)..(1 + Len(w[1].calls)) : IsTool(w[k])
        BY <3>3, <3>4, Zenon
      <3>7. 1 + Len(w[1].calls) <= Len(w)
        BY <3>2
      <3> QED BY <3>5, <3>6, <3>7, Zenon DEF Answered
    <2>12. ASSUME NEW j \in 2..(n + 1) PROVE Owned(w, j)
      <3>1. 1 \in 1..(j - 1) /\ j - 1 <= Len(w[1].calls)
        BY <2>1, <2>7
      <3> QED BY <3>1 DEF Owned
    <2>13. \A j \in 1..(n + 1) : j = 1 \/ j \in 2..(n + 1)
      BY <2>1
    <2>14. WellFormed(w)
      BY <2>7, <2>9, <2>10, <2>11, <2>12, <2>13, <1>4 DEF WellFormed
    <2>15. Images(w) \subseteq {j \in {1} : ms[i].image}
      BY <2>7, <2>9, <2>10, <2>13 DEF Images
    <2> QED BY <2>6, <2>14, <2>15 DEF w
  <1> QED BY <1>3, <1>4

(* The repair returns a well-formed history with no more images. *)
LEMMA SanitizeIs ==
    ASSUME NEW Ids, NEW ms \in Seq(Messages(Ids))
    PROVE  /\ sanitize_tool_call_sequence(ms) \in Seq(Messages(Ids))
           /\ WellFormed(sanitize_tool_call_sequence(ms))
           /\ Cardinality(Images(sanitize_tool_call_sequence(ms))) <= Cardinality(Images(ms))
  <1> DEFINE M == Messages(Ids)
             n == Len(ms)
             Upto(i) == {j \in Images(ms) : j <= i}
             Good(i) == {a \in Seq(M) : WellFormed(a)
                                        /\ Cardinality(Images(a)) <= Cardinality(Upto(i))}
             W == [i \in 0..n |-> Good(i)]
             pieces == [i \in 1..n |-> WithResults(ms, i)]
  <1>1. n \in Nat /\ DOMAIN ms = 1..n
    BY LenProperties
  <1>2. pieces \in Seq(Seq(M)) /\ Len(pieces) = n
    <2>1. pieces \in [1..n -> Seq(M)]
      BY WithResultsIs
    <2> HIDE DEF pieces, n, M
    <2> QED BY <2>1, <1>1, IsSequence
  <1>3. IsFiniteSet(Images(ms)) /\ Images(ms) \subseteq 1..n
    BY ImagesFinite
  <1>4. \A i \in 0..n : IsFiniteSet(Upto(i)) /\ Cardinality(Upto(i)) \in Nat
    BY <1>3, FS_Subset, FS_CardinalityType
  <1>5. <<>> \in W[0]
    <2>1. <<>> \in Seq(M) /\ DOMAIN <<>> = {}
      BY EmptySeq
    <2>2. WellFormed(<<>>) /\ Images(<<>>) = {}
      BY <2>1 DEF WellFormed, Images
    <2>3. Cardinality(Images(<<>>)) = 0
      BY <2>2, FS_EmptySet
    <2>4. 0 \in 0..n
      BY <1>1
    <2>5. Cardinality(Images(<<>>)) <= Cardinality(Upto(0))
      <3>1. Cardinality(Upto(0)) \in Nat
        BY <2>4, <1>4
      <3> QED BY <3>1, <2>3
    <2>6. <<>> \in Good(0)
      BY <2>1, <2>2, <2>5
    <2> QED BY <2>4, <2>6
  <1>6. ASSUME NEW i \in 1..n, NEW a \in W[i - 1]
        PROVE  a \o pieces[i] \in W[i]
    <2>1. i - 1 \in 0..n /\ i \in 0..n
      BY <1>1
    <2>2. a \in Good(i - 1)
      BY <2>1
    <2> DEFINE b == WithResults(ms, i)
    <2>3. /\ a \in Seq(M) /\ WellFormed(a)
          /\ Cardinality(Images(a)) <= Cardinality(Upto(i - 1))
      BY <2>2
    <2>4. b \in Seq(M) /\ WellFormed(b) /\ Images(b) \subseteq {j \in {1} : ms[i].image}
      BY WithResultsIs
    <2> HIDE DEF b
    <2>5. a \o b \in Seq(M) /\ WellFormed(a \o b)
      BY <2>3, <2>4, WellFormedConcat, ConcatProperties
    <2>6. Cardinality(Images(a \o b)) <= Cardinality(Upto(i))
      <3>1. Cardinality(Images(a \o b)) <= Cardinality(Images(a))
                                           + (IF Images(b) = {} THEN 0 ELSE 1)
        BY <2>3, <2>4, ImagesConcat
      <3>2. IsFiniteSet(Images(a)) /\ IsFiniteSet(Images(a \o b))
        BY <2>3, <2>5, ImagesFinite
      <3>3. Cardinality(Images(a)) \in Nat /\ Cardinality(Images(a \o b)) \in Nat
        BY <3>2, FS_CardinalityType
      <3>4. /\ IsFiniteSet(Upto(i - 1)) /\ IsFiniteSet(Upto(i))
            /\ Cardinality(Upto(i - 1)) \in Nat /\ Cardinality(Upto(i)) \in Nat
        BY <1>4, <2>1
      <3>5. CASE Images(b) = {}
        <4>1. Upto(i - 1) \in SUBSET Upto(i)
          BY <1>1, <1>3
        <4>2. Cardinality(Upto(i - 1)) <= Cardinality(Upto(i))
          BY <4>1, <3>4, FS_Subset
        <4> HIDE DEF Upto
        <4> QED BY <4>2, <3>1, <3>3, <3>4, <3>5, <2>3
      <3>6. CASE Images(b) # {}
        <4>1. i \in Images(ms)
          BY <3>6, <2>4, <1>1 DEF Images
        <4>2. Upto(i) = Upto(i - 1) \cup {i} /\ i \notin Upto(i - 1)
          BY <4>1, <1>1, <1>3
        <4>3. Cardinality(Upto(i)) = Cardinality(Upto(i - 1)) + 1
          <5> HIDE DEF Upto
          <5> QED BY <4>2, <3>4, FS_AddElement
        <4> HIDE DEF Upto
        <4> QED BY <4>3, <3>1, <3>3, <3>4, <3>6, <2>3
      <3> QED BY <3>5, <3>6
    <2>7. a \o b \in Good(i)
      BY <2>5, <2>6
    <2> QED BY <2>7, <2>1 DEF b
  <1>7. FlattenSeq(pieces) \in W[Len(pieces)]
    <2>1. \A i \in 0..Len(pieces) : W[i] \subseteq Seq(M)
      BY <1>2
    <2>2. \A i \in 1..Len(pieces) : \A a \in W[i - 1] : a \o pieces[i] \in W[i]
      BY <1>2, <1>6
    <2> HIDE DEF W, pieces, M, n
    <2> QED BY <2>1, <2>2, <1>2, <1>5, Flattened
  <1>8. FlattenSeq(pieces) \in Good(n)
    <2>1. n \in 0..n
      BY <1>1
    <2> QED BY <2>1, <1>7, <1>2
  <1>9. Upto(n) = Images(ms)
    BY <1>1, <1>3
  <1>10. sanitize_tool_call_sequence(ms) = FlattenSeq(pieces)
    BY <1>1 DEF sanitize_tool_call_sequence
  <1> QED BY <1>8, <1>9, <1>10
-----------------------------------------------------------------------------
(* A pass that changes neither the roles, the calls and the ids, nor the   *)
(* length keeps a history well formed.                                     *)
LEMMA SameShape ==
    ASSUME NEW a, NEW b, WellFormed(a), DOMAIN b = DOMAIN a, Len(b) = Len(a),
           DOMAIN a = 1..Len(a), Len(a) \in Nat,
           \A i \in DOMAIN a : Len(a[i].calls) \in Nat,
           \A i \in DOMAIN a : /\ b[i].role = a[i].role
                               /\ b[i].calls = a[i].calls /\ b[i].id = a[i].id
    PROVE  WellFormed(b)
  <1> SUFFICES ASSUME NEW i \in DOMAIN a
               PROVE  /\ b[i].calls # <<>> => Answered(b, i)
                      /\ IsTool(b[i]) => Owned(b, i)
    BY DEF WellFormed
  <1>1. ASSUME b[i].calls # <<>>
        PROVE  Answered(b, i)
    <2> DEFINE n == Len(a[i].calls)
    <2>1. Answered(a, i) /\ Len(b[i].calls) = n /\ n \in Nat /\ i \in Nat
      BY <1>1 DEF WellFormed
    <2>2. i + n <= Len(a)
      BY <2>1 DEF Answered
    <2> HIDE DEF n
    <2>3. \A k \in (i + 1)..(i + n) : k \in DOMAIN a
      BY <2>1, <2>2
    <2>4. /\ \A k \in (i + 1)..(i + n) : IsTool(a[k])
          /\ {a[k].id : k \in (i + 1)..(i + n)} = {a[i].calls[k] : k \in 1..n}
      BY <2>1 DEF Answered, n
    <2>5. {b[k].id : k \in (i + 1)..(i + n)} = {a[k].id : k \in (i + 1)..(i + n)}
      BY <2>3, Zenon
    <2>6. {b[i].calls[k] : k \in 1..n} = {a[i].calls[k] : k \in 1..n}
      BY Zenon
    <2>7. \A k \in (i + 1)..(i + n) : IsTool(b[k])
      BY <2>3, <2>4 DEF IsTool
    <2> QED BY <2>1, <2>2, <2>4, <2>5, <2>6, <2>7 DEF Answered
  <1>2. ASSUME IsTool(b[i])
        PROVE  Owned(b, i)
    <2>1. Owned(a, i)
      BY <1>2 DEF WellFormed, IsTool
    <2>2. PICK j \in 1..(i - 1) : i - j <= Len(a[j].calls)
      BY <2>1 DEF Owned
    <2>3. j \in DOMAIN a
      BY <2>2
    <2> QED BY <2>2, <2>3 DEF Owned
  <1> QED BY <1>1, <1>2

(* What prepare_for_request returns is accepted by the API, whatever the   *)
(* history was before, and has no more images than the history.            *)
THEOREM PreparedIsAccepted ==
    ASSUME NEW Ids, NEW ms \in Seq(Messages(Ids))
    PROVE  /\ prepare_for_request(ms) \in Seq(Messages(Ids))
           /\ WellFormed(prepare_for_request(ms))
           /\ Reasoned(prepare_for_request(ms))
           /\ Cardinality(Images(prepare_for_request(ms))) <= Cardinality(Images(ms))
  <1> DEFINE r == sanitize_tool_call_sequence(ms)
             p == prepare_for_request(ms)
  <1>1. /\ r \in Seq(Messages(Ids)) /\ WellFormed(r)
        /\ Cardinality(Images(r)) <= Cardinality(Images(ms))
    BY SanitizeIs
  <1>2. p = [i \in DOMAIN r |-> IF r[i].calls # <<>> THEN [r[i] EXCEPT !.reason = TRUE]
                                ELSE r[i]]
    BY DEF prepare_for_request
  <1> HIDE DEF r, p
  <1> DEFINE n == Len(r)
  <1>3. n \in Nat /\ DOMAIN r = 1..n /\ \A i \in 1..n : r[i] \in Messages(Ids)
    BY <1>1, LenProperties, ElementOfSeq
  <1>4. ASSUME NEW m \in Messages(Ids)
        PROVE  LET q == IF m.calls # <<>> THEN [m EXCEPT !.reason = TRUE] ELSE m IN
               /\ q \in Messages(Ids) /\ Len(m.calls) \in Nat
               /\ q.role = m.role /\ q.calls = m.calls /\ q.id = m.id /\ q.image = m.image
               /\ q.calls # <<>> => q.reason
    <2>1. Len(m.calls) \in Nat
      BY LenProperties DEF Messages
    <2> QED BY <2>1 DEF Messages
  <1> HIDE DEF n
  <1>5. ASSUME NEW i \in 1..n
        PROVE  /\ p[i] \in Messages(Ids) /\ Len(r[i].calls) \in Nat
               /\ p[i].role = r[i].role /\ p[i].calls = r[i].calls
               /\ p[i].id = r[i].id /\ p[i].image = r[i].image
               /\ p[i].calls # <<>> => p[i].reason
    BY <1>2, <1>3, <1>4
  <1>6. p \in [1..n -> Messages(Ids)]
    <2>1. p = [i \in 1..n |-> p[i]]
      BY <1>2, <1>3
    <2> QED BY <2>1, <1>5
  <1>7. DOMAIN p = 1..n /\ Len(p) = n /\ Len(r) = n /\ p \in Seq(Messages(Ids))
    BY <1>6, <1>3, IsSequence DEF n
  <1>8. WellFormed(p)
    BY <1>1, <1>3, <1>5, <1>7, SameShape
  <1>9. Reasoned(p)
    BY <1>5, <1>7 DEF Reasoned
  <1>10. Images(p) = Images(r)
    BY <1>3, <1>5, <1>7 DEF Images
  <1> QED BY <1>1, <1>7, <1>8, <1>9, <1>10 DEF p

(* prune_images leaves at most keep images and changes nothing else. *)
THEOREM PruneKeeps ==
    ASSUME NEW Ids, NEW ms \in Seq(Messages(Ids)), NEW keep \in Nat
    PROVE  /\ prune_images(ms, keep) \in Seq(Messages(Ids))
           /\ Len(prune_images(ms, keep)) = Len(ms)
           /\ Cardinality(Images(prune_images(ms, keep))) <= keep
  <1> DEFINE p == prune_images(ms, keep)
             After(i) == {j \in Images(ms) : j > i}
  <1>1. Len(ms) \in Nat /\ DOMAIN ms = 1..Len(ms) /\ \A i \in DOMAIN ms : ms[i] \in Messages(Ids)
    BY LenProperties, ElementOfSeq
  <1>2. p = [i \in DOMAIN ms |-> IF Cardinality(After(i)) < keep THEN ms[i]
                                 ELSE [ms[i] EXCEPT !.image = FALSE]]
    BY DEF prune_images
  <1>3. IsFiniteSet(Images(ms)) /\ Images(ms) \subseteq 1..Len(ms)
    BY ImagesFinite
  <1>4. \A i : IsFiniteSet(After(i)) /\ Cardinality(After(i)) \in Nat
    BY <1>3, FS_Subset, FS_CardinalityType
  <1> HIDE DEF p, After
  <1>5. \A m \in Messages(Ids) : /\ [m EXCEPT !.image = FALSE] \in Messages(Ids)
                                 /\ ~[m EXCEPT !.image = FALSE].image
    BY DEF Messages
  <1>6. p \in [1..Len(ms) -> Messages(Ids)]
    BY <1>1, <1>2, <1>5
  <1>7. p \in Seq(Messages(Ids)) /\ Len(p) = Len(ms)
    BY <1>6, <1>1, IsSequence
  <1>8. ASSUME NEW i \in Images(p)
        PROVE  i \in Images(ms) /\ Cardinality(After(i)) < keep
    BY <1>1, <1>2, <1>5 DEF Images
  <1>9. Cardinality(Images(p)) <= keep
    <2>1. CASE Images(p) = {}
      BY <2>1, FS_EmptySet
    <2>2. CASE Images(p) # {}
      <3>1. Images(p) \in SUBSET Nat
        BY <1>3, <1>8
      <3>2. PICK x \in Images(p) : \A y \in Images(p) : x <= y
        BY <3>1, <2>2, Least
      <3>3. Images(p) \in SUBSET (After(x) \cup {x})
        <4>1. ASSUME NEW y \in Images(p), y # x
              PROVE  y \in After(x)
          <5>1. x <= y /\ x \in Nat /\ y \in Nat
            BY <3>1, <3>2
          <5>2. y > x
            BY <5>1, <4>1
          <5> QED BY <5>2, <1>8 DEF After
        <4> QED BY <4>1
      <3>4. IsFiniteSet(After(x)) /\ Cardinality(After(x)) \in Nat /\ Cardinality(After(x)) < keep
        BY <1>4, <1>8
      <3>5. x \notin After(x)
        BY <1>3, <1>8 DEF After
      <3>6. /\ IsFiniteSet(After(x) \cup {x})
            /\ Cardinality(After(x) \cup {x}) = Cardinality(After(x)) + 1
        BY <3>4, <3>5, FS_AddElement
      <3>7. IsFiniteSet(Images(p)) /\ Cardinality(Images(p)) <= Cardinality(After(x) \cup {x})
        BY <3>3, <3>6, FS_Subset
      <3>8. Cardinality(Images(p)) \in Nat
        BY <3>7, FS_CardinalityType
      <3> QED BY <3>4, <3>6, <3>7, <3>8
    <2> QED BY <2>1, <2>2
  <1> QED BY <1>7, <1>9 DEF p
-----------------------------------------------------------------------------
(* The j-th message is a result of the i-th, and only results are between. *)
ResultOf(ms, i, j) ==
    /\ j \in RunAfter(ms, i) /\ j - i <= Len(ms[i].calls)
    /\ ms[j].id = ms[i].calls[j - i]

(* Every result is one of the results that a truncation has left at the    *)
(* start, or follows the message that made its call, in the order of the   *)
(* calls; the last of them may be missing.                                 *)
Tidy(ms) ==
    \A j \in DOMAIN ms : IsTool(ms[j]) =>
        /\ ms[j].calls = <<>>
        /\ j \in RunAfter(ms, 0) \/ \E i \in 1..(j - 1) : ResultOf(ms, i, j)

(* A message with calls and the results of all but the last, which are ids. *)
Run(c, ids) ==
    /\ c # <<>> /\ ~IsTool(c[1])
    /\ Len(c[1].calls) = (Len(c) - 1) + Len(ids)
    /\ \A j \in 2..Len(c) :
          IsTool(c[j]) /\ c[j].calls = <<>> /\ c[j].id = c[1].calls[j - 1]
    /\ \A i \in 1..Len(ids) : c[1].calls[(Len(c) - 1) + i] = ids[i]

LEMMA TidyAppend ==
    ASSUME NEW Ids, NEW a \in Seq(Messages(Ids)), NEW m \in Messages(Ids), Tidy(a), ~IsTool(m)
    PROVE  Tidy(Append(a, m))
  <1> DEFINE w == Append(a, m)
  <1>1. /\ Len(a) \in Nat /\ Len(w) = Len(a) + 1 /\ DOMAIN w = 1..(Len(a) + 1)
        /\ DOMAIN a = 1..Len(a)
        /\ \A k \in 1..Len(a) : w[k] = a[k]
        /\ w[Len(a) + 1] = m
    BY AppendProperties, LenProperties
  <1> HIDE DEF w
  <1>2. \A i \in 0..Len(a), j \in 1..Len(a) : j \in RunAfter(a, i) => j \in RunAfter(w, i)
    BY <1>1 DEF RunAfter
  <1>3. SUFFICES ASSUME NEW j \in 1..Len(a), IsTool(w[j])
                 PROVE  /\ w[j].calls = <<>>
                        /\ j \in RunAfter(w, 0) \/ \E i \in 1..(j - 1) : ResultOf(w, i, j)
    BY <1>1 DEF Tidy, w
  <1>4. /\ a[j].calls = <<>> /\ w[j] = a[j]
        /\ j \in RunAfter(a, 0) \/ \E i \in 1..(j - 1) : ResultOf(a, i, j)
    BY <1>1, <1>3 DEF Tidy
  <1>5. ASSUME NEW i \in 1..(j - 1), ResultOf(a, i, j)
        PROVE  ResultOf(w, i, j)
    <2>1. i \in 0..Len(a) /\ i \in 1..Len(a)
      BY <1>1
    <2> QED BY <1>1, <1>2, <1>5, <2>1 DEF ResultOf
  <1>6. 0 \in 0..Len(a)
    BY <1>1
  <1> QED BY <1>2, <1>4, <1>5, <1>6

LEMMA TidyRun ==
    ASSUME NEW Ids, NEW a \in Seq(Messages(Ids)), NEW c \in Seq(Messages(Ids)), NEW ids,
           Len(ids) \in Nat, Tidy(a), Run(c, ids)
    PROVE  Tidy(a \o c)
  <1> DEFINE w == a \o c
             n == Len(a)
  <1>1. /\ n \in Nat /\ Len(c) \in Nat /\ Len(w) = n + Len(c) /\ DOMAIN w = 1..(n + Len(c))
        /\ DOMAIN a = 1..n /\ DOMAIN c = 1..Len(c)
        /\ \A k \in 1..n : w[k] = a[k]
        /\ \A k \in 1..Len(c) : w[n + k] = c[k]
    BY ConcatProperties, LenProperties
  <1> HIDE DEF w, n
  <1>2. \A i \in 0..n, j \in 1..n : j \in RunAfter(a, i) => j \in RunAfter(w, i)
    BY <1>1 DEF RunAfter, n
  <1>3. ASSUME NEW j \in 1..n, IsTool(w[j])
        PROVE  /\ w[j].calls = <<>>
               /\ j \in RunAfter(w, 0) \/ \E i \in 1..(j - 1) : ResultOf(w, i, j)
    <2>1. /\ a[j].calls = <<>> /\ w[j] = a[j]
          /\ j \in RunAfter(a, 0) \/ \E i \in 1..(j - 1) : ResultOf(a, i, j)
      BY <1>1, <1>3 DEF Tidy
    <2>2. ASSUME NEW i \in 1..(j - 1), ResultOf(a, i, j)
          PROVE  ResultOf(w, i, j)
      <3>1. i \in 0..n /\ i \in 1..n
        BY <1>1
      <3> QED BY <1>1, <1>2, <2>2, <3>1 DEF ResultOf
    <2>3. 0 \in 0..n
      BY <1>1
    <2> QED BY <1>2, <2>1, <2>2, <2>3
  <1>4. ASSUME NEW k \in 1..Len(c), IsTool(w[n + k])
        PROVE  /\ w[n + k].calls = <<>>
               /\ \E i \in 1..((n + k) - 1) : ResultOf(w, i, n + k)
    <2>1. k \in 2..Len(c) /\ w[n + k] = c[k] /\ w[n + 1] = c[1] /\ n + 1 \in 1..((n + k) - 1)
      BY <1>1, <1>4 DEF Run
    <2>2. /\ IsTool(c[k]) /\ c[k].calls = <<>> /\ c[k].id = c[1].calls[k - 1]
          /\ Len(c[1].calls) = (Len(c) - 1) + Len(ids)
      BY <2>1 DEF Run
    <2>3. (n + k) - (n + 1) = k - 1 /\ k - 1 <= Len(c[1].calls)
      BY <1>1, <2>1, <2>2
    <2>4. n + k \in RunAfter(w, n + 1)
      <3>1. n + k \in (n + 1 + 1)..Len(w)
        BY <1>1, <2>1
      <3>2. ASSUME NEW l \in (n + 1 + 1)..(n + k) PROVE IsTool(w[l])
        <4>1. l - n \in 2..Len(c) /\ l - n \in 1..Len(c) /\ n + (l - n) = l
          BY <1>1, <2>1
        <4>2. w[l] = c[l - n]
          BY <4>1, <1>1
        <4> QED BY <4>1, <4>2 DEF Run
      <3> QED BY <3>1, <3>2 DEF RunAfter
    <2>5. ResultOf(w, n + 1, n + k)
      BY <2>1, <2>2, <2>3, <2>4 DEF ResultOf
    <2> QED BY <2>1, <2>2, <2>5
  <1>5. \A j \in DOMAIN w : j \in 1..n \/ \E k \in 1..Len(c) : j = n + k
    <2>1. ASSUME NEW j \in DOMAIN w, j \notin 1..n PROVE j - n \in 1..Len(c) /\ j = n + (j - n)
      BY <1>1, <2>1
    <2> QED BY <2>1
  <1>6. Tidy(w)
    BY <1>3, <1>4, <1>5 DEF Tidy
  <1> QED BY <1>6 DEF w

LEMMA RunStep ==
    ASSUME NEW Ids, NEW c \in Seq(Messages(Ids)), NEW ids \in Seq(Ids), ids # <<>>, Run(c, ids),
           Result(ids[1]) \in Messages(Ids)
    PROVE  Run(Append(c, Result(ids[1])), Tail(ids))
  <1> DEFINE w == Append(c, Result(ids[1]))
             t == Tail(ids)
  <1>1. /\ Len(c) \in Nat /\ Len(w) = Len(c) + 1 /\ Len(c) # 0
        /\ \A k \in 1..Len(c) : w[k] = c[k]
        /\ w[Len(c) + 1] = Result(ids[1]) /\ w # <<>>
    BY AppendProperties, LenProperties, EmptySeq DEF Run
  <1>2. /\ Len(ids) \in Nat /\ Len(ids) # 0 /\ Len(t) = Len(ids) - 1
        /\ \A i \in 1..Len(t) : t[i] = ids[i + 1]
    BY HeadTailProperties, LenProperties, EmptySeq
  <1> HIDE DEF w, t
  <1>3. /\ w[1] = c[1] /\ Len(c[1].calls) = (Len(c) - 1) + Len(ids)
        /\ (Len(c) - 1) + Len(ids) = (Len(w) - 1) + Len(t)
    BY <1>1, <1>2 DEF Run
  <1>4. ASSUME NEW j \in 2..Len(w)
        PROVE  IsTool(w[j]) /\ w[j].calls = <<>> /\ w[j].id = w[1].calls[j - 1]
    <2>1. CASE j = Len(c) + 1
      <3>1. 1 \in 1..Len(ids) /\ (Len(c) - 1) + 1 = j - 1
        BY <1>1, <1>2, <2>1
      <3>2. c[1].calls[j - 1] = ids[1]
        BY <3>1 DEF Run
      <3> QED BY <1>1, <1>3, <2>1, <3>2 DEF Result, Message, IsTool
    <2>2. CASE j # Len(c) + 1
      <3>1. j \in 2..Len(c) /\ j \in 1..Len(c)
        BY <1>1, <2>2
      <3> QED BY <1>1, <1>3, <3>1 DEF Run
    <2> QED BY <2>1, <2>2
  <1>5. ASSUME NEW i \in 1..Len(t)
        PROVE  w[1].calls[(Len(w) - 1) + i] = t[i]
    <2>1. i + 1 \in 1..Len(ids) /\ (Len(w) - 1) + i = (Len(c) - 1) + (i + 1)
      BY <1>1, <1>2
    <2> QED BY <1>2, <1>3, <2>1 DEF Run
  <1>6. Run(w, t)
    BY <1>1, <1>3, <1>4, <1>5 DEF Run
  <1> QED BY <1>6 DEF w, t

LEMMA RunDone ==
    ASSUME NEW Ids, NEW c \in Seq(Messages(Ids)), NEW ids, Len(ids) = 0, Run(c, ids)
    PROVE  WellFormed(c)
  <1> DEFINE n == Len(c) - 1
  <1>1. Len(c) \in Nat /\ Len(c) # 0 /\ DOMAIN c = 1..Len(c)
    BY LenProperties, EmptySeq DEF Run
  <1>2. n \in Nat /\ Len(c) = n + 1 /\ Len(c[1].calls) = n
    <2>1. Len(c[1].calls) = (Len(c) - 1) + Len(ids)
      BY DEF Run
    <2>2. \A x \in Nat : \A z : z = 0 => (x - 1) + z = x - 1
      OBVIOUS
    <2>3. Len(c[1].calls) = Len(c) - 1
      BY <1>1, <2>1, <2>2
    <2>4. Len(c) - 1 \in Nat /\ Len(c) = (Len(c) - 1) + 1
      BY <1>1
    <2> QED BY <2>3, <2>4
  <1>3. \A j \in 2..(n + 1) : IsTool(c[j]) /\ c[j].calls = <<>> /\ c[j].id = c[1].calls[j - 1]
    BY <1>2 DEF Run
  <1> HIDE DEF n
  <1>4. {c[k].id : k \in 2..(n + 1)} = {c[1].calls[k] : k \in 1..n}
    <2>1. ASSUME NEW k \in 2..(n + 1) PROVE c[k].id \in {c[1].calls[l] : l \in 1..n}
      <3>1. k - 1 \in 1..n
        BY <1>2
      <3> QED BY <3>1, <1>3
    <2>2. ASSUME NEW l \in 1..n PROVE c[1].calls[l] \in {c[k].id : k \in 2..(n + 1)}
      <3>1. l + 1 \in 2..(n + 1) /\ (l + 1) - 1 = l
        BY <1>2
      <3>2. c[l + 1].id = c[1].calls[l]
        BY <3>1, <1>3
      <3> QED BY <3>1, <3>2
    <2> QED BY <2>1, <2>2
  <1>5. Answered(c, 1)
    <2>1. (1 + 1)..(1 + n) = 2..(n + 1) /\ 1 + n <= Len(c)
      BY <1>2
    <2>2. {c[k].id : k \in (1 + 1)..(1 + n)} = {c[1].calls[k] : k \in 1..n}
      BY <2>1, <1>4, Zenon
    <2>3. \A k \in (1 + 1)..(1 + n) : IsTool(c[k])
      BY <2>1, <1>3, Zenon
    <2> QED BY <1>2, <2>1, <2>2, <2>3, Zenon DEF Answered
  <1>6. ASSUME NEW j \in 2..(n + 1) PROVE Owned(c, j)
    <2>1. 1 \in 1..(j - 1) /\ j - 1 <= Len(c[1].calls)
      BY <1>2
    <2> QED BY <2>1 DEF Owned
  <1>7. \A j \in DOMAIN c : j = 1 \/ j \in 2..(n + 1)
    BY <1>1, <1>2
  <1>8. ~IsTool(c[1])
    BY DEF Run
  <1> QED BY <1>3, <1>5, <1>6, <1>7, <1>8 DEF WellFormed

LEMMA TidySuffix ==
    ASSUME NEW Ids, NEW a \in Seq(Messages(Ids)), NEW p \in Nat, p < Len(a), Tidy(a)
    PROVE  Tidy(SubSeq(a, p + 1, Len(a)))
  <1> DEFINE w == SubSeq(a, p + 1, Len(a))
  <1>0. Len(a) \in Nat /\ DOMAIN a = 1..Len(a)
    BY LenProperties
  <1>1. /\ Len(w) = Len(a) - p /\ DOMAIN w = 1..(Len(a) - p)
        /\ \A k \in 1..(Len(a) - p) : w[k] = a[p + k]
    <2>1. w \in Seq(Messages(Ids)) /\ Len(w) = Len(a) - p
          /\ \A k \in 1..(Len(a) - p) : w[k] = a[p + 1 + k - 1]
      <3>1. p + 1 \in 1..Len(a) + 1 /\ Len(a) - (p + 1) + 1 = Len(a) - p /\ ~(p + 1 > Len(a))
            /\ Len(a) \in (p + 1) - 1..Len(a)
        BY <1>0
      <3>2. \A i \in (p + 1)..Len(a) : a[i] \in Messages(Ids)
        BY <1>0, ElementOfSeq
      <3>3. p + 1 \in Int /\ Len(a) \in Int /\ p + 1 <= Len(a)
        BY <1>0
      <3>4. /\ w \in Seq(Messages(Ids))
            /\ Len(w) = IF p + 1 <= Len(a) THEN Len(a) - (p + 1) + 1 ELSE 0
            /\ \A i \in 1..(Len(a) - (p + 1) + 1) : w[i] = a[p + 1 + i - 1]
        BY <3>2, <3>3, SubSeqProperties
      <3> HIDE DEF w
      <3> QED BY <3>1, <3>3, <3>4
    <2>2. DOMAIN w = 1..(Len(a) - p)
      BY <2>1, LenProperties
    <2> HIDE DEF w
    <2>3. \A k \in 1..(Len(a) - p) : p + 1 + k - 1 = p + k
      BY <1>0
    <2> QED BY <2>1, <2>2, <2>3
  <1> HIDE DEF w
  <1>2. SUFFICES ASSUME NEW j \in 1..(Len(a) - p), IsTool(w[j])
                 PROVE  /\ w[j].calls = <<>>
                        /\ j \in RunAfter(w, 0) \/ \E i \in 1..(j - 1) : ResultOf(w, i, j)
    BY <1>1 DEF Tidy, w
  <1>3. p + j \in DOMAIN a /\ w[j] = a[p + j]
    BY <1>0, <1>1
  <1>4. /\ a[p + j].calls = <<>>
        /\ p + j \in RunAfter(a, 0) \/ \E i \in 1..((p + j) - 1) : ResultOf(a, i, p + j)
    BY <1>2, <1>3 DEF Tidy
  <1>5. ASSUME \A l \in (p + 1)..(p + j) : IsTool(a[l])
        PROVE  j \in RunAfter(w, 0)
    <2>1. \A l \in 1..j : p + l \in (p + 1)..(p + j) /\ l \in 1..(Len(a) - p)
      BY <1>0
    <2>2. \A l \in 1..j : IsTool(w[l])
      BY <2>1, <1>1, <1>5
    <2>3. j \in (0 + 1)..Len(w) /\ (0 + 1)..j = 1..j
      BY <1>0, <1>1
    <2> QED BY <2>2, <2>3 DEF RunAfter
  <1>6. CASE p + j \in RunAfter(a, 0)
    <2>1. \A l \in (p + 1)..(p + j) : IsTool(a[l])
      <3>1. \A l \in 1..(p + j) : IsTool(a[l])
        BY <1>6 DEF RunAfter
      <3> QED BY <3>1, <1>0
    <2> QED BY <2>1, <1>5, <1>3, <1>4
  <1>7. ASSUME NEW i \in 1..((p + j) - 1), ResultOf(a, i, p + j)
        PROVE  j \in RunAfter(w, 0) \/ \E k \in 1..(j - 1) : ResultOf(w, k, j)
    <2>1. \A l \in (i + 1)..(p + j) : IsTool(a[l])
      BY <1>7 DEF ResultOf, RunAfter
    <2>2. CASE i <= p
      <3>1. \A l \in (p + 1)..(p + j) : IsTool(a[l])
        BY <2>1, <2>2, <1>0
      <3> QED BY <3>1, <1>5
    <2>3. CASE ~(i <= p)
      <3>1. i - p \in 1..(j - 1) /\ i - p \in 1..(Len(a) - p) /\ p + (i - p) = i
            /\ j - (i - p) = (p + j) - i
        BY <2>3, <1>0
      <3>2. w[i - p] = a[i]
        BY <3>1, <1>1
      <3>3. j \in RunAfter(w, i - p)
        <4>1. ASSUME NEW l \in ((i - p) + 1)..j PROVE IsTool(w[l])
          <5>1. p + l \in (i + 1)..(p + j) /\ l \in 1..(Len(a) - p)
            BY <3>1, <1>0
          <5> QED BY <5>1, <2>1, <1>1
        <4>2. j \in ((i - p) + 1)..Len(w)
          BY <3>1, <1>1, <1>0
        <4> QED BY <4>1, <4>2 DEF RunAfter
      <3>4. ResultOf(w, i - p, j)
        BY <1>3, <1>7, <3>1, <3>2, <3>3 DEF ResultOf
      <3> QED BY <3>1, <3>4
    <2> QED BY <2>2, <2>3
  <1> QED BY <1>3, <1>4, <1>6, <1>7

(* A message and all results that follow it are a run, unless they are too *)
(* few.                                                                    *)
LEMMA GroupWellFormed ==
    ASSUME NEW Ids, NEW ms \in Seq(Messages(Ids)), Tidy(ms), NEW o \in Nat, NEW e \in Nat,
           1 <= o, o <= e, e <= Len(ms), ~IsTool(ms[o]), ~Short(ms, o),
           \A l \in (o + 1)..e : IsTool(ms[l]),
           e < Len(ms) => ~IsTool(ms[e + 1])
    PROVE  WellFormed(SubSeq(ms, o, e))
  <1> DEFINE w == SubSeq(ms, o, e)
             n == Len(ms[o].calls)
  <1>0. Len(ms) \in Nat /\ DOMAIN ms = 1..Len(ms) /\ o \in 1..Len(ms)
    BY LenProperties
  <1>1. n \in Nat
    <2>1. ms[o] \in Messages(Ids)
      BY ElementOfSeq
    <2> QED BY <2>1, LenProperties DEF Messages
  <1>2. /\ w \in Seq(Messages(Ids)) /\ Len(w) = e - o + 1
        /\ \A k \in 1..(e - o + 1) : w[k] = ms[o + k - 1]
    <2>1. \A i \in o..e : ms[i] \in Messages(Ids)
      BY <1>0, ElementOfSeq
    <2>2. o \in Int /\ e \in Int
      BY <1>0
    <2>3. /\ w \in Seq(Messages(Ids))
          /\ Len(w) = IF o <= e THEN e - o + 1 ELSE 0
          /\ \A i \in 1..(e - o + 1) : w[i] = ms[o + i - 1]
      BY <2>1, <2>2, SubSeqProperties
    <2> HIDE DEF w
    <2> QED BY <2>3, <1>0
  <1> HIDE DEF w, n
  <1>3. RunAfter(ms, o) = (o + 1)..e
    <2>1. ASSUME NEW j \in (o + 1)..e PROVE j \in RunAfter(ms, o)
      BY <1>0 DEF RunAfter
    <2>2. ASSUME NEW j \in RunAfter(ms, o) PROVE j \in (o + 1)..e
      <3>1. j \in (o + 1)..Len(ms) /\ \A l \in (o + 1)..j : IsTool(ms[l])
        BY DEF RunAfter
      <3>2. ASSUME j > e PROVE FALSE
        <4>1. e + 1 \in (o + 1)..j /\ e < Len(ms)
          BY <3>1, <3>2, <1>0
        <4> QED BY <4>1, <3>1
      <3> QED BY <3>1, <3>2, <1>0
    <2> QED BY <2>1, <2>2
  <1>4. n <= e - o
    <2>1. Cardinality((o + 1)..e) = IF o + 1 > e THEN 0 ELSE e - (o + 1) + 1
      BY <1>0, FS_Interval
    <2>2. Cardinality(RunAfter(ms, o)) = e - o
      BY <2>1, <1>3, <1>0
    <2> QED BY <2>2, <1>0, <1>1 DEF Short, n
  <1>5. ASSUME NEW j \in (o + 1)..e
        PROVE  /\ ms[j].calls = <<>> /\ j - o <= n /\ ms[j].id = ms[o].calls[j - o]
    <2>1. j \in DOMAIN ms /\ IsTool(ms[j])
      BY <1>0
    <2>2. /\ ms[j].calls = <<>>
          /\ j \in RunAfter(ms, 0) \/ \E i \in 1..(j - 1) : ResultOf(ms, i, j)
      BY <2>1 DEF Tidy
    <2>3. j \notin RunAfter(ms, 0)
      <3>1. o \in (0 + 1)..j
        BY <1>0
      <3> QED BY <3>1 DEF RunAfter
    <2>4. PICK i \in 1..(j - 1) : ResultOf(ms, i, j)
      BY <2>2, <2>3
    <2>5. j - i <= Len(ms[i].calls) /\ \A l \in (i + 1)..j : IsTool(ms[l])
      BY <2>4 DEF ResultOf, RunAfter
    <2>6. ~(i < o)
      <3>1. ASSUME i < o PROVE o \in (i + 1)..j
        BY <3>1, <1>0
      <3> QED BY <3>1, <2>5
    <2>7. ~(i > o)
      <3> SUFFICES ASSUME i > o PROVE FALSE
        OBVIOUS
      <3>1. i \in (o + 1)..e /\ i \in DOMAIN ms
        BY <1>0
      <3>2. ms[i].calls = <<>>
        BY <3>1 DEF Tidy
      <3>3. Len(ms[i].calls) = 0 /\ j - i >= 1
        BY <3>2, EmptySeq, <1>0
      <3> QED BY <3>3, <2>5, <1>0
    <2>8. i = o
      BY <2>6, <2>7, <1>0
    <2> QED BY <2>2, <2>4, <2>5, <2>8 DEF ResultOf, n
  <1>6. n = e - o
    <2>1. CASE e = o
      BY <2>1, <1>4, <1>1, <1>0
    <2>2. CASE e # o
      <3>1. e \in (o + 1)..e
        BY <2>2, <1>0
      <3>2. e - o <= n
        BY <3>1, <1>5
      <3> QED BY <3>2, <1>4, <1>1, <1>0
    <2> QED BY <2>1, <2>2
  <1>7. Run(w, <<>>)
    <2>1. Len(<<>>) = 0
      BY EmptySeq
    <2>2. w[1] = ms[o]
      <3>1. 1 \in 1..(e - o + 1) /\ o + 1 - 1 = o
        BY <1>0
      <3> QED BY <3>1, <1>2
    <2>3. w # <<>>
      <3>1. Len(w) # 0
        BY <1>0, <1>2
      <3> QED BY <3>1, <2>1
    <2>4. Len(w[1].calls) = (Len(w) - 1) + Len(<<>>)
      <3>1. Len(w[1].calls) = n /\ Len(w) = n + 1
        BY <1>0, <1>2, <1>6, <2>2 DEF n
      <3> QED BY <3>1, <2>1, <1>1
    <2>5. ASSUME NEW j \in 2..Len(w)
          PROVE  IsTool(w[j]) /\ w[j].calls = <<>> /\ w[j].id = w[1].calls[j - 1]
      <3>1. o + j - 1 \in (o + 1)..e /\ j \in 1..(e - o + 1) /\ (o + j - 1) - o = j - 1
        BY <1>0, <1>2
      <3>2. w[j] = ms[o + j - 1]
        BY <3>1, <1>2
      <3> QED BY <3>1, <3>2, <2>2, <1>5
    <2>6. \A i \in 1..Len(<<>>) : w[1].calls[(Len(w) - 1) + i] = <<>>[i]
      BY <2>1
    <2>7. ~IsTool(w[1])
      BY <2>2
    <2> QED BY <2>3, <2>4, <2>5, <2>6, <2>7 DEF Run
  <1>8. Len(<<>>) = 0
    BY EmptySeq
  <1>9. WellFormed(w)
    BY <1>2, <1>7, <1>8, RunDone
  <1> QED BY <1>9 DEF w

LEMMA SingletonIs ==
    ASSUME NEW Ids, NEW m \in Messages(Ids), ~IsTool(m)
    PROVE  /\ <<m>> \in Seq(Messages(Ids)) /\ Len(<<m>>) = 1 /\ <<m>>[1] = m
           /\ m.calls = <<>> => WellFormed(<<m>>)
  <1>1. <<m>> \in Seq(Messages(Ids)) /\ Len(<<m>>) = 1 /\ <<m>>[1] = m /\ DOMAIN <<m>> = 1..1
    OBVIOUS
  <1>2. \A i \in DOMAIN <<m>> : i = 1
    BY <1>1
  <1> QED BY <1>1, <1>2 DEF WellFormed

LEMMA SubSeqOne ==
    ASSUME NEW S, NEW s \in Seq(S), NEW i \in 1..Len(s)
    PROVE  SubSeq(s, i, i) = <<s[i]>>
  <1>1. Len(s) \in Nat /\ i \in Nat /\ s[i] \in S
    BY LenProperties, ElementOfSeq
  <1>2. /\ SubSeq(s, i, i) \in Seq(S)
        /\ Len(SubSeq(s, i, i)) = 1 /\ SubSeq(s, i, i)[1] = s[i]
    <2>1. \A k \in i..i : s[k] \in S
      BY <1>1
    <2>2. /\ SubSeq(s, i, i) \in Seq(S)
          /\ Len(SubSeq(s, i, i)) = IF i <= i THEN i - i + 1 ELSE 0
          /\ \A k \in 1..(i - i + 1) : SubSeq(s, i, i)[k] = s[i + k - 1]
      BY <1>1, <2>1, SubSeqProperties
    <2>3. 1 \in 1..(i - i + 1) /\ i + 1 - 1 = i /\ i - i + 1 = 1 /\ i <= i
      BY <1>1
    <2> QED BY <2>2, <2>3
  <1>3. <<s[i]>> \in Seq(S) /\ Len(<<s[i]>>) = 1 /\ <<s[i]>>[1] = s[i]
    BY <1>1
  <1>4. \A t \in Seq(S), u \in Seq(S) : Len(t) = 1 /\ Len(u) = 1 /\ t[1] = u[1] => t = u
    BY SeqEqual
  <1> QED BY <1>2, <1>3, <1>4, Zenon

LEMMA ConcatThree == \A S : \A x, y, z \in Seq(S) : (x \o y) \o z = x \o (y \o z)
  <1> SUFFICES ASSUME NEW S, NEW x \in Seq(S), NEW y \in Seq(S), NEW z \in Seq(S)
               PROVE  (x \o y) \o z = x \o (y \o z)
    OBVIOUS
  <1> QED BY ConcatAssociative

(* What sanitize_history returns is made of what it is given, some of it   *)
(* without its calls.                                                      *)
LEMMA SanitizedWithin ==
    ASSUME NEW M, NEW ms \in Seq(M), \A m \in M : [m EXCEPT !.calls = <<>>] \in M
    PROVE  sanitize_history(ms) \in Seq(M)
  <1> DEFINE n == Len(ms)
             dropped == RunAfter(ms, 0) \cup
                   UNION {RunAfter(ms, i) : i \in {j \in DOMAIN ms : Short(ms, j)}}
             piece(i) == IF i \in dropped THEN <<>>
                         ELSE IF Short(ms, i) THEN <<[ms[i] EXCEPT !.calls = <<>>]>>
                         ELSE <<ms[i]>>
             pieces == [i \in 1..n |-> piece(i)]
             W == [i \in 0..n |-> Seq(M)]
  <1>1. n \in Nat /\ DOMAIN ms = 1..n /\ \A i \in 1..n : ms[i] \in M
    BY LenProperties, ElementOfSeq
  <1>2. ASSUME NEW i \in 1..n PROVE [ms[i] EXCEPT !.calls = <<>>] \in M
    BY <1>1
  <1>3. ASSUME NEW i \in 1..n PROVE piece(i) \in Seq(M)
    BY <1>1, <1>2
  <1>4. pieces \in Seq(Seq(M)) /\ Len(pieces) = n
    <2>1. pieces \in [1..n -> Seq(M)]
      BY <1>3
    <2> HIDE DEF pieces, n
    <2> QED BY <2>1, <1>1, IsSequence
  <1> HIDE DEF piece, pieces
  <1>5. <<>> \in W[0] /\ \A i \in 0..n : W[i] = Seq(M)
    BY <1>1, EmptySeq
  <1>6. \A i \in 0..Len(pieces) : W[i] \subseteq Seq(M)
    BY <1>4, <1>5
  <1>7. ASSUME NEW i \in 1..Len(pieces), NEW a \in W[i - 1] PROVE a \o pieces[i] \in W[i]
    <2>1. i \in 0..n /\ i - 1 \in 0..n
      BY <1>1, <1>4
    <2>2. a \in Seq(M) /\ pieces[i] \in Seq(M)
      BY <2>1, <1>4, <1>5, ElementOfSeq
    <2>3. a \o pieces[i] \in Seq(M)
      BY <2>2, ConcatProperties
    <2> QED BY <2>1, <2>3, <1>5
  <1>8. FlattenSeq(pieces) \in W[Len(pieces)]
    <2> HIDE DEF W, n
    <2> QED BY <1>4, <1>5, <1>6, <1>7, Flattened
  <1>9. FlattenSeq(pieces) \in Seq(M)
    <2>1. n \in 0..n
      BY <1>1
    <2> QED BY <2>1, <1>4, <1>5, <1>8
  <1>10. sanitize_history(ms) = FlattenSeq(pieces)
    BY <1>1, Zenon DEF sanitize_history, pieces, piece
  <1> QED BY <1>9, <1>10

LEMMA SanitizedType ==
    ASSUME NEW Ids, NEW ms \in Seq(Messages(Ids))
    PROVE  sanitize_history(ms) \in Seq(Messages(Ids))
  <1>1. <<>> \in Seq(Ids)
    BY EmptySeq
  <1>2. \A m \in Messages(Ids) : [m EXCEPT !.calls = <<>>] \in Messages(Ids)
    BY <1>1 DEF Messages
  <1> QED BY <1>2, SanitizedWithin

(* What sanitize_history returns is accepted by the API if the history was *)
(* tidy: results missing at the end of a turn that has panicked are made   *)
(* good, results left by a truncation are dropped.                         *)
THEOREM SanitizedIsAccepted ==
    ASSUME NEW Ids, NEW ms \in Seq(Messages(Ids)), Tidy(ms)
    PROVE  sanitize_history(ms) \in Seq(Messages(Ids)) /\ WellFormed(sanitize_history(ms))
  <1>0. \A x, y, z \in Seq(Messages(Ids)) : (x \o y) \o z = x \o (y \o z)
    BY ConcatThree
  <1> DEFINE M == Messages(Ids)
             n == Len(ms)
             dropped == RunAfter(ms, 0) \cup
                   UNION {RunAfter(ms, i) : i \in {j \in DOMAIN ms : Short(ms, j)}}
             piece(i) == IF i \in dropped THEN <<>>
                         ELSE IF Short(ms, i) THEN <<[ms[i] EXCEPT !.calls = <<>>]>>
                         ELSE <<ms[i]>>
             pieces == [i \in 1..n |-> piece(i)]
             Closed(i) == {a \in Seq(M) : WellFormed(a) /\ RunAfter(ms, i) \subseteq dropped}
             Open(i) == {a \in Seq(M) : \E h \in 1..i, b \in Seq(M) :
                            /\ WellFormed(b) /\ a = b \o SubSeq(ms, h, i)
                            /\ ~IsTool(ms[h]) /\ ~Short(ms, h)
                            /\ \A l \in (h + 1)..i : IsTool(ms[l])}
             W == [i \in 0..n |-> Closed(i) \cup Open(i)]
  <1>1. n \in Nat /\ DOMAIN ms = 1..n /\ \A i \in 1..n : ms[i] \in M
    BY LenProperties, ElementOfSeq
  <1>2. ASSUME NEW i \in 1..n
        PROVE  /\ [ms[i] EXCEPT !.calls = <<>>] \in M
               /\ ~IsTool(ms[i]) => ~IsTool([ms[i] EXCEPT !.calls = <<>>])
               /\ [ms[i] EXCEPT !.calls = <<>>].calls = <<>>
    <2>1. ms[i] \in M /\ <<>> \in Seq(Ids)
      BY <1>1, EmptySeq
    <2> QED BY <2>1 DEF Messages, IsTool
  <1>3. ASSUME NEW i \in 1..n
        PROVE  piece(i) \in Seq(M)
    BY <1>1, <1>2
  <1>4. pieces \in Seq(Seq(M)) /\ Len(pieces) = n
    <2>1. pieces \in [1..n -> Seq(M)]
      BY <1>3
    <2> HIDE DEF pieces, n, M
    <2> QED BY <2>1, <1>1, IsSequence
  <1>5. ASSUME NEW i \in 1..n, IsTool(ms[i])
        PROVE  ms[i].calls = <<>> /\ ~Short(ms, i)
    <2>1. ms[i].calls = <<>>
      BY <1>1, <1>5 DEF Tidy
    <2>2. IsFiniteSet(RunAfter(ms, i))
      <3>1. RunAfter(ms, i) \in SUBSET (1..n) /\ IsFiniteSet(1..n)
        BY <1>1, FS_Interval DEF RunAfter
      <3> QED BY <3>1, FS_Subset
    <2>3. Cardinality(RunAfter(ms, i)) \in Nat
      BY <2>2, FS_CardinalityType
    <2>4. Len(ms[i].calls) = 0
      BY <2>1, EmptySeq
    <2> QED BY <2>1, <2>3, <2>4 DEF Short
  <1>6. ASSUME NEW i \in 1..n, ~IsTool(ms[i])
        PROVE  i \notin dropped
    <2>1. ASSUME NEW h, i \in RunAfter(ms, h) PROVE FALSE
      <3>1. i \in (h + 1)..Len(ms) /\ \A l \in (h + 1)..i : IsTool(ms[l])
        BY <2>1 DEF RunAfter
      <3> QED BY <3>1, <1>6
    <2> QED BY <2>1
  <1>7. ASSUME NEW i \in 1..n, NEW h \in 1..i, ~IsTool(ms[h]), ~Short(ms, h), h # i,
               \A l \in (h + 1)..i : IsTool(ms[l])
        PROVE  i \notin dropped
    <2>1. i \notin RunAfter(ms, 0)
      <3>1. h \in (0 + 1)..i
        BY <1>1
      <3> QED BY <3>1, <1>7 DEF RunAfter
    <2>2. ASSUME NEW k \in 1..n, Short(ms, k), i \in RunAfter(ms, k)
          PROVE  FALSE
      <3>1. k < i /\ \A l \in (k + 1)..i : IsTool(ms[l])
        BY <2>2, <1>1 DEF RunAfter
      <3>2. CASE k < h
        <4>1. h \in (k + 1)..i
          BY <3>2, <1>1
        <4> QED BY <4>1, <3>1, <1>7
      <3>3. CASE k = h
        BY <3>3, <2>2, <1>7
      <3>4. CASE k > h
        <4>1. k \in (h + 1)..i
          BY <3>4, <3>1, <1>1
        <4>2. IsTool(ms[k])
          BY <4>1, <1>7
        <4> QED BY <4>2, <2>2, <1>5
      <3> QED BY <3>2, <3>3, <3>4, <1>1
    <2> QED BY <2>1, <2>2, <1>1
  <1>8. <<>> \in W[0]
    <2>1. <<>> \in Seq(M) /\ DOMAIN <<>> = {}
      BY EmptySeq
    <2>2. <<>> \in Closed(0)
      BY <2>1 DEF WellFormed
    <2>3. 0 \in 0..n
      BY <1>1
    <2> HIDE DEF Closed, Open
    <2> QED BY <2>2, <2>3
  <1>9. ASSUME NEW i \in 1..n, NEW a \in Seq(M), a \in Open(i - 1), ~IsTool(ms[i])
        PROVE  WellFormed(a)
    <2>1. PICK h \in 1..(i - 1), b \in Seq(M) :
             /\ WellFormed(b) /\ a = b \o SubSeq(ms, h, i - 1)
             /\ ~IsTool(ms[h]) /\ ~Short(ms, h)
             /\ \A l \in (h + 1)..(i - 1) : IsTool(ms[l])
      BY <1>9
    <2> DEFINE e == i - 1
    <2>2. e \in Nat /\ h \in Nat /\ 1 <= h /\ h <= e /\ e <= Len(ms) /\ e + 1 = i
      BY <1>1
    <2>3. WellFormed(SubSeq(ms, h, e))
      <3> HIDE DEF e
      <3> QED BY <2>1, <2>2, <1>9, GroupWellFormed DEF e
    <2>4. SubSeq(ms, h, e) \in Seq(M)
      <3>1. \A k \in h..e : ms[k] \in M
        BY <1>1, <2>2
      <3>2. h \in Int /\ e \in Int
        BY <2>2
      <3> HIDE DEF e, M
      <3> QED BY <3>1, <3>2, SubSeqProperties
    <2> QED BY <2>1, <2>3, <2>4, WellFormedConcat
  <1>10. ASSUME NEW i \in 1..n, NEW a \in Seq(M), WellFormed(a), ~IsTool(ms[i])
         PROVE  a \o piece(i) \in Closed(i) \cup Open(i)
    <2>1. i \notin dropped
      BY <1>10, <1>6
    <2>2. CASE Short(ms, i)
      <3> DEFINE p == <<[ms[i] EXCEPT !.calls = <<>>]>>
      <3>1. piece(i) = p
        BY <2>1, <2>2
      <3>2. p \in Seq(M) /\ WellFormed(p)
        BY <1>2, <1>10, SingletonIs
      <3>3. RunAfter(ms, i) \subseteq dropped
        BY <2>2, <1>1
      <3> HIDE DEF p, dropped
      <3>4. a \o p \in Seq(M) /\ WellFormed(a \o p)
        <4> HIDE DEF M
        <4>1. a \o p \in Seq(M)
          BY <3>2, ConcatProperties
        <4>2. WellFormed(a \o p)
          BY <3>2, <1>10, WellFormedConcat DEF M
        <4> QED BY <4>1, <4>2
      <3> QED BY <3>1, <3>3, <3>4
    <2>3. CASE ~Short(ms, i)
      <3>1. piece(i) = <<ms[i]>>
        BY <2>1, <2>3
      <3>2. <<ms[i]>> \in Seq(M)
        BY <1>1
      <3>3. a \o <<ms[i]>> \in Seq(M)
        BY <3>2, ConcatProperties
      <3>4. SubSeq(ms, i, i) = <<ms[i]>>
        BY <1>1, SubSeqOne
      <3>5. i \in 1..i /\ \A l \in (i + 1)..i : IsTool(ms[l])
        BY <1>1
      <3>6. a \o <<ms[i]>> \in Open(i)
        <4> HIDE DEF M
        <4> QED BY <3>3, <3>4, <3>5, <2>3, <1>10
      <3> QED BY <3>1, <3>6
    <2> QED BY <2>2, <2>3
  <1>11. ASSUME NEW i \in 1..n, NEW a \in Closed(i - 1), IsTool(ms[i])
         PROVE  a \o piece(i) \in Closed(i)
    <2>1. i \in RunAfter(ms, i - 1)
      BY <1>1, <1>11 DEF RunAfter
    <2>2. i \in dropped
      BY <2>1
    <2>3. piece(i) = <<>>
      BY <2>2
    <2>4. RunAfter(ms, i) \subseteq RunAfter(ms, i - 1)
      <3> SUFFICES ASSUME NEW j \in RunAfter(ms, i) PROVE j \in RunAfter(ms, i - 1)
        OBVIOUS
      <3>1. j \in (i + 1)..Len(ms) /\ \A l \in (i + 1)..j : IsTool(ms[l])
        BY DEF RunAfter
      <3>2. j \in ((i - 1) + 1)..Len(ms)
        BY <3>1, <1>1
      <3>3. ASSUME NEW l \in ((i - 1) + 1)..j PROVE IsTool(ms[l])
        <4>1. l = i \/ l \in (i + 1)..j
          BY <1>1, <3>1
        <4> QED BY <4>1, <3>1, <1>11
      <3> QED BY <3>2, <3>3 DEF RunAfter
    <2>5. a \in Seq(M) /\ WellFormed(a) /\ RunAfter(ms, i - 1) \subseteq dropped
      OBVIOUS
    <2>6. a \o <<>> = a
      BY <2>5, ConcatEmptySeq
    <2> HIDE DEF dropped
    <2> QED BY <2>3, <2>4, <2>5, <2>6
  <1>12. ASSUME NEW i \in 1..n, NEW a \in Open(i - 1), IsTool(ms[i])
         PROVE  a \o piece(i) \in Open(i)
    <2>1. PICK h \in 1..(i - 1), b \in Seq(M) :
             /\ WellFormed(b) /\ a = b \o SubSeq(ms, h, i - 1)
             /\ ~IsTool(ms[h]) /\ ~Short(ms, h)
             /\ \A l \in (h + 1)..(i - 1) : IsTool(ms[l])
      OBVIOUS
    <2>2. h \in 1..i /\ h # i /\ \A l \in (h + 1)..i : IsTool(ms[l])
      <3>1. ASSUME NEW l \in (h + 1)..i PROVE IsTool(ms[l])
        <4>1. l = i \/ l \in (h + 1)..(i - 1)
          BY <1>1
        <4> QED BY <4>1, <2>1, <1>12
      <3> QED BY <3>1, <1>1
    <2>3. i \notin dropped
      BY <2>1, <2>2, <1>7
    <2>4. piece(i) = <<ms[i]>>
      BY <2>3, <1>5, <1>12
    <2> DEFINE c == SubSeq(ms, h, i - 1)
    <2>5. c \in Seq(M) /\ <<ms[i]>> \in Seq(M)
      <3>1. \A k \in h..(i - 1) : ms[k] \in M
        BY <1>1
      <3>2. h \in Int /\ i - 1 \in Int
        BY <1>1
      <3>3. c \in Seq(M)
        <4> HIDE DEF M
        <4> QED BY <3>1, <3>2, SubSeqProperties
      <3> QED BY <3>3, <1>1
    <2>6. c \o <<ms[i]>> = SubSeq(ms, h, i)
      BY <1>1, <2>2
    <2> HIDE DEF c
    <2>7. (b \o c) \o <<ms[i]>> = b \o (c \o <<ms[i]>>)
      <3>1. \A x, y, z \in Seq(M) : (x \o y) \o z = x \o (y \o z)
        BY <1>0, Zenon
      <3>2. \A y, z \in Seq(M) : (b \o y) \o z = b \o (y \o z)
        BY <3>1, Zenon
      <3>3. \A z \in Seq(M) : (b \o c) \o z = b \o (c \o z)
        BY <2>5, <3>2, Zenon
      <3> QED BY <2>5, <3>3, Zenon
    <2>8. a \o <<ms[i]>> \in Seq(M)
      BY <2>5, ConcatProperties
    <2> QED BY <2>1, <2>2, <2>4, <2>6, <2>7, <2>8 DEF c
  <1>13. ASSUME NEW i \in 1..n, NEW a \in W[i - 1]
         PROVE  a \o pieces[i] \in W[i]
    <2>1. i - 1 \in 0..n /\ i \in 0..n
      BY <1>1
    <2>2. a \in Closed(i - 1) \/ a \in Open(i - 1)
      <3> HIDE DEF Closed, Open
      <3> QED BY <2>1
    <2>3. a \in Seq(M) /\ (a \in Closed(i - 1) => WellFormed(a))
      BY <2>2
    <2>4. pieces[i] = piece(i)
      OBVIOUS
    <2> HIDE DEF Closed, Open, piece, pieces
    <2>5. a \o piece(i) \in Closed(i) \cup Open(i)
      BY <2>2, <2>3, <1>9, <1>10, <1>11, <1>12
    <2> QED BY <2>1, <2>4, <2>5
  <1>14. FlattenSeq(pieces) \in W[Len(pieces)]
    <2>1. \A i \in 0..Len(pieces) : W[i] \subseteq Seq(M)
      BY <1>4
    <2>2. \A i \in 1..Len(pieces) : \A a \in W[i - 1] : a \o pieces[i] \in W[i]
      BY <1>4, <1>13
    <2> HIDE DEF W, pieces, M, n
    <2> QED BY <2>1, <2>2, <1>4, <1>8, Flattened
  <1>15. FlattenSeq(pieces) \in Closed(n) \cup Open(n)
    <2>1. n \in 0..n
      BY <1>1
    <2> HIDE DEF Closed, Open
    <2> QED BY <2>1, <1>14, <1>4
  <1>16. ASSUME NEW a \in Open(n) PROVE WellFormed(a)
    <2>1. PICK h \in 1..n, b \in Seq(M) :
             /\ WellFormed(b) /\ a = b \o SubSeq(ms, h, n)
             /\ ~IsTool(ms[h]) /\ ~Short(ms, h)
             /\ \A l \in (h + 1)..n : IsTool(ms[l])
      OBVIOUS
    <2>2. h \in Nat /\ 1 <= h /\ h <= n
      BY <1>1
    <2>3. WellFormed(SubSeq(ms, h, n))
      <3> HIDE DEF M
      <3>1. n < Len(ms) => ~IsTool(ms[n + 1])
        BY <1>1
      <3> HIDE DEF n
      <3>2. n <= Len(ms)
        BY <1>1 DEF n
      <3> QED BY <2>1, <2>2, <3>1, <3>2, <1>1, GroupWellFormed DEF M
    <2>4. SubSeq(ms, h, n) \in Seq(M)
      <3>1. \A k \in h..n : ms[k] \in M
        BY <1>1, <2>2
      <3>2. h \in Int /\ n \in Int
        BY <2>2, <1>1
      <3> HIDE DEF n, M
      <3> QED BY <3>1, <3>2, SubSeqProperties
    <2> QED BY <2>1, <2>3, <2>4, WellFormedConcat
  <1>17. sanitize_history(ms) = FlattenSeq(pieces)
    BY <1>1, Zenon DEF sanitize_history
  <1>18. FlattenSeq(pieces) \in Seq(M) /\ WellFormed(FlattenSeq(pieces))
    <2> HIDE DEF pieces
    <2> QED BY <1>15, <1>16
  <1> QED BY <1>17, <1>18

=============================================================================
