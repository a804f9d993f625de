------------------------------ MODULE DsmlProofs -----------------------------
(***************************************************************************)
(* Theorems about the recovery of tool calls, for any text and any way to  *)
(* cut it: what the accumulator shows and finds delta by delta is what     *)
(* extract_tool_calls finds in the whole.                                  *)
(*                                                                         *)
(* The recursive functions are shown to exist, and what they compute is    *)
(* proved, by the shortest text for which it would fail (Shorter).         *)
(***************************************************************************)
EXTENDS Dsml, HistoryProofs

(* Induction over the length of sequences. *)
LEMMA Shorter ==
    ASSUME NEW S, NEW P,
           \A s \in Seq(S) : (\A r \in Seq(S) : Len(r) < Len(s) => r \in P) => s \in P
    PROVE  Seq(S) \subseteq P
  <1> DEFINE Bad == {n \in Nat : \E s \in Seq(S) : Len(s) = n /\ s \notin P}
  <1>1. SUFFICES ASSUME NEW s \in Seq(S), s \notin P PROVE FALSE
    OBVIOUS
  <1>2. Len(s) \in Bad
    BY <1>1, LenProperties
  <1>3. PICK n \in Bad : \A m \in Bad : n <= m
    <2>1. Bad \in SUBSET Nat /\ Bad # {}
      BY <1>2
    <2> HIDE DEF Bad
    <2> QED BY <2>1, Least
  <1>4. PICK t \in Seq(S) : Len(t) = n /\ t \notin P
    BY <1>3
  <1>5. ASSUME NEW r \in Seq(S), Len(r) < Len(t) PROVE r \in P
    <2>1. Len(r) \in Nat /\ n \in Nat /\ ~(n <= Len(r))
      BY <1>3, <1>4, <1>5, LenProperties
    <2>2. Len(r) \notin Bad
      BY <2>1, <1>3, Zenon
    <2> QED BY <2>1, <2>2
  <1> QED BY <1>4, <1>5

(* Two functions are one if what is less decides what they return. *)
Below(S, g, h, s) == \A r \in Seq(S) : Len(r) < Len(s) => g[r] = h[r]
Decided(S, f, g) == \A s \in Seq(S) : Below(S, f, g, s) => f[s] = g[s]
Same(S, f, g) == \A s \in Seq(S) : f[s] = g[s]

LEMMA Agree ==
    ASSUME NEW S, NEW f, NEW g, Decided(S, f, g)
    PROVE  Same(S, f, g)
  <1> DEFINE P == {s \in Seq(S) : f[s] = g[s]}
  <1>1. \A s \in Seq(S) : (\A r \in Seq(S) : Len(r) < Len(s) => r \in P) => s \in P
    BY DEF Decided, Below
  <1> HIDE DEF P
  <1>2. Seq(S) \subseteq P
    BY <1>1, Shorter
  <1> QED BY <1>2 DEF P, Same

(* A function on sequences may be defined by its values for shorter ones.  *)
FromBelow(S, V, F) ==
    /\ F \in [Seq(S) -> [[Seq(S) -> V] -> V]]
    /\ \A s \in Seq(S) : \A g, h \in [Seq(S) -> V] : Below(S, g, h, s) => F[s][g] = F[s][h]
Recursive(S, V, F, g) == g \in [Seq(S) -> V] /\ \A s \in Seq(S) : g[s] = F[s][g]
Solves(S, F, g, n) == \A s \in Seq(S) : Len(s) < n => g[s] = F[s][g]

LEMMA RecursionExists ==
    ASSUME NEW S, NEW V, NEW F, FromBelow(S, V, F), V # {}
    PROVE  \E g : Recursive(S, V, F, g)
  <1> DEFINE W == [Seq(S) -> V]
             Bad == {n \in Nat : ~\E g \in W : Solves(S, F, g, n)}
  <1>0. \A s \in Seq(S) : Len(s) \in Nat
    BY LenProperties
  <1>7. /\ F \in [Seq(S) -> [[Seq(S) -> V] -> V]]
        /\ \A s \in Seq(S) : \A g, h \in W : Below(S, g, h, s) => F[s][g] = F[s][h]
    BY DEF FromBelow
  <1>1. Bad = {}
    <2> SUFFICES ASSUME Bad # {} PROVE FALSE
      OBVIOUS
    <2>1. PICK n \in Bad : \A m \in Bad : n <= m
      <3>1. Bad \in SUBSET Nat
        OBVIOUS
      <3> HIDE DEF Bad
      <3> QED BY <3>1, Least
    <2>2. PICK v \in V : TRUE
      OBVIOUS
    <2>3. n # 0
      <3> DEFINE g == [s \in Seq(S) |-> v]
      <3>1. g \in W
        OBVIOUS
      <3>2. Solves(S, F, g, 0)
        BY <1>0 DEF Solves
      <3> HIDE DEF g, W
      <3> QED BY <3>1, <3>2
    <2>4. n - 1 \in Nat /\ n - 1 \notin Bad
      <3>1. n \in Nat /\ n - 1 \in Nat /\ ~(n <= n - 1)
        BY <2>3
      <3> HIDE DEF Bad
      <3> QED BY <3>1, <2>1
    <2>5. PICK g \in W : Solves(S, F, g, n - 1)
      BY <2>4
    <2> DEFINE h == [s \in Seq(S) |-> F[s][g]]
    <2>6. h \in W
      BY <1>7
    <2>7. \A s \in Seq(S) : h[s] = F[s][g]
      OBVIOUS
    <2> HIDE DEF h, W
    <2>8. ASSUME NEW s \in Seq(S), Len(s) < n PROVE h[s] = F[s][h]
      <3>1. ASSUME NEW r \in Seq(S), Len(r) < Len(s) PROVE g[r] = h[r]
        <4>1. Len(r) < n - 1
          BY <1>0, <2>4, <2>8, <3>1
        <4> QED BY <4>1, <2>5, <2>7 DEF Solves
      <3>2. Below(S, g, h, s)
        BY <3>1 DEF Below
      <3> QED BY <3>2, <1>7, <2>6, <2>7 DEF W
    <2> QED BY <2>6, <2>8 DEF Solves
  <1> DEFINE c == [n \in Nat |-> CHOOSE g \in W : Solves(S, F, g, n)]
  <1>2. \A n \in Nat : c[n] \in W /\ Solves(S, F, c[n], n)
    BY <1>1
  <1> HIDE DEF c
  <1>3. ASSUME NEW n \in Nat, NEW m \in Nat
        PROVE  \A s \in Seq(S) : Len(s) < n /\ Len(s) < m => c[n][s] = c[m][s]
    <2> DEFINE P == {s \in Seq(S) : Len(s) < n /\ Len(s) < m => c[n][s] = c[m][s]}
    <2>1. ASSUME NEW s \in Seq(S), \A r \in Seq(S) : Len(r) < Len(s) => r \in P PROVE s \in P
      <3> SUFFICES ASSUME Len(s) < n, Len(s) < m PROVE c[n][s] = c[m][s]
        OBVIOUS
      <3>1. \A r \in Seq(S) : Len(r) < Len(s) => Len(r) < n /\ Len(r) < m
        BY <1>0
      <3>2. Below(S, c[n], c[m], s)
        BY <2>1, <3>1 DEF Below
      <3>3. F[s][c[n]] = F[s][c[m]]
        BY <1>2, <1>7, <3>2
      <3> QED BY <1>2, <3>3 DEF Solves
    <2> HIDE DEF P
    <2>2. Seq(S) \subseteq P
      BY <2>1, Shorter
    <2> QED BY <2>2 DEF P
  <1> DEFINE f == [s \in Seq(S) |-> c[Len(s) + 1][s]]
  <1>4. f \in W
    <2>1. \A s \in Seq(S) : Len(s) + 1 \in Nat
      BY <1>0
    <2>2. \A s \in Seq(S) : c[Len(s) + 1][s] \in V
      BY <1>2, <2>1
    <2> QED BY <2>2
  <1>5. \A s \in Seq(S) : f[s] = c[Len(s) + 1][s]
    OBVIOUS
  <1> HIDE DEF f
  <1>6. ASSUME NEW s \in Seq(S) PROVE f[s] = F[s][f]
    <2> DEFINE n == Len(s) + 1
    <2>1. n \in Nat /\ Len(s) < n /\ Len(s) \in Nat
      BY <1>0
    <2>2. ASSUME NEW r \in Seq(S), Len(r) < Len(s) PROVE c[n][r] = f[r]
      <3>1. Len(r) + 1 \in Nat /\ Len(r) < Len(r) + 1 /\ Len(r) < n
        BY <1>0, <2>2
      <3> QED BY <3>1, <2>1, <1>3, <1>5
    <2>3. c[n][s] = F[s][c[n]]
      BY <2>1, <1>2 DEF Solves
    <2> HIDE DEF n, W
    <2>4. Below(S, c[n], f, s)
      BY <2>2 DEF Below
    <2>5. F[s][c[n]] = F[s][f]
      BY <1>2, <1>4, <1>7, <2>1, <2>4 DEF W
    <2> QED BY <1>5, <2>3, <2>5 DEF n
  <1> QED BY <1>4, <1>6 DEF Recursive
-----------------------------------------------------------------------------
(* Parts of sequences, and first positions in them. *)

LEMMA PartIs ==
    ASSUME NEW S, NEW s \in Seq(S), NEW m \in Nat \ {0}, NEW n \in Nat, m <= n + 1, n <= Len(s)
    PROVE  /\ SubSeq(s, m, n) \in Seq(S) /\ Len(SubSeq(s, m, n)) = (n + 1) - m
           /\ \A i \in 1..((n + 1) - m) : SubSeq(s, m, n)[i] = s[(m + i) - 1]
  <1>1. Len(s) \in Nat /\ m \in Int /\ n \in Int
    BY LenProperties
  <1>2. \A i \in m..n : s[i] \in S
    <2> SUFFICES ASSUME NEW i \in m..n PROVE s[i] \in S
      OBVIOUS
    <2>1. i \in 1..Len(s)
      BY <1>1
    <2> QED BY <2>1, ElementOfSeq
  <1> DEFINE t == SubSeq(s, m, n)
  <1>3. /\ t \in Seq(S) /\ Len(t) = IF m <= n THEN n - m + 1 ELSE 0
        /\ \A i \in 1 .. n-m+1 : t[i] = s[m+i-1]
    BY <1>1, <1>2, SubSeqProperties
  <1> HIDE DEF t
  <1>4. Len(t) = (n + 1) - m
    BY <1>1, <1>3
  <1>5. \A i \in 1..((n + 1) - m) : t[i] = s[(m + i) - 1]
    <2> SUFFICES ASSUME NEW i \in 1..((n + 1) - m) PROVE t[i] = s[(m + i) - 1]
      OBVIOUS
    <2>1. i \in 1..n-m+1 /\ (m + i) - 1 = m+i-1
      BY <1>1
    <2> QED BY <2>1, <1>3
  <1> QED BY <1>3, <1>4, <1>5 DEF t

LEMMA FromIs ==
    ASSUME NEW S, NEW s \in Seq(S), NEW p \in Nat \ {0}, p <= Len(s) + 1
    PROVE  /\ From(s, p) \in Seq(S) /\ Len(From(s, p)) = (Len(s) + 1) - p
           /\ \A i \in 1..((Len(s) + 1) - p) : From(s, p)[i] = s[(p + i) - 1]
  <1>1. Len(s) \in Nat /\ Len(s) <= Len(s)
    BY LenProperties
  <1> QED BY <1>1, PartIs DEF From

LEMMA UpToIs ==
    ASSUME NEW S, NEW s \in Seq(S), NEW p \in Nat, p <= Len(s)
    PROVE  /\ UpTo(s, p) \in Seq(S) /\ Len(UpTo(s, p)) = p
           /\ \A i \in 1..p : UpTo(s, p)[i] = s[i]
  <1> DEFINE t == SubSeq(s, 1, p)
  <1>1. /\ t \in Seq(S) /\ Len(t) = (p + 1) - 1
        /\ \A i \in 1..((p + 1) - 1) : t[i] = s[(1 + i) - 1]
    BY PartIs
  <1> HIDE DEF t
  <1>2. Len(t) = p /\ \A i \in 1..p : t[i] = s[i]
    BY <1>1
  <1> QED BY <1>1, <1>2 DEF t, UpTo

LEMMA Parted ==
    ASSUME NEW S, NEW s \in Seq(S), NEW p \in Nat \ {0}, p <= Len(s) + 1
    PROVE  s = UpTo(s, p - 1) \o From(s, p)
  <1> DEFINE a == UpTo(s, p - 1)
             b == From(s, p)
  <1>0. Len(s) \in Nat /\ p - 1 \in Nat /\ p - 1 <= Len(s)
    BY LenProperties
  <1>1. a \in Seq(S) /\ Len(a) = p - 1 /\ \A i \in 1..(p - 1) : a[i] = s[i]
    BY <1>0, UpToIs
  <1>2. b \in Seq(S) /\ Len(b) = (Len(s) + 1) - p
        /\ \A i \in 1..((Len(s) + 1) - p) : b[i] = s[(p + i) - 1]
    BY FromIs
  <1> HIDE DEF a, b
  <1>3. /\ a \o b \in Seq(S) /\ Len(a \o b) = Len(a) + Len(b)
        /\ \A i \in 1 .. Len(a) + Len(b) : (a \o b)[i] =
                     IF i <= Len(a) THEN a[i] ELSE b[i - Len(a)]
    BY <1>1, <1>2, ConcatProperties
  <1>4. Len(a \o b) = Len(s)
    BY <1>0, <1>1, <1>2, <1>3
  <1>5. ASSUME NEW i \in 1..Len(s) PROVE s[i] = (a \o b)[i]
    <2>1. CASE i <= p - 1
      BY <2>1, <1>0, <1>1, <1>2, <1>3
    <2>2. CASE ~(i <= p - 1)
      <3> DEFINE j == i - (p - 1)
      <3>1. j \in 1..((Len(s) + 1) - p) /\ (p + j) - 1 = i
        BY <1>0, <2>2
      <3>2. (a \o b)[i] = b[j]
        BY <1>0, <1>1, <1>2, <1>3, <2>2
      <3> HIDE DEF j
      <3> QED BY <3>1, <3>2, <1>2
    <2> QED BY <2>1, <2>2
  <1>6. s = a \o b
    BY <1>3, <1>4, <1>5, SeqEqual
  <1> QED BY <1>6 DEF a, b

(* Two sequences in one. *)
LEMMA JoinIs ==
    ASSUME NEW S, NEW a \in Seq(S), NEW b \in Seq(S)
    PROVE  /\ a \o b \in Seq(S) /\ Len(a \o b) = Len(a) + Len(b)
           /\ \A i \in 1..Len(a) : (a \o b)[i] = a[i]
           /\ \A i \in 1..Len(b) : (a \o b)[Len(a) + i] = b[i]
  <1>0. Len(a) \in Nat /\ Len(b) \in Nat
    BY LenProperties
  <1> DEFINE c == a \o b
  <1>1. /\ c \in Seq(S) /\ Len(c) = Len(a) + Len(b)
        /\ \A i \in 1 .. Len(a) + Len(b) : c[i] = IF i <= Len(a) THEN a[i] ELSE b[i - Len(a)]
    BY ConcatProperties
  <1> HIDE DEF c
  <1>2. \A i \in 1..Len(a) : c[i] = a[i]
    BY <1>0, <1>1
  <1>3. ASSUME NEW i \in 1..Len(b) PROVE c[Len(a) + i] = b[i]
    <2>1. Len(a) + i \in 1 .. Len(a) + Len(b) /\ ~(Len(a) + i <= Len(a)) /\ (Len(a) + i) - Len(a) = i
      BY <1>0
    <2> QED BY <2>1, <1>1
  <1> QED BY <1>1, <1>2, <1>3 DEF c

LEMMA FromJoin ==
    ASSUME NEW S, NEW a \in Seq(S), NEW b \in Seq(S), NEW p \in Nat \ {0}, p <= Len(a) + 1
    PROVE  From(a \o b, p) = From(a, p) \o b
  <1>0. Len(a) \in Nat /\ Len(b) \in Nat
    BY LenProperties
  <1> DEFINE c == a \o b
             u == From(a, p)
  <1>1. /\ c \in Seq(S) /\ Len(c) = Len(a) + Len(b)
        /\ \A i \in 1..Len(a) : c[i] = a[i]
        /\ \A i \in 1..Len(b) : c[Len(a) + i] = b[i]
    BY JoinIs
  <1>2. u \in Seq(S) /\ Len(u) = (Len(a) + 1) - p
        /\ \A i \in 1..((Len(a) + 1) - p) : u[i] = a[(p + i) - 1]
    BY FromIs
  <1> HIDE DEF c, u
  <1> DEFINE x == From(c, p)
             y == u \o b
  <1>3. p <= Len(c) + 1 /\ c \in Seq(S)
    BY <1>0, <1>1
  <1>b. u \in Seq(S)
    BY <1>2
  <1>4. x \in Seq(S) /\ Len(x) = (Len(c) + 1) - p
        /\ \A i \in 1..((Len(c) + 1) - p) : x[i] = c[(p + i) - 1]
    BY <1>3, FromIs
  <1>5. /\ y \in Seq(S) /\ Len(y) = Len(u) + Len(b)
        /\ \A i \in 1..Len(u) : y[i] = u[i]
        /\ \A i \in 1..Len(b) : y[Len(u) + i] = b[i]
    BY <1>b, JoinIs
  <1> HIDE DEF x, y
  <1>6. Len(x) = Len(y)
    BY <1>0, <1>1, <1>2, <1>4, <1>5
  <1>7. ASSUME NEW i \in 1..Len(x) PROVE x[i] = y[i]
    <2>1. CASE i <= Len(u)
      <3>1. i \in 1..((Len(a) + 1) - p) /\ i \in 1..Len(u) /\ (p + i) - 1 \in 1..Len(a)
            /\ i \in 1..((Len(c) + 1) - p)
        BY <2>1, <1>0, <1>1, <1>2, <1>4
      <3> QED BY <3>1, <1>1, <1>2, <1>4, <1>5
    <2>2. CASE ~(i <= Len(u))
      <3> DEFINE j == i - Len(u)
      <3>1. j \in 1..Len(b) /\ Len(u) + j = i /\ Len(a) + j = (p + i) - 1
            /\ i \in 1..((Len(c) + 1) - p)
        BY <2>2, <1>0, <1>1, <1>2, <1>4
      <3> HIDE DEF j
      <3>2. y[i] = b[j] /\ x[i] = c[Len(a) + j] /\ c[Len(a) + j] = b[j]
        BY <3>1, <1>1, <1>4, <1>5
      <3> QED BY <3>2
    <2> QED BY <2>1, <2>2
  <1>8. x = y
    BY <1>4, <1>5, <1>6, <1>7, SeqEqual
  <1> QED BY <1>8 DEF x, y, c, u

LEMMA UpToJoin ==
    ASSUME NEW S, NEW a \in Seq(S), NEW b \in Seq(S), NEW p \in Nat, p <= Len(a)
    PROVE  UpTo(a \o b, p) = UpTo(a, p)
  <1>0. Len(a) \in Nat /\ Len(b) \in Nat
    BY LenProperties
  <1> DEFINE c == a \o b
             x == UpTo(c, p)
             y == UpTo(a, p)
  <1>1. /\ c \in Seq(S) /\ Len(c) = Len(a) + Len(b)
        /\ \A i \in 1..Len(a) : c[i] = a[i]
    BY JoinIs
  <1> HIDE DEF c
  <1>2. p <= Len(c)
    BY <1>0, <1>1
  <1>3. x \in Seq(S) /\ Len(x) = p /\ \A i \in 1..p : x[i] = c[i]
    BY <1>1, <1>2, UpToIs
  <1>4. y \in Seq(S) /\ Len(y) = p /\ \A i \in 1..p : y[i] = a[i]
    BY UpToIs
  <1> HIDE DEF x, y
  <1>5. \A i \in 1..Len(x) : x[i] = y[i]
    BY <1>0, <1>1, <1>3, <1>4
  <1>6. x = y
    BY <1>3, <1>4, <1>5, SeqEqual
  <1> QED BY <1>6 DEF x, y, c

(* The first of some positions. *)
LEMMA MinIs ==
    ASSUME NEW T \in SUBSET Nat, T # {}
    PROVE  Min(T) \in T /\ \A y \in T : Min(T) <= y
  <1>1. \E x \in T : \A y \in T : x =< y
    BY Least
  <1> QED BY <1>1 DEF Min

LEMMA FirstIs ==
    ASSUME NEW T \in SUBSET (Nat \ {0})
    PROVE  /\ First(T) = 0 <=> T = {}
           /\ T # {} => First(T) \in T /\ \A y \in T : First(T) <= y
           /\ \A x \in T : (\A y \in T : x <= y) => First(T) = x
  <1>1. T = {} => First(T) = 0
    BY DEF First
  <1>2. ASSUME T # {}
        PROVE  First(T) \in T /\ \A y \in T : First(T) <= y
    <2>1. T \in SUBSET Nat
      OBVIOUS
    <2> QED BY <2>1, <1>2, MinIs DEF First
  <1>3. ASSUME NEW x \in T, \A y \in T : x <= y PROVE First(T) = x
    <2>1. First(T) \in T /\ First(T) <= x /\ x <= First(T)
      BY <1>2, <1>3
    <2>2. First(T) \in Nat /\ x \in Nat
      BY <2>1
    <2> HIDE DEF First
    <2> QED BY <2>1, <2>2
  <1> QED BY <1>1, <1>2, <1>3

(* The first symbol that is not white space, and the first that closes. *)
LEMMA SkipIs ==
    ASSUME NEW S, NEW s \in Seq(S), NEW p \in Nat \ {0}, p <= Len(s) + 1
    PROVE  /\ SkipSpaces(s, p) \in p..(Len(s) + 1)
           /\ \A q \in p..(SkipSpaces(s, p) - 1) : s[q] = "s"
           /\ SkipSpaces(s, p) <= Len(s) => s[SkipSpaces(s, p)] # "s"
           /\ \A n \in p..Len(s) :
                 s[n] # "s" /\ (\A q \in p..(n - 1) : s[q] = "s") => SkipSpaces(s, p) = n
  <1>0. Len(s) \in Nat
    BY LenProperties
  <1> DEFINE T == {q \in p..Len(s) : s[q] # "s"} \cup {Len(s) + 1}
             k == Min(T)
  <1>1. T \in SUBSET Nat /\ T # {}
    BY <1>0
  <1>2. k \in T /\ \A y \in T : k <= y
    <2> HIDE DEF T
    <2> QED BY <1>1, MinIs
  <1> HIDE DEF k
  <1>3. k \in p..(Len(s) + 1) /\ k \in Nat
    BY <1>0, <1>2
  <1>4. ASSUME NEW q \in p..(k - 1) PROVE s[q] = "s"
    <2>1. q \in p..Len(s) /\ ~(k <= q)
      BY <1>0, <1>3
    <2>2. q \notin T
      BY <2>1, <1>2, Zenon
    <2> QED BY <2>1, <2>2
  <1>5. ASSUME k <= Len(s) PROVE s[k] # "s"
    BY <1>0, <1>2, <1>5
  <1>6. ASSUME NEW n \in p..Len(s), s[n] # "s", \A q \in p..(n - 1) : s[q] = "s" PROVE k = n
    <2>1. n \in T
      BY <1>6
    <2>2. k <= n /\ n \in Nat
      BY <2>1, <1>2, <1>0
    <2>3. ASSUME k < n PROVE FALSE
      <3>1. k \in p..(n - 1) /\ k <= Len(s)
        BY <2>2, <2>3, <1>0, <1>3
      <3> QED BY <3>1, <1>5, <1>6
    <2> QED BY <2>2, <2>3, <1>3
  <1> QED BY <1>3, <1>4, <1>5, <1>6 DEF SkipSpaces, k

LEMMA CloseIs ==
    ASSUME NEW S, NEW s \in Seq(S), NEW p \in Nat \ {0}, NEW c
    PROVE  /\ find_close_tag(s, p, c) = 0 <=> \A q \in p..Len(s) : s[q] # c
           /\ find_close_tag(s, p, c) # 0 =>
                 /\ find_close_tag(s, p, c) \in p..Len(s) /\ s[find_close_tag(s, p, c)] = c
                 /\ \A q \in p..(find_close_tag(s, p, c) - 1) : s[q] # c
           /\ \A k \in p..Len(s) :
                 s[k] = c /\ (\A q \in p..(k - 1) : s[q] # c) => find_close_tag(s, p, c) = k
  <1>0. Len(s) \in Nat
    BY LenProperties
  <1> DEFINE T == {q \in p..Len(s) : s[q] = c}
             k == First(T)
  <1>1. T \in SUBSET (Nat \ {0})
    BY <1>0
  <1>2. /\ k = 0 <=> T = {}
        /\ T # {} => k \in T /\ \A y \in T : k <= y
        /\ \A x \in T : (\A y \in T : x <= y) => k = x
    <2> HIDE DEF T
    <2> QED BY <1>1, FirstIs
  <1> HIDE DEF k
  <1>3. ASSUME k # 0
        PROVE  k \in p..Len(s) /\ s[k] = c /\ \A q \in p..(k - 1) : s[q] # c
    <2>1. k \in T /\ k \in p..Len(s) /\ s[k] = c
      BY <1>2, <1>3
    <2>2. ASSUME NEW q \in p..(k - 1), s[q] = c PROVE FALSE
      <3>1. q \in p..Len(s) /\ ~(k <= q)
        BY <1>0, <2>1
      <3>2. q \in T
        BY <3>1, <2>2
      <3> QED BY <3>1, <3>2, <1>2
    <2> QED BY <2>1, <2>2
  <1>4. ASSUME NEW x \in p..Len(s), s[x] = c, \A q \in p..(x - 1) : s[q] # c PROVE k = x
    <2>1. x \in T
      BY <1>4
    <2>2. ASSUME NEW y \in T PROVE x <= y
      <3>1. y \in p..Len(s) /\ s[y] = c
        OBVIOUS
      <3>2. ~(y \in p..(x - 1))
        BY <3>1, <1>4
      <3> QED BY <3>1, <3>2, <1>0
    <2> HIDE DEF T
    <2> QED BY <2>1, <2>2, <1>2
  <1>5. k = 0 <=> \A q \in p..Len(s) : s[q] # c
    BY <1>2
  <1> QED BY <1>3, <1>4, <1>5 DEF find_close_tag, k
-----------------------------------------------------------------------------
(* The recursive functions, and the types of what they return. *)

Text == Seq(Symbols)

(* The ends of tags. *)
LEMMA OpenType ==
    ASSUME NEW s \in Text, NEW p \in 1..Len(s)
    PROVE  OpenEnd(s, p) \in 0..Len(s)
  <1>0. Len(s) \in Nat /\ p \in Nat /\ p + 1 \in Nat \ {0} /\ p + 1 <= Len(s) + 1
    BY LenProperties DEF Text
  <1> DEFINE name == SkipSpaces(s, p + 1)
             T == {q \in (name + 2)..Len(s) : EndsTag(s[q])}
  <1>1. name \in (p + 1)..(Len(s) + 1)
    BY <1>0, SkipIs DEF Text
  <1> HIDE DEF name
  <1>2. T \in SUBSET (Nat \ {0}) /\ \A x \in T : x \in 0..Len(s)
    BY <1>0, <1>1
  <1>3. First(T) \in 0..Len(s)
    <2> HIDE DEF T
    <2>1. First(T) = 0 \/ First(T) \in T
      BY <1>2, FirstIs
    <2>2. 0 \in 0..Len(s)
      BY <1>0
    <2> HIDE DEF First
    <2> QED BY <2>1, <2>2, <1>2
  <1> HIDE DEF T
  <1>4. TagEnd(s, name) \in 0..Len(s)
    <2>1. TagEnd(s, name) = IF At(s, name + 1, ">") THEN name + 1
                            ELSE IF At(s, name + 1, "s") THEN First(T) ELSE 0
      BY DEF TagEnd, T
    <2>2. At(s, name + 1, ">") => name + 1 \in 0..Len(s)
      BY <1>0, <1>1 DEF At
    <2>3. 0 \in 0..Len(s)
      BY <1>0
    <2> QED BY <2>1, <2>2, <2>3, <1>3
  <1> QED BY <1>0, <1>4 DEF OpenEnd, BlockEnd, name

LEMMA FindOpen ==
    ASSUME NEW s \in Text
    PROVE  /\ find_open_tag(s) = 0 <=> \A p \in 1..Len(s) : OpenEnd(s, p) = 0
           /\ find_open_tag(s) # 0 =>
                 /\ find_open_tag(s) \in 1..Len(s) /\ OpenEnd(s, find_open_tag(s)) # 0
                 /\ \A p \in 1..(find_open_tag(s) - 1) : OpenEnd(s, p) = 0
           /\ \A x \in 1..Len(s) :
                 OpenEnd(s, x) # 0 /\ (\A p \in 1..(x - 1) : OpenEnd(s, p) = 0)
                 => find_open_tag(s) = x
  <1>0. Len(s) \in Nat /\ DOMAIN s = 1..Len(s)
    BY LenProperties DEF Text
  <1> DEFINE T == {p \in 1..Len(s) : OpenEnd(s, p) # 0}
             k == First(T)
  <1>1. T \in SUBSET (Nat \ {0})
    BY <1>0
  <1>2. /\ k = 0 <=> T = {}
        /\ T # {} => k \in T /\ \A y \in T : k <= y
        /\ \A x \in T : (\A y \in T : x <= y) => k = x
    <2> HIDE DEF T
    <2> QED BY <1>1, FirstIs
  <1> HIDE DEF k
  <1>3. ASSUME k # 0
        PROVE  k \in 1..Len(s) /\ OpenEnd(s, k) # 0 /\ \A q \in 1..(k - 1) : OpenEnd(s, q) = 0
    <2>1. k \in T /\ k \in 1..Len(s) /\ OpenEnd(s, k) # 0
      BY <1>2, <1>3
    <2>2. ASSUME NEW q \in 1..(k - 1), OpenEnd(s, q) # 0 PROVE FALSE
      <3>1. q \in 1..Len(s) /\ ~(k <= q)
        BY <1>0, <2>1
      <3>2. q \in T
        BY <3>1, <2>2
      <3> QED BY <3>1, <3>2, <1>2
    <2> QED BY <2>1, <2>2
  <1>4. ASSUME NEW x \in 1..Len(s), OpenEnd(s, x) # 0, \A q \in 1..(x - 1) : OpenEnd(s, q) = 0
        PROVE  k = x
    <2>1. x \in T
      BY <1>4
    <2>2. ASSUME NEW y \in T PROVE x <= y
      <3>1. y \in 1..Len(s) /\ OpenEnd(s, y) # 0
        OBVIOUS
      <3>2. ~(y \in 1..(x - 1))
        BY <3>1, <1>4
      <3> QED BY <3>1, <3>2, <1>0
    <2> HIDE DEF T
    <2> QED BY <2>1, <2>2, <1>2
  <1>5. k = 0 <=> \A q \in 1..Len(s) : OpenEnd(s, q) = 0
    BY <1>2
  <1>6. find_open_tag(s) = k
    BY <1>0 DEF find_open_tag, k
  <1> QED BY <1>3, <1>4, <1>5, <1>6

LEMMA FindInvoke ==
    ASSUME NEW s \in Text, find_invoke_tag(s) # 0
    PROVE  /\ InvokeEnd(s, find_invoke_tag(s)) \in 1..Len(s)
           /\ s[InvokeEnd(s, find_invoke_tag(s))] \in Commands
  <1>0. Len(s) \in Nat /\ DOMAIN s = 1..Len(s)
    BY LenProperties DEF Text
  <1> DEFINE T == {p \in 1..Len(s) : IsInvoke(s, p)}
             p == find_invoke_tag(s)
             e == InvokeEnd(s, p)
  <1>1. T \in SUBSET (Nat \ {0})
    BY <1>0
  <1>2. p = First(T)
    BY <1>0 DEF find_invoke_tag
  <1>3. p \in T
    <2> HIDE DEF T, p
    <2>1. First(T) = 0 <=> T = {}
      BY <1>1, FirstIs
    <2>2. T # {} => First(T) \in T
      BY <1>1, FirstIs
    <2> QED BY <2>1, <2>2, <1>2 DEF p
  <1>4. p \in 1..Len(s) /\ IsInvoke(s, p)
    BY <1>3
  <1> HIDE DEF p
  <1>5. PICK c \in Commands : At(s, e, c)
    BY <1>4 DEF IsInvoke
  <1>6. e <= Len(s) /\ s[e] = c
    BY <1>5 DEF At
  <1>7. p + 1 \in Nat \ {0} /\ p + 1 <= Len(s) + 1
    BY <1>0, <1>4
  <1>8. e \in (p + 1)..(Len(s) + 1)
    BY <1>7, SkipIs DEF InvokeEnd, Text
  <1> HIDE DEF e
  <1>9. e \in 1..Len(s)
    BY <1>0, <1>4, <1>6, <1>8
  <1> QED BY <1>5, <1>6, <1>9 DEF e, p

(* The text behind the first close. *)
LEMMA Behind ==
    ASSUME NEW s \in Text, NEW p \in Nat \ {0}, NEW c, find_close_tag(s, p, c) # 0
    PROVE  /\ find_close_tag(s, p, c) \in p..Len(s) /\ find_close_tag(s, p, c) \in 1..Len(s)
           /\ From(s, find_close_tag(s, p, c) + 1) \in Text
           /\ Len(From(s, find_close_tag(s, p, c) + 1)) < Len(s)
  <1>0. Len(s) \in Nat
    BY LenProperties DEF Text
  <1> DEFINE k == find_close_tag(s, p, c)
  <1>1. k \in p..Len(s)
    BY CloseIs DEF Text
  <1> HIDE DEF k
  <1>2. k + 1 \in Nat \ {0} /\ k + 1 <= Len(s) + 1 /\ k \in 1..Len(s)
    BY <1>0, <1>1
  <1>3. From(s, k + 1) \in Text /\ Len(From(s, k + 1)) = (Len(s) + 1) - (k + 1)
    BY <1>2, FromIs DEF Text
  <1>4. Len(From(s, k + 1)) < Len(s)
    BY <1>0, <1>2, <1>3
  <1>5. k \in p..Len(s) /\ k \in 1..Len(s) /\ From(s, k + 1) \in Text /\ Len(From(s, k + 1)) < Len(s)
    BY <1>1, <1>2, <1>3, <1>4
  <1> QED BY <1>5 DEF k

(* parse_invoke_blocks, by what it is for shorter texts. *)
ParseStep(g, s) ==
    LET body == InvokeEnd(s, find_invoke_tag(s))
        close == find_close_tag(s, body + 1, "j")
    IN  IF find_invoke_tag(s) = 0 \/ close = 0 THEN <<>>
        ELSE <<s[body]>> \o g[From(s, close + 1)]

LEMMA ParseStepIs ==
    ASSUME NEW s \in Text
    PROVE  /\ \A g : (\A r \in Text : g[r] \in Seq(Commands)) => ParseStep(g, s) \in Seq(Commands)
           /\ \A g, h : Below(Symbols, g, h, s) => ParseStep(g, s) = ParseStep(h, s)
  <1> DEFINE body == InvokeEnd(s, find_invoke_tag(s))
             close == find_close_tag(s, body + 1, "j")
             rest == From(s, close + 1)
  <1>1. CASE find_invoke_tag(s) = 0 \/ close = 0
    <2>1. \A g : ParseStep(g, s) = <<>>
      BY <1>1 DEF ParseStep
    <2>2. <<>> \in Seq(Commands)
      OBVIOUS
    <2> QED BY <2>1, <2>2
  <1>2. CASE find_invoke_tag(s) # 0 /\ close # 0
    <2>1. s[body] \in Commands /\ body \in 1..Len(s)
      BY <1>2, FindInvoke
    <2>2. body + 1 \in Nat \ {0}
      BY <2>1
    <2> HIDE DEF body
    <2>3. rest \in Text /\ Len(rest) < Len(s)
      BY <1>2, <2>2, Behind
    <2>4. \A g : ParseStep(g, s) = <<s[body]>> \o g[rest]
      BY <1>2 DEF ParseStep, body
    <2> HIDE DEF rest
    <2>5. <<s[body]>> \in Seq(Commands)
      BY <2>1
    <2>6. ASSUME NEW g, \A r \in Text : g[r] \in Seq(Commands) PROVE ParseStep(g, s) \in Seq(Commands)
      <3>1. g[rest] \in Seq(Commands)
        BY <2>3, <2>6
      <3>2. <<s[body]>> \o g[rest] \in Seq(Commands)
        BY <2>5, <3>1, ConcatProperties
      <3> QED BY <2>4, <3>2
    <2>7. ASSUME NEW g, NEW h, Below(Symbols, g, h, s) PROVE ParseStep(g, s) = ParseStep(h, s)
      <3>1. g[rest] = h[rest]
        BY <2>3, <2>7 DEF Below, Text
      <3> QED BY <2>4, <3>1
    <2> QED BY <2>6, <2>7
  <1> QED BY <1>1, <1>2

(* The function exists, and each value comes from shorter texts. *)
LEMMA ParseIs ==
    \A s \in Text : /\ parse_invoke_blocks[s] = ParseStep(parse_invoke_blocks, s)
                    /\ parse_invoke_blocks[s] \in Seq(Commands)
  <1> DEFINE V == Seq(Commands)
             F == [s \in Text |-> [g \in [Text -> V] |-> ParseStep(g, s)]]
             Is(x) == x = [s \in Text |-> ParseStep(x, s)]
             c == CHOOSE x : Is(x)
  <1>1. F \in [Text -> [[Text -> V] -> V]]
    BY ParseStepIs
  <1>2. \A s \in Text : \A g \in [Text -> V] : F[s][g] = ParseStep(g, s)
    OBVIOUS
  <1> HIDE DEF F
  <1>3. ASSUME NEW s \in Text, NEW g \in [Text -> V], NEW h \in [Text -> V], Below(Symbols, g, h, s)
        PROVE  F[s][g] = F[s][h]
    BY <1>2, <1>3, ParseStepIs
  <1>4. V # {}
    <2>1. <<>> \in V
      OBVIOUS
    <2> QED BY <2>1
  <1> HIDE DEF V
  <1>5. PICK g : Recursive(Symbols, V, F, g)
    <2>1. FromBelow(Symbols, V, F)
      BY <1>1, <1>3 DEF Text, FromBelow
    <2> QED BY <2>1, <1>4, RecursionExists
  <1>6. g = [s \in Text |-> ParseStep(g, s)]
    BY <1>2, <1>5 DEF Recursive, Text
  <1>7. Is(g)
    BY <1>6
  <1>8. Is(c)
    <2> HIDE DEF Is
    <2> QED BY <1>7
  <1>9. parse_invoke_blocks = c
    BY DEF parse_invoke_blocks, ParseStep, Text
  <1> HIDE DEF c
  <1>10. \A s \in Text : c[s] = ParseStep(c, s)
    BY <1>8
  <1>11. \A s \in Text : g[s] = ParseStep(g, s)
    BY <1>6
  <1>12. ASSUME NEW s \in Seq(Symbols), Below(Symbols, c, g, s)
         PROVE  c[s] = g[s]
    BY <1>12, <1>10, <1>11, ParseStepIs DEF Text
  <1>13. Same(Symbols, c, g)
    <2>1. Decided(Symbols, c, g)
      BY <1>12 DEF Decided
    <2> QED BY <2>1, Agree
  <1> QED BY <1>5, <1>9, <1>10, <1>13 DEF V, Text, Recursive, Same
-----------------------------------------------------------------------------
(* extract_tool_calls, by what it is for shorter texts. *)
ExtractStep(g, s) ==
    LET open == find_open_tag(s)
        close == find_close_tag(s, OpenEnd(s, open) + 1, "/")
        calls == parse_invoke_blocks[SubSeq(s, OpenEnd(s, open) + 1, close - 1)]
        rest == g[From(s, close + 1)]
    IN  IF open = 0 \/ close = 0 THEN [cleaned |-> s, calls |-> <<>>]
        ELSE [cleaned |-> UpTo(s, IF calls = <<>> THEN close ELSE open - 1) \o rest.cleaned,
              calls |-> calls \o rest.calls]

Extraction == [cleaned : Text, calls : Seq(Commands)]

(* A block that is closed: its tag, its body and the text behind it. *)
LEMMA ClosedBlock ==
    ASSUME NEW s \in Text, NEW p \in 1..Len(s), OpenEnd(s, p) # 0,
           find_close_tag(s, OpenEnd(s, p) + 1, "/") # 0
    PROVE  LET end == OpenEnd(s, p)
               close == find_close_tag(s, end + 1, "/")
           IN  /\ end \in 1..Len(s) /\ close \in (end + 1)..Len(s) /\ close \in 1..Len(s)
               /\ SubSeq(s, end + 1, close - 1) \in Text
               /\ From(s, close + 1) \in Text /\ Len(From(s, close + 1)) < Len(s)
  <1> DEFINE end == OpenEnd(s, p)
             close == find_close_tag(s, end + 1, "/")
  <1>0. Len(s) \in Nat
    BY LenProperties DEF Text
  <1>1. end \in 1..Len(s)
    <2>1. end \in 0..Len(s) /\ end # 0
      BY OpenType
    <2> HIDE DEF end
    <2> QED BY <2>1, <1>0
  <1>2. close # 0
    OBVIOUS
  <1> HIDE DEF end
  <1>3. end + 1 \in Nat \ {0}
    BY <1>1
  <1>4. /\ close \in (end + 1)..Len(s) /\ close \in 1..Len(s)
        /\ From(s, close + 1) \in Text /\ Len(From(s, close + 1)) < Len(s)
    BY <1>2, <1>3, Behind
  <1> HIDE DEF close
  <1>5. close - 1 \in Nat /\ end + 1 <= (close - 1) + 1 /\ close - 1 <= Len(s)
    BY <1>0, <1>1, <1>4
  <1>6. SubSeq(s, end + 1, close - 1) \in Text
    BY <1>3, <1>5, PartIs DEF Text
  <1> QED BY <1>1, <1>4, <1>6 DEF end, close

LEMMA ExtractStepIs ==
    ASSUME NEW s \in Text
    PROVE  /\ \A g : (\A r \in Text : g[r] \in Extraction) => ExtractStep(g, s) \in Extraction
           /\ \A g, h : Below(Symbols, g, h, s) => ExtractStep(g, s) = ExtractStep(h, s)
  <1> DEFINE open == find_open_tag(s)
             end == OpenEnd(s, open)
             close == find_close_tag(s, end + 1, "/")
             body == SubSeq(s, end + 1, close - 1)
             rest == From(s, close + 1)
             calls == parse_invoke_blocks[body]
             kept == IF calls = <<>> THEN close ELSE open - 1
  <1>0. Len(s) \in Nat
    BY LenProperties DEF Text
  <1>1. CASE open = 0 \/ close = 0
    <2>1. \A g : ExtractStep(g, s) = [cleaned |-> s, calls |-> <<>>]
      BY <1>1 DEF ExtractStep
    <2>2. <<>> \in Seq(Commands)
      OBVIOUS
    <2>3. [cleaned |-> s, calls |-> <<>>] \in Extraction
      BY <2>2 DEF Extraction
    <2> QED BY <2>1, <2>3
  <1>2. CASE ~(open = 0 \/ close = 0)
    <2>1. open \in 1..Len(s) /\ end # 0
      BY <1>2, FindOpen
    <2>2. close \in 1..Len(s) /\ body \in Text /\ rest \in Text /\ Len(rest) < Len(s)
      BY <1>2, <2>1, ClosedBlock
    <2>3. calls \in Seq(Commands)
      BY <2>2, ParseIs
    <2>4. \A g : ExtractStep(g, s) = [cleaned |-> UpTo(s, kept) \o g[rest].cleaned,
                                      calls |-> calls \o g[rest].calls]
      BY <1>2 DEF ExtractStep
    <2> HIDE DEF open, close, rest, calls
    <2>5. kept \in Nat /\ kept <= Len(s)
      BY <1>0, <2>1, <2>2
    <2> HIDE DEF kept
    <2>6. UpTo(s, kept) \in Text
      BY <2>5, UpToIs DEF Text
    <2>7. ASSUME NEW g, \A r \in Text : g[r] \in Extraction PROVE ExtractStep(g, s) \in Extraction
      <3>1. g[rest].cleaned \in Text /\ g[rest].calls \in Seq(Commands)
        BY <2>2, <2>7 DEF Extraction
      <3>2. UpTo(s, kept) \o g[rest].cleaned \in Text
        BY <2>6, <3>1, JoinIs DEF Text
      <3>3. calls \o g[rest].calls \in Seq(Commands)
        BY <2>3, <3>1, JoinIs
      <3> DEFINE a == UpTo(s, kept) \o g[rest].cleaned
                 b == calls \o g[rest].calls
      <3>4. ExtractStep(g, s) = [cleaned |-> a, calls |-> b]
        BY <2>4
      <3>5. a \in Text /\ b \in Seq(Commands)
        BY <3>2, <3>3
      <3> HIDE DEF a, b
      <3> QED BY <3>4, <3>5 DEF Extraction
    <2>8. ASSUME NEW g, NEW h, Below(Symbols, g, h, s) PROVE ExtractStep(g, s) = ExtractStep(h, s)
      <3>1. g[rest] = h[rest]
        BY <2>2, <2>8 DEF Below, Text
      <3> QED BY <2>4, <3>1
    <2> QED BY <2>7, <2>8
  <1> QED BY <1>1, <1>2

(* extract_tool_calls, for any text: the recursive definition has a        *)
(* solution, and each value is made of those of shorter texts.             *)
THEOREM ExtractIs ==
    \A s \in Text : /\ extract_tool_calls[s] = ExtractStep(extract_tool_calls, s)
                    /\ extract_tool_calls[s] \in Extraction
  <1> DEFINE V == Extraction
             F == [s \in Text |-> [g \in [Text -> V] |-> ExtractStep(g, s)]]
             Is(x) == x = [s \in Text |-> ExtractStep(x, s)]
             c == CHOOSE x : Is(x)
  <1>1. F \in [Text -> [[Text -> V] -> V]]
    BY ExtractStepIs
  <1>2. \A s \in Text : \A g \in [Text -> V] : F[s][g] = ExtractStep(g, s)
    OBVIOUS
  <1> HIDE DEF F
  <1>3. ASSUME NEW s \in Text, NEW g \in [Text -> V], NEW h \in [Text -> V], Below(Symbols, g, h, s)
        PROVE  F[s][g] = F[s][h]
    BY <1>2, <1>3, ExtractStepIs
  <1>4. V # {}
    <2>1. <<>> \in Text /\ <<>> \in Seq(Commands)
      BY DEF Text
    <2>2. [cleaned |-> <<>>, calls |-> <<>>] \in V
      BY <2>1 DEF Extraction
    <2> QED BY <2>2
  <1> HIDE DEF V
  <1>5. PICK g : Recursive(Symbols, V, F, g)
    <2>1. FromBelow(Symbols, V, F)
      BY <1>1, <1>3 DEF Text, FromBelow
    <2> QED BY <2>1, <1>4, RecursionExists
  <1>6. g = [s \in Text |-> ExtractStep(g, s)]
    BY <1>2, <1>5 DEF Recursive, Text
  <1>7. Is(g)
    BY <1>6
  <1>8. Is(c)
    <2> HIDE DEF Is
    <2> QED BY <1>7
  <1>9. extract_tool_calls = c
    BY DEF extract_tool_calls, ExtractStep, Text
  <1> HIDE DEF c
  <1>10. \A s \in Text : c[s] = ExtractStep(c, s)
    BY <1>8
  <1>11. \A s \in Text : g[s] = ExtractStep(g, s)
    BY <1>6
  <1>12. ASSUME NEW s \in Seq(Symbols), Below(Symbols, c, g, s)
         PROVE  c[s] = g[s]
    BY <1>12, <1>10, <1>11, ExtractStepIs DEF Text
  <1>13. Same(Symbols, c, g)
    <2>1. Decided(Symbols, c, g)
      BY <1>12 DEF Decided
    <2> QED BY <2>1, Agree
  <1> QED BY <1>5, <1>9, <1>10, <1>13 DEF V, Text, Recursive, Same
-----------------------------------------------------------------------------
(* The accumulators and what ingest returns. *)
Holding == {acc \in Accumulator : acc.in_dsml => acc.buf # <<>>}
Ingestion == [acc : Holding, text : Text, calls : Seq(Commands), dropped : Text]

LEMMA KeptIs ==
    ASSUME NEW s \in Text
    PROVE  /\ KeptFrom(s) \in 1..(Len(s) + 1)
           /\ \A q \in 1..(KeptFrom(s) - 1) : ~could_be_open_tag_prefix(From(s, q))
  <1>0. Len(s) \in Nat /\ DOMAIN s = 1..Len(s)
    BY LenProperties DEF Text
  <1> DEFINE T == {q \in 1..Len(s) : could_be_open_tag_prefix(From(s, q))} \cup {Len(s) + 1}
             k == Min(T)
  <1>1. T \in SUBSET Nat /\ T # {}
    BY <1>0
  <1>2. k \in T /\ \A y \in T : k <= y
    <2> HIDE DEF T
    <2> QED BY <1>1, MinIs
  <1>3. KeptFrom(s) = k
    BY <1>0 DEF KeptFrom
  <1>4. \A x \in T : x \in 1..(Len(s) + 1)
    BY <1>0
  <1> HIDE DEF k
  <1>5. k \in 1..(Len(s) + 1)
    BY <1>2, <1>4
  <1>6. ASSUME NEW q \in 1..(k - 1), could_be_open_tag_prefix(From(s, q)) PROVE FALSE
    <2>1. q \in 1..Len(s) /\ ~(k <= q)
      BY <1>0, <1>5
    <2>2. q \in T
      BY <2>1, <1>6
    <2> QED BY <2>1, <2>2, <1>2
  <1> QED BY <1>3, <1>5, <1>6

(* What is shown and what is kept back are the buffer. *)
LEMMA IngestTextIs ==
    ASSUME NEW s \in Text
    PROVE  IngestText(s) \in Ingestion
  <1>1. KeptFrom(s) \in 1..(Len(s) + 1) /\ Len(s) \in Nat
    BY KeptIs, LenProperties DEF Text
  <1> DEFINE k == KeptFrom(s)
  <1> HIDE DEF k
  <1>2. k \in Nat \ {0} /\ k <= Len(s) + 1 /\ k - 1 \in Nat /\ k - 1 <= Len(s)
    BY <1>1 DEF k
  <1>3. From(s, k) \in Seq(Symbols) /\ UpTo(s, k - 1) \in Seq(Symbols)
    BY <1>2, FromIs, UpToIs DEF Text
  <1>4. <<>> \in Seq(Commands) /\ <<>> \in Text
    BY DEF Text
  <1>5. IngestText(s) = [acc |-> [buf |-> From(s, k), in_dsml |-> FALSE],
                         text |-> UpTo(s, k - 1), calls |-> <<>>, dropped |-> <<>>]
    BY DEF IngestText, Ingested, k
  <1>6. [buf |-> From(s, k), in_dsml |-> FALSE] \in Holding
    BY <1>3 DEF Holding, Accumulator
  <1> QED BY <1>3, <1>4, <1>5, <1>6 DEF Ingestion, Text

(* IngestBlock, with the text it is about. *)
LEMMA IngestBlockIs ==
    ASSUME NEW s \in Text, NEW open \in 1..Len(s)
    PROVE  /\ \A g : (\A r \in Text : g[r] \in Ingestion) => IngestBlock(g, s, open) \in Ingestion
           /\ \A g, h : Below(Symbols, g, h, s) => IngestBlock(g, s, open) = IngestBlock(h, s, open)
  <1> DEFINE before == UpTo(s, open - 1)
             buf == From(s, open)
             close == find_close_tag(buf, 1, "/")
             block == extract_tool_calls[UpTo(buf, close)]
             rest == From(buf, close + 1)
  <1>0. Len(s) \in Nat /\ open \in Nat \ {0} /\ open <= Len(s) + 1
        /\ open - 1 \in Nat /\ open - 1 <= Len(s)
    BY LenProperties DEF Text
  <1>1. before \in Text
    BY <1>0, UpToIs DEF Text
  <1>2. buf \in Text /\ Len(buf) = (Len(s) + 1) - open
    BY <1>0, FromIs DEF Text
  <1>3. <<>> \in Text /\ <<>> \in Seq(Commands)
    BY DEF Text
  <1> HIDE DEF before, buf
  <1>4. Len(buf) \in Nat /\ Len(buf) <= Len(s)
    BY <1>0, <1>2
  <1>5. CASE close = 0
    <2>1. \A g : IngestBlock(g, s, open) = [acc |-> [buf |-> buf, in_dsml |-> TRUE],
                text |-> <<>>, calls |-> <<>>, dropped |-> before]
      BY <1>5 DEF IngestBlock, Ingested, before, buf
    <2>2. [acc |-> [buf |-> buf, in_dsml |-> TRUE],
           text |-> <<>>, calls |-> <<>>, dropped |-> before] \in Ingestion
      <3>1. buf # <<>>
        BY <1>0, <1>2
      <3>2. [buf |-> buf, in_dsml |-> TRUE] \in Holding
        BY <3>1, <1>2 DEF Holding, Accumulator, Text
      <3> QED BY <3>2, <1>1, <1>3 DEF Ingestion
    <2> QED BY <2>1, <2>2
  <1>6. CASE close # 0
    <2>1. close \in 1..Len(buf) /\ rest \in Text /\ Len(rest) < Len(buf)
      BY <1>2, <1>6, Behind
    <2> HIDE DEF close
    <2>2. close \in Nat /\ close <= Len(buf)
      BY <2>1
    <2>3. UpTo(buf, close) \in Text
      BY <1>2, <2>2, UpToIs DEF Text
    <2>4. block.cleaned \in Text /\ block.calls \in Seq(Commands)
      BY <2>3, ExtractIs DEF Extraction
    <2>5. \A g : IngestBlock(g, s, open) =
              [acc |-> g[rest].acc, text |-> before \o g[rest].text,
               calls |-> block.calls \o g[rest].calls,
               dropped |-> block.cleaned \o g[rest].dropped]
      BY <1>6 DEF IngestBlock, Ingested, before, buf, close
    <2> HIDE DEF rest, block
    <2>6. Len(rest) < Len(s)
      <3>1. Len(rest) \in Nat
        BY <2>1, LenProperties DEF Text
      <3> QED BY <3>1, <1>0, <1>4, <2>1
    <2>7. ASSUME NEW g, \A r \in Text : g[r] \in Ingestion PROVE IngestBlock(g, s, open) \in Ingestion
      <3>1. /\ g[rest].acc \in Holding /\ g[rest].text \in Text
            /\ g[rest].calls \in Seq(Commands) /\ g[rest].dropped \in Text
        BY <2>1, <2>7 DEF Ingestion
      <3>2. before \o g[rest].text \in Text
        BY <1>1, <3>1, JoinIs DEF Text
      <3>3. block.calls \o g[rest].calls \in Seq(Commands)
        BY <2>4, <3>1, JoinIs
      <3>4. block.cleaned \o g[rest].dropped \in Text
        BY <2>4, <3>1, JoinIs DEF Text
      <3> DEFINE a == before \o g[rest].text
                 b == block.calls \o g[rest].calls
                 d == block.cleaned \o g[rest].dropped
      <3>5. IngestBlock(g, s, open) = [acc |-> g[rest].acc, text |-> a, calls |-> b, dropped |-> d]
        BY <2>5
      <3>6. a \in Text /\ b \in Seq(Commands) /\ d \in Text
        BY <3>2, <3>3, <3>4
      <3> HIDE DEF a, b, d
      <3> QED BY <3>1, <3>5, <3>6 DEF Ingestion
    <2>8. ASSUME NEW g, NEW h, Below(Symbols, g, h, s)
          PROVE  IngestBlock(g, s, open) = IngestBlock(h, s, open)
      <3>1. g[rest] = h[rest]
        BY <2>1, <2>6, <2>8 DEF Below, Text
      <3> QED BY <2>5, <3>1
    <2> QED BY <2>7, <2>8
  <1> QED BY <1>5, <1>6

(* ingest_text, by what it is for shorter texts. *)
IngestStep(g, s) ==
    IF find_open_tag(s) = 0 THEN IngestText(s) ELSE IngestBlock(g, s, find_open_tag(s))

LEMMA IngestStepIs ==
    ASSUME NEW s \in Text
    PROVE  /\ \A g : (\A r \in Text : g[r] \in Ingestion) => IngestStep(g, s) \in Ingestion
           /\ \A g, h : Below(Symbols, g, h, s) => IngestStep(g, s) = IngestStep(h, s)
  <1>1. CASE find_open_tag(s) = 0
    BY <1>1, IngestTextIs DEF IngestStep
  <1>2. CASE find_open_tag(s) # 0
    <2> DEFINE open == find_open_tag(s)
    <2>1. open \in 1..Len(s)
      BY <1>2, FindOpen
    <2>2. \A g : IngestStep(g, s) = IngestBlock(g, s, open)
      BY <1>2 DEF IngestStep
    <2> HIDE DEF open
    <2>3. /\ \A g : (\A r \in Text : g[r] \in Ingestion) => IngestBlock(g, s, open) \in Ingestion
          /\ \A g, h : Below(Symbols, g, h, s) => IngestBlock(g, s, open) = IngestBlock(h, s, open)
      BY <2>1, IngestBlockIs
    <2> QED BY <2>2, <2>3
  <1> QED BY <1>1, <1>2

(* The same of ingest_text, the loop of DsmlAccumulator::ingest.           *)
THEOREM IngestIs ==
    \A s \in Text : /\ ingest_text[s] = IngestStep(ingest_text, s)
                    /\ ingest_text[s] \in Ingestion
  <1> DEFINE V == Ingestion
             F == [s \in Text |-> [g \in [Text -> V] |-> IngestStep(g, s)]]
             Is(x) == x = [s \in Text |-> IngestStep(x, s)]
             c == CHOOSE x : Is(x)
  <1>1. F \in [Text -> [[Text -> V] -> V]]
    BY IngestStepIs
  <1>2. \A s \in Text : \A g \in [Text -> V] : F[s][g] = IngestStep(g, s)
    OBVIOUS
  <1> HIDE DEF F
  <1>3. ASSUME NEW s \in Text, NEW g \in [Text -> V], NEW h \in [Text -> V], Below(Symbols, g, h, s)
        PROVE  F[s][g] = F[s][h]
    BY <1>2, <1>3, IngestStepIs
  <1>4. V # {}
    <2>1. <<>> \in Text
      BY DEF Text
    <2>2. IngestText(<<>>) \in V
      BY <2>1, IngestTextIs
    <2> QED BY <2>2
  <1> HIDE DEF V
  <1>5. PICK g : Recursive(Symbols, V, F, g)
    <2>1. FromBelow(Symbols, V, F)
      BY <1>1, <1>3 DEF Text, FromBelow
    <2> QED BY <2>1, <1>4, RecursionExists
  <1>6. g = [s \in Text |-> IngestStep(g, s)]
    BY <1>2, <1>5 DEF Recursive, Text
  <1>7. Is(g)
    BY <1>6
  <1>8. Is(c)
    <2> HIDE DEF Is
    <2> QED BY <1>7
  <1>9. ingest_text = c
    BY DEF ingest_text, IngestStep, Text
  <1> HIDE DEF c
  <1>10. \A s \in Text : c[s] = IngestStep(c, s)
    BY <1>8
  <1>11. \A s \in Text : g[s] = IngestStep(g, s)
    BY <1>6
  <1>12. ASSUME NEW s \in Seq(Symbols), Below(Symbols, c, g, s)
         PROVE  c[s] = g[s]
    BY <1>12, <1>10, <1>11, IngestStepIs DEF Text
  <1>13. Same(Symbols, c, g)
    <2>1. Decided(Symbols, c, g)
      BY <1>12 DEF Decided
    <2> QED BY <2>1, Agree
  <1> QED BY <1>5, <1>9, <1>10, <1>13 DEF V, Text, Recursive, Same
-----------------------------------------------------------------------------
(* Parts of a joined text. *)

LEMMA PartJoin ==
    ASSUME NEW S, NEW a \in Seq(S), NEW b \in Seq(S),
           NEW i \in Nat \ {0}, NEW j \in Nat, i <= j + 1, j <= Len(b)
    PROVE  SubSeq(a \o b, Len(a) + i, Len(a) + j) = SubSeq(b, i, j)
  <1>0. Len(a) \in Nat /\ Len(b) \in Nat
    BY LenProperties
  <1> DEFINE c == a \o b
             n == Len(a)
             x == SubSeq(c, n + i, n + j)
             y == SubSeq(b, i, j)
  <1>1. /\ c \in Seq(S) /\ Len(c) = n + Len(b)
        /\ \A q \in 1..Len(b) : c[n + q] = b[q]
    BY JoinIs
  <1> HIDE DEF c, n
  <1>2. n \in Nat
    BY <1>0 DEF n
  <1>3. n + i \in Nat \ {0} /\ n + j \in Nat /\ n + i <= (n + j) + 1 /\ n + j <= Len(c)
    BY <1>0, <1>1, <1>2
  <1>4. /\ x \in Seq(S) /\ Len(x) = ((n + j) + 1) - (n + i)
        /\ \A q \in 1..(((n + j) + 1) - (n + i)) : x[q] = c[((n + i) + q) - 1]
    BY <1>1, <1>3, PartIs
  <1>5. /\ y \in Seq(S) /\ Len(y) = (j + 1) - i
        /\ \A q \in 1..((j + 1) - i) : y[q] = b[(i + q) - 1]
    BY PartIs
  <1> HIDE DEF x, y
  <1>6. Len(x) = Len(y)
    BY <1>2, <1>4, <1>5
  <1>7. ASSUME NEW q \in 1..Len(y) PROVE x[q] = y[q]
    <2>1. q \in 1..(((n + j) + 1) - (n + i)) /\ q \in 1..((j + 1) - i)
      BY <1>2, <1>5
    <2>2. (i + q) - 1 \in 1..Len(b) /\ ((n + i) + q) - 1 = n + ((i + q) - 1)
      BY <1>0, <1>2, <2>1
    <2>3. x[q] = c[n + ((i + q) - 1)] /\ y[q] = b[(i + q) - 1]
      BY <1>4, <1>5, <2>1, <2>2
    <2> QED BY <2>2, <2>3, <1>1
  <1>8. x = y
    BY <1>4, <1>5, <1>6, <1>7, SeqEqual
  <1> QED BY <1>8 DEF x, y, c, n

LEMMA UpToWithin ==
    ASSUME NEW S, NEW a \in Seq(S), NEW b \in Seq(S), NEW j \in Nat, j <= Len(b)
    PROVE  UpTo(a \o b, Len(a) + j) = a \o UpTo(b, j)
  <1>0. Len(a) \in Nat /\ Len(b) \in Nat
    BY LenProperties
  <1> DEFINE c == a \o b
             n == Len(a)
             x == UpTo(c, n + j)
             u == UpTo(b, j)
             y == a \o u
  <1>1. /\ c \in Seq(S) /\ Len(c) = n + Len(b)
        /\ \A q \in 1..n : c[q] = a[q]
        /\ \A q \in 1..Len(b) : c[n + q] = b[q]
    BY JoinIs
  <1>2. u \in Seq(S) /\ Len(u) = j /\ \A q \in 1..j : u[q] = b[q]
    BY UpToIs
  <1> HIDE DEF c, u
  <1>3. /\ y \in Seq(S) /\ Len(y) = n + Len(u)
        /\ \A q \in 1..n : y[q] = a[q]
        /\ \A q \in 1..Len(u) : y[n + q] = u[q]
    <2>1. u \in Seq(S)
      BY <1>2
    <2> QED BY <2>1, JoinIs
  <1> HIDE DEF n, y
  <1>4. n \in Nat /\ n + j \in Nat /\ n + j <= Len(c)
    BY <1>0, <1>1 DEF n
  <1>5. x \in Seq(S) /\ Len(x) = n + j /\ \A q \in 1..(n + j) : x[q] = c[q]
    BY <1>1, <1>4, UpToIs
  <1> HIDE DEF x
  <1>6. ASSUME NEW q \in 1..Len(x) PROVE x[q] = y[q]
    <2>1. q \in 1..(n + j) /\ x[q] = c[q]
      BY <1>5
    <2>2. CASE q <= n
      <3>1. q \in 1..n
        BY <2>1, <2>2
      <3> QED BY <3>1, <2>1, <1>1, <1>3
    <2>3. CASE ~(q <= n)
      <3>1. q - n \in 1..j /\ q - n \in 1..Len(b) /\ q - n \in 1..Len(u) /\ n + (q - n) = q
        BY <1>0, <1>2, <1>4, <2>1, <2>3
      <3>2. c[n + (q - n)] = b[q - n] /\ y[n + (q - n)] = u[q - n] /\ u[q - n] = b[q - n]
        BY <3>1, <1>1, <1>2, <1>3
      <3> QED BY <3>1, <3>2, <2>1
    <2> QED BY <2>2, <2>3
  <1>7. Len(x) = Len(y)
    BY <1>2, <1>3, <1>5
  <1>8. x = y
    BY <1>3, <1>5, <1>6, <1>7, SeqEqual
  <1> QED BY <1>8 DEF x, y, u, c, n

LEMMA CloseJoin ==
    ASSUME NEW S, NEW a \in Seq(S), NEW b \in Seq(S), NEW i \in Nat \ {0}, NEW c
    PROVE  find_close_tag(a \o b, Len(a) + i, c)
             = IF find_close_tag(b, i, c) = 0 THEN 0 ELSE Len(a) + find_close_tag(b, i, c)
  <1>0. Len(a) \in Nat /\ Len(b) \in Nat
    BY LenProperties
  <1> DEFINE n == Len(a)
             w == a \o b
             k == find_close_tag(b, i, c)
             l == find_close_tag(w, n + i, c)
  <1>1. /\ w \in Seq(S) /\ Len(w) = n + Len(b)
        /\ \A q \in 1..Len(b) : w[n + q] = b[q]
    BY JoinIs
  <1>2. /\ k = 0 <=> \A q \in i..Len(b) : b[q] # c
        /\ k # 0 => k \in i..Len(b) /\ b[k] = c /\ \A q \in i..(k - 1) : b[q] # c
    BY CloseIs
  <1> HIDE DEF n, w, k
  <1>3. n \in Nat /\ n + i \in Nat \ {0}
    BY <1>0 DEF n
  <1>4. /\ l = 0 <=> \A q \in (n + i)..Len(w) : w[q] # c
        /\ \A m \in (n + i)..Len(w) : w[m] = c /\ (\A q \in (n + i)..(m - 1) : w[q] # c) => l = m
    BY <1>1, <1>3, CloseIs
  <1> HIDE DEF l
  <1>5. ASSUME NEW q \in (n + i)..Len(w)
        PROVE  q - n \in i..Len(b) /\ w[q] = b[q - n]
    <2>1. q - n \in i..Len(b) /\ q - n \in 1..Len(b) /\ n + (q - n) = q
      BY <1>0, <1>1, <1>3
    <2> QED BY <2>1, <1>1
  <1>6. CASE k = 0
    <2>1. \A q \in (n + i)..Len(w) : w[q] # c
      BY <1>2, <1>5, <1>6
    <2> QED BY <2>1, <1>4, <1>6 DEF n, w, k, l
  <1>7. CASE k # 0
    <2>1. k \in i..Len(b) /\ b[k] = c
      BY <1>2, <1>7
    <2>2. n + k \in (n + i)..Len(w) /\ (n + k) - n = k
      BY <1>0, <1>1, <1>3, <2>1
    <2>3. w[n + k] = c
      BY <1>5, <2>1, <2>2
    <2>4. ASSUME NEW q \in (n + i)..((n + k) - 1) PROVE w[q] # c
      <3>1. q \in (n + i)..Len(w) /\ q - n \in i..(k - 1)
        BY <1>0, <1>1, <1>3, <2>1
      <3> QED BY <3>1, <1>2, <1>5, <1>7
    <2>5. l = n + k
      BY <2>2, <2>3, <2>4, <1>4
    <2> QED BY <2>5, <1>7 DEF n, w, k, l
  <1> QED BY <1>6, <1>7

(* A close in the first part is that of the whole. *)
LEMMA CloseFirst ==
    ASSUME NEW S, NEW a \in Seq(S), NEW b \in Seq(S), NEW i \in Nat \ {0}, NEW c,
           find_close_tag(a, i, c) # 0
    PROVE  find_close_tag(a \o b, i, c) = find_close_tag(a, i, c)
  <1>0. Len(a) \in Nat /\ Len(b) \in Nat
    BY LenProperties
  <1> DEFINE w == a \o b
             k == find_close_tag(a, i, c)
             l == find_close_tag(w, i, c)
  <1>1. /\ w \in Seq(S) /\ Len(w) = Len(a) + Len(b)
        /\ \A q \in 1..Len(a) : w[q] = a[q]
    BY JoinIs
  <1>2. k \in i..Len(a) /\ a[k] = c /\ \A q \in i..(k - 1) : a[q] # c
    BY CloseIs
  <1> HIDE DEF w, k
  <1>3. \A m \in i..Len(w) : w[m] = c /\ (\A q \in i..(m - 1) : w[q] # c) => l = m
    BY <1>1, CloseIs
  <1> HIDE DEF l
  <1>4. k \in i..Len(w) /\ k \in 1..Len(a)
    BY <1>0, <1>1, <1>2
  <1>5. \A q \in i..(k - 1) : q \in 1..Len(a)
    BY <1>0, <1>4
  <1>6. l = k
    BY <1>1, <1>2, <1>3, <1>4, <1>5
  <1> QED BY <1>6 DEF l, k, w
-----------------------------------------------------------------------------
(* An opening tag, in a text whose tags have no white space behind the     *)
(* name: what decides is between its ends.                                 *)

Opens(s, p, k) ==
    /\ p \in 1..Len(s) /\ k \in 1..Len(s) /\ p + 2 <= k
    /\ s[p] = "<" /\ s[k - 1] = "n" /\ s[k] = ">"
    /\ \A q \in (p + 1)..(k - 2) : s[q] = "s"

(* That is what match_open_tag_at finds. *)
LEMMA OpensIs ==
    ASSUME NEW s \in Text, ~Spaced(s), NEW p \in 1..Len(s)
    PROVE  /\ OpenEnd(s, p) # 0 => Opens(s, p, OpenEnd(s, p))
           /\ \A k : Opens(s, p, k) => OpenEnd(s, p) = k
  <1>0. Len(s) \in Nat /\ DOMAIN s = 1..Len(s) /\ p \in Nat
        /\ p + 1 \in Nat \ {0} /\ p + 1 <= Len(s) + 1
    BY LenProperties DEF Text
  <1> DEFINE name == SkipSpaces(s, p + 1)
  <1>1. /\ name \in (p + 1)..(Len(s) + 1)
        /\ \A q \in (p + 1)..(name - 1) : s[q] = "s"
        /\ \A n \in (p + 1)..Len(s) :
              s[n] # "s" /\ (\A q \in (p + 1)..(n - 1) : s[q] = "s") => name = n
    BY <1>0, SkipIs DEF Text
  <1> HIDE DEF name
  <1>2. OpenEnd(s, p) = IF s[p] = "<" THEN IF At(s, name, "n") THEN TagEnd(s, name) ELSE 0 ELSE 0
    BY DEF OpenEnd, BlockEnd, name
  <1>3. At(s, name, "n") => TagEnd(s, name) = IF At(s, name + 1, ">") THEN name + 1 ELSE 0
    <2>1. At(s, name, "n") => name \in 1..Len(s) /\ s[name] = "n"
      BY <1>0, <1>1 DEF At
    <2>2. At(s, name, "n") => ~At(s, name + 1, "s")
      BY <2>1, <1>0 DEF Spaced
    <2> QED BY <2>2 DEF TagEnd
  <1>4. ASSUME OpenEnd(s, p) # 0 PROVE Opens(s, p, OpenEnd(s, p))
    <2>1. s[p] = "<" /\ At(s, name, "n") /\ At(s, name + 1, ">") /\ OpenEnd(s, p) = name + 1
      BY <1>2, <1>3, <1>4
    <2>2. name <= Len(s) /\ s[name] = "n" /\ name + 1 <= Len(s) /\ s[name + 1] = ">"
      BY <2>1 DEF At
    <2>3. (name + 1) - 1 = name /\ (name + 1) - 2 = name - 1 /\ name + 1 \in 1..Len(s)
          /\ p + 2 <= name + 1
      BY <1>0, <1>1, <2>2
    <2>4. Opens(s, p, name + 1)
      BY <2>1, <2>2, <2>3, <1>1 DEF Opens
    <2> QED BY <2>1, <2>4
  <1>5. ASSUME NEW k, Opens(s, p, k) PROVE OpenEnd(s, p) = k
    <2>1. /\ k \in 1..Len(s) /\ p + 2 <= k
          /\ s[p] = "<" /\ s[k - 1] = "n" /\ s[k] = ">"
          /\ \A q \in (p + 1)..(k - 2) : s[q] = "s"
      BY <1>5 DEF Opens
    <2>2. k - 1 \in (p + 1)..Len(s) /\ (k - 1) - 1 = k - 2 /\ (k - 1) + 1 = k /\ k \in Nat
      BY <1>0, <2>1
    <2>3. name = k - 1
      <3>1. s[k - 1] # "s" /\ \A q \in (p + 1)..((k - 1) - 1) : s[q] = "s"
        BY <2>1, <2>2
      <3> QED BY <3>1, <2>2, <1>1
    <2>4. At(s, name, "n") /\ At(s, name + 1, ">") /\ name + 1 = k
      BY <2>1, <2>2, <2>3, <1>0 DEF At
    <2> QED BY <2>1, <2>4, <1>2, <1>3
  <1> QED BY <1>4, <1>5

(* A tag of the first part is one of the whole, and the other way round. *)
LEMMA OpensJoin ==
    ASSUME NEW a \in Text, NEW b \in Text
    PROVE  /\ \A p, k : Opens(a, p, k) => Opens(a \o b, p, k)
           /\ \A p, k : Opens(a \o b, p, k) /\ k <= Len(a) => Opens(a, p, k)
           /\ \A p, k : Opens(b, p, k) => Opens(a \o b, Len(a) + p, Len(a) + k)
           /\ \A p, k : Opens(a \o b, p, k) /\ p > Len(a) => Opens(b, p - Len(a), k - Len(a))
  <1>0. Len(a) \in Nat /\ Len(b) \in Nat
    BY LenProperties DEF Text
  <1> DEFINE n == Len(a)
             w == a \o b
  <1>1. /\ Len(w) = n + Len(b)
        /\ \A q \in 1..n : w[q] = a[q]
        /\ \A q \in 1..Len(b) : w[n + q] = b[q]
    BY JoinIs DEF Text
  <1> HIDE DEF w
  <1>2. ASSUME NEW p, NEW k, Opens(a, p, k) PROVE Opens(w, p, k)
    <2>1. /\ p \in 1..n /\ k \in 1..n /\ p + 2 <= k
          /\ a[p] = "<" /\ a[k - 1] = "n" /\ a[k] = ">"
          /\ \A q \in (p + 1)..(k - 2) : a[q] = "s"
      BY <1>2 DEF Opens
    <2>2. /\ p \in 1..Len(w) /\ k \in 1..Len(w) /\ k - 1 \in 1..n
          /\ \A q \in (p + 1)..(k - 2) : q \in 1..n
      BY <1>0, <1>1, <2>1
    <2> QED BY <2>1, <2>2, <1>1 DEF Opens
  <1>3. ASSUME NEW p, NEW k, Opens(w, p, k), k <= n PROVE Opens(a, p, k)
    <2>1. /\ p \in 1..Len(w) /\ k \in 1..Len(w) /\ p + 2 <= k
          /\ w[p] = "<" /\ w[k - 1] = "n" /\ w[k] = ">"
          /\ \A q \in (p + 1)..(k - 2) : w[q] = "s"
      BY <1>3 DEF Opens
    <2>2. /\ p \in 1..n /\ k \in 1..n /\ k - 1 \in 1..n
          /\ \A q \in (p + 1)..(k - 2) : q \in 1..n
      BY <1>0, <1>1, <1>3, <2>1
    <2> QED BY <2>1, <2>2, <1>1 DEF Opens
  <1>4. ASSUME NEW p, NEW k, Opens(b, p, k) PROVE Opens(w, n + p, n + k)
    <2>1. /\ p \in 1..Len(b) /\ k \in 1..Len(b) /\ p + 2 <= k
          /\ b[p] = "<" /\ b[k - 1] = "n" /\ b[k] = ">"
          /\ \A q \in (p + 1)..(k - 2) : b[q] = "s"
      BY <1>4 DEF Opens
    <2>2. /\ n + p \in 1..Len(w) /\ n + k \in 1..Len(w) /\ k - 1 \in 1..Len(b)
          /\ (n + p) + 2 <= n + k /\ (n + k) - 1 = n + (k - 1)
      BY <1>0, <1>1, <2>1
    <2>3. ASSUME NEW q \in ((n + p) + 1)..((n + k) - 2) PROVE w[q] = "s"
      <3>1. q - n \in (p + 1)..(k - 2) /\ q - n \in 1..Len(b) /\ n + (q - n) = q
        BY <1>0, <2>1
      <3> QED BY <3>1, <2>1, <1>1
    <2> HIDE DEF n
    <2> QED BY <2>1, <2>2, <2>3, <1>1 DEF Opens
  <1>5. ASSUME NEW p, NEW k, Opens(w, p, k), p > n PROVE Opens(b, p - n, k - n)
    <2>1. /\ p \in 1..Len(w) /\ k \in 1..Len(w) /\ p + 2 <= k
          /\ w[p] = "<" /\ w[k - 1] = "n" /\ w[k] = ">"
          /\ \A q \in (p + 1)..(k - 2) : w[q] = "s"
      BY <1>5 DEF Opens
    <2>2. /\ p - n \in 1..Len(b) /\ k - n \in 1..Len(b) /\ (k - n) - 1 \in 1..Len(b)
          /\ (p - n) + 2 <= k - n /\ n + (p - n) = p /\ n + (k - n) = k
          /\ n + ((k - n) - 1) = k - 1
      BY <1>0, <1>1, <1>5, <2>1
    <2>3. ASSUME NEW q \in ((p - n) + 1)..((k - n) - 2) PROVE b[q] = "s"
      <3>1. n + q \in (p + 1)..(k - 2) /\ q \in 1..Len(b)
        BY <1>0, <1>1, <1>5, <2>1
      <3> QED BY <3>1, <2>1, <1>1
    <2> HIDE DEF n
    <2>4. b[p - n] = "<" /\ b[(k - n) - 1] = "n" /\ b[k - n] = ">"
      BY <2>1, <2>2, <1>1
    <2> QED BY <2>2, <2>3, <2>4 DEF Opens
  <1> QED BY <1>2, <1>3, <1>4, <1>5 DEF w, n

(* What follows makes no tag of a part spaced that was not. *)
LEMMA SpacedJoin ==
    ASSUME NEW a \in Text, NEW b \in Text, ~Spaced(a \o b)
    PROVE  ~Spaced(a) /\ ~Spaced(b)
  <1>0. /\ Len(a) \in Nat /\ Len(b) \in Nat
        /\ DOMAIN a = 1..Len(a) /\ DOMAIN b = 1..Len(b)
    BY LenProperties DEF Text
  <1> DEFINE n == Len(a)
             w == a \o b
  <1>1. /\ w \in Text /\ Len(w) = n + Len(b)
        /\ \A q \in 1..n : w[q] = a[q]
        /\ \A q \in 1..Len(b) : w[n + q] = b[q]
    BY JoinIs DEF Text
  <1> HIDE DEF w
  <1>2. \A p \in 1..Len(w) : ~(w[p] = "n" /\ At(w, p + 1, "s"))
    <2>1. DOMAIN w = 1..Len(w)
      BY <1>1, LenProperties DEF Text
    <2>2. ~Spaced(w)
      BY DEF w
    <2> QED BY <2>1, <2>2 DEF Spaced
  <1>3. ASSUME NEW p \in 1..n, a[p] = "n", At(a, p + 1, "s") PROVE FALSE
    <2>1. p + 1 <= n /\ a[p + 1] = "s"
      BY <1>3 DEF At
    <2>2. p + 1 \in 1..n /\ p \in 1..Len(w) /\ p + 1 <= Len(w)
      BY <1>0, <1>1, <2>1
    <2>3. w[p] = "n" /\ At(w, p + 1, "s")
      BY <1>1, <1>3, <2>1, <2>2 DEF At
    <2> QED BY <2>2, <2>3, <1>2
  <1>4. ASSUME NEW p \in 1..Len(b), b[p] = "n", At(b, p + 1, "s") PROVE FALSE
    <2>1. p + 1 <= Len(b) /\ b[p + 1] = "s"
      BY <1>4 DEF At
    <2>2. /\ p + 1 \in 1..Len(b) /\ n + p \in 1..Len(w) /\ n + (p + 1) <= Len(w)
          /\ (n + p) + 1 = n + (p + 1)
      BY <1>0, <1>1, <2>1
    <2>3. w[n + p] = "n" /\ w[n + (p + 1)] = "s"
      BY <1>1, <1>4, <2>1, <2>2
    <2>4. At(w, (n + p) + 1, "s")
      BY <2>2, <2>3 DEF At
    <2> QED BY <2>2, <2>3, <2>4, <1>2
  <1> QED BY <1>0, <1>3, <1>4 DEF Spaced
-----------------------------------------------------------------------------
(* What extract_tool_calls makes of a text by its first block. *)

LEMMA Associative ==
    ASSUME NEW S, NEW a \in Seq(S), NEW b \in Seq(S), NEW c \in Seq(S)
    PROVE  (a \o b) \o c = a \o (b \o c)
  BY ConcatAssociative

(* A text without a block stays as it is. *)
LEMMA NoBlock ==
    ASSUME NEW s \in Text,
           \/ find_open_tag(s) = 0
           \/ find_close_tag(s, OpenEnd(s, find_open_tag(s)) + 1, "/") = 0
    PROVE  extract_tool_calls[s] = [cleaned |-> s, calls |-> <<>>]
  BY ExtractIs DEF ExtractStep

LEMMA NoText ==
    /\ <<>> \in Text
    /\ extract_tool_calls[<<>>] = [cleaned |-> <<>>, calls |-> <<>>]
  <1>1. <<>> \in Text /\ Len(<<>>) = 0
    BY DEF Text
  <1>2. find_open_tag(<<>>) = 0
    BY <1>1, FindOpen
  <1> QED BY <1>1, <1>2, NoBlock

ExtractFrom(s, o, end, close) ==
    LET calls == parse_invoke_blocks[SubSeq(s, end + 1, close - 1)]
        rest == extract_tool_calls[From(s, close + 1)]
    IN  [cleaned |-> UpTo(s, IF calls = <<>> THEN close ELSE o - 1) \o rest.cleaned,
         calls |-> calls \o rest.calls]

(* A text with one gives its calls, and those of what follows. *)
LEMMA FirstBlock ==
    ASSUME NEW s \in Text, NEW o, NEW end, NEW close,
           find_open_tag(s) = o, o # 0, OpenEnd(s, o) = end,
           find_close_tag(s, end + 1, "/") = close, close # 0
    PROVE  extract_tool_calls[s] = ExtractFrom(s, o, end, close)
  BY ExtractIs DEF ExtractStep, ExtractFrom

(* The first tag of a text, by what it looks like. *)
LEMMA FirstOpens ==
    ASSUME NEW s \in Text, ~Spaced(s)
    PROVE  /\ (\A p, k : ~Opens(s, p, k)) <=> find_open_tag(s) = 0
           /\ \A o, end : Opens(s, o, end) /\ (\A p, k : p < o => ~Opens(s, p, k))
                 => find_open_tag(s) = o /\ OpenEnd(s, o) = end
           /\ find_open_tag(s) # 0 =>
                 /\ find_open_tag(s) \in 1..Len(s)
                 /\ Opens(s, find_open_tag(s), OpenEnd(s, find_open_tag(s)))
                 /\ \A p, k : p < find_open_tag(s) => ~Opens(s, p, k)
  <1>0. Len(s) \in Nat
    BY LenProperties DEF Text
  <1>1. ASSUME NEW p, NEW k, Opens(s, p, k)
        PROVE  p \in 1..Len(s) /\ k \in 1..Len(s) /\ OpenEnd(s, p) = k /\ OpenEnd(s, p) # 0
    <2>1. p \in 1..Len(s) /\ k \in 1..Len(s)
      BY <1>1 DEF Opens
    <2>2. OpenEnd(s, p) = k
      BY <1>1, <2>1, OpensIs
    <2>3. k # 0
      BY <1>0, <2>1
    <2> QED BY <2>1, <2>2, <2>3
  <1>2. (\A p, k : ~Opens(s, p, k)) => find_open_tag(s) = 0
    BY FindOpen, OpensIs
  <1>3. find_open_tag(s) = 0 => \A p, k : ~Opens(s, p, k)
    BY <1>1, FindOpen
  <1>4. ASSUME NEW o, NEW end, Opens(s, o, end), \A p, k : p < o => ~Opens(s, p, k)
        PROVE  find_open_tag(s) = o /\ OpenEnd(s, o) = end
    <2>1. o \in 1..Len(s) /\ OpenEnd(s, o) = end /\ OpenEnd(s, o) # 0
      BY <1>1, <1>4
    <2>2. ASSUME NEW p \in 1..(o - 1) PROVE OpenEnd(s, p) = 0
      <3>1. p \in 1..Len(s) /\ p < o
        BY <1>0, <2>1
      <3> QED BY <3>1, <1>4, OpensIs
    <2> QED BY <2>1, <2>2, FindOpen
  <1>5. ASSUME find_open_tag(s) # 0
        PROVE  /\ find_open_tag(s) \in 1..Len(s)
               /\ Opens(s, find_open_tag(s), OpenEnd(s, find_open_tag(s)))
               /\ \A p, k : p < find_open_tag(s) => ~Opens(s, p, k)
    <2> DEFINE o == find_open_tag(s)
    <2>1. o \in 1..Len(s) /\ OpenEnd(s, o) # 0 /\ \A p \in 1..(o - 1) : OpenEnd(s, p) = 0
      BY <1>5, FindOpen
    <2> HIDE DEF o
    <2>2. Opens(s, o, OpenEnd(s, o))
      BY <2>1, OpensIs
    <2>3. ASSUME NEW p, NEW k, p < o, Opens(s, p, k) PROVE FALSE
      <3>1. p \in 1..Len(s) /\ OpenEnd(s, p) # 0
        BY <1>1, <2>3
      <3>2. p \in 1..(o - 1)
        BY <1>0, <2>1, <2>3, <3>1
      <3> QED BY <3>1, <3>2, <2>1
    <2>4. o \in 1..Len(s) /\ Opens(s, o, OpenEnd(s, o)) /\ \A p, k : p < o => ~Opens(s, p, k)
      BY <2>1, <2>2, <2>3
    <2> QED BY <2>4 DEF o
  <1> QED BY <1>2, <1>3, <1>4, <1>5

(* A text in which no tag opens is skipped. *)
LEMMA SkipText ==
    ASSUME NEW u \in Text, NEW v \in Text, ~Spaced(u \o v),
           \A p, k : p <= Len(u) => ~Opens(u \o v, p, k)
    PROVE  /\ extract_tool_calls[u \o v].cleaned = u \o extract_tool_calls[v].cleaned
           /\ extract_tool_calls[u \o v].calls = extract_tool_calls[v].calls
  <1>0. Len(u) \in Nat /\ Len(v) \in Nat
    BY LenProperties DEF Text
  <1> DEFINE w == u \o v
             n == Len(u)
             o == find_open_tag(v)
             end == OpenEnd(v, o)
             close == find_close_tag(v, end + 1, "/")
             body == SubSeq(v, end + 1, close - 1)
             rest == From(v, close + 1)
             calls == parse_invoke_blocks[body]
             kept == IF calls = <<>> THEN close ELSE o - 1
  <1>1. w \in Text /\ Len(w) = n + Len(v)
    BY JoinIs DEF Text
  <1>2. ~Spaced(v) /\ ~Spaced(w)
    BY SpacedJoin
  <1>3. ASSUME NEW p, NEW k, Opens(w, p, k) PROVE p > n /\ p \in Nat /\ Opens(v, p - n, k - n)
    <2>1. p \in 1..Len(w)
      BY <1>3 DEF Opens
    <2>2. p > n /\ p \in Nat
      BY <2>1, <1>0, <1>1, <1>3
    <2> QED BY <2>2, <1>3, OpensJoin
  <1>4. CASE o = 0
    <2>1. find_open_tag(w) = 0
      <3>1. \A p, k : ~Opens(v, p, k)
        BY <1>2, <1>4, FirstOpens
      <3>2. \A p, k : ~Opens(w, p, k)
        BY <3>1, <1>3
      <3> QED BY <3>2, <1>1, <1>2, FirstOpens
    <2>2. extract_tool_calls[v] = [cleaned |-> v, calls |-> <<>>]
      BY <1>4, NoBlock
    <2>3. extract_tool_calls[w] = [cleaned |-> w, calls |-> <<>>]
      BY <2>1, <1>1, NoBlock
    <2> QED BY <2>2, <2>3
  <1>5. CASE o # 0
    <2>1. /\ o \in 1..Len(v) /\ Opens(v, o, end)
          /\ \A p, k : p < o => ~Opens(v, p, k)
      BY <1>2, <1>5, FirstOpens
    <2>2. end \in 1..Len(v) /\ OpenEnd(v, o) # 0
      <3>1. end \in 1..Len(v)
        BY <2>1 DEF Opens
      <3> QED BY <3>1, <1>0
    <2> HIDE DEF o, end, w
    <2>3. find_open_tag(w) = n + o /\ OpenEnd(w, n + o) = n + end
      <3>1. Opens(w, n + o, n + end)
        BY <2>1, OpensJoin DEF w
      <3>2. ASSUME NEW p, NEW k, p < n + o, Opens(w, p, k) PROVE FALSE
        <4>1. p > n /\ p \in Nat /\ Opens(v, p - n, k - n)
          BY <1>3, <3>2
        <4>2. p - n < o
          BY <4>1, <3>2, <2>1, <1>0
        <4> QED BY <4>1, <4>2, <2>1
      <3>3. \A p, k : p < n + o => ~Opens(w, p, k)
        BY <3>2
      <3> HIDE DEF n
      <3> QED BY <3>1, <3>3, <1>1, <1>2, FirstOpens
    <2>4. /\ end + 1 \in Nat \ {0} /\ (n + end) + 1 = n + (end + 1)
          /\ n + o # 0
      BY <2>1, <2>2, <1>0
    <2>5. find_close_tag(w, n + (end + 1), "/") = IF close = 0 THEN 0 ELSE n + close
      BY <2>4, CloseJoin DEF w, Text
    <2>8. ASSUME NEW i \in Nat \ {0}, NEW j \in Nat, i <= j + 1, j <= Len(v)
          PROVE  SubSeq(w, n + i, n + j) = SubSeq(v, i, j)
      BY <2>8, PartJoin DEF w, Text
    <2>6. CASE close = 0
      <3>1. extract_tool_calls[v] = [cleaned |-> v, calls |-> <<>>]
        BY <2>6, NoBlock DEF o, end
      <3>2. find_close_tag(w, OpenEnd(w, find_open_tag(w)) + 1, "/") = 0
        BY <2>3, <2>4, <2>5, <2>6
      <3>3. extract_tool_calls[w] = [cleaned |-> w, calls |-> <<>>]
        BY <3>2, <1>1, NoBlock
      <3> QED BY <3>1, <3>3 DEF w
    <2>7. CASE close # 0
      <3>1. /\ close \in (end + 1)..Len(v) /\ close \in 1..Len(v)
            /\ body \in Text /\ rest \in Text
        <4>1. o \in 1..Len(v) /\ OpenEnd(v, o) # 0 /\ find_close_tag(v, OpenEnd(v, o) + 1, "/") # 0
          BY <2>1, <2>2, <2>7 DEF end
        <4> QED BY <4>1, ClosedBlock DEF end
      <3>2. extract_tool_calls[v] = [cleaned |-> UpTo(v, kept) \o extract_tool_calls[rest].cleaned,
                                     calls |-> calls \o extract_tool_calls[rest].calls]
        <4>1. find_open_tag(v) = o /\ OpenEnd(v, o) = end
              /\ find_close_tag(v, end + 1, "/") = close
          BY DEF o, end
        <4>2. extract_tool_calls[v] = ExtractFrom(v, o, end, close)
          <5> HIDE DEF close
          <5> QED BY <4>1, <1>5, <2>7, FirstBlock
        <4> QED BY <4>2 DEF ExtractFrom
      <3>3. calls \in Seq(Commands)
        BY <3>1, ParseIs
      <3> HIDE DEF close
      <3>4. SubSeq(w, (n + end) + 1, (n + close) - 1) = body
        <4>1. close - 1 \in Nat /\ end + 1 <= (close - 1) + 1 /\ close - 1 <= Len(v)
              /\ (n + close) - 1 = n + (close - 1)
          BY <3>1, <2>2, <1>0
        <4>2. SubSeq(w, n + (end + 1), n + (close - 1)) = body
          <5> HIDE DEF n
          <5> QED BY <4>1, <2>4, <2>8
        <4> QED BY <4>1, <4>2, <2>4
      <3>5. From(w, (n + close) + 1) = rest
        <4>1. close + 1 \in Nat \ {0} /\ close + 1 <= Len(v) + 1 /\ (n + close) + 1 = n + (close + 1)
          BY <3>1, <1>0
        <4>2. SubSeq(w, n + (close + 1), n + Len(v)) = SubSeq(v, close + 1, Len(v))
          <5>1. close + 1 <= Len(v) + 1 /\ Len(v) <= Len(v)
            BY <4>1, <1>0
          <5> HIDE DEF n
          <5> QED BY <4>1, <5>1, <1>0, <2>8
        <4> QED BY <4>1, <4>2, <1>1 DEF From
      <3> HIDE DEF body, rest, calls
      <3>6. kept \in Nat /\ kept <= Len(v)
            /\ n + kept = IF calls = <<>> THEN n + close ELSE (n + o) - 1
        BY <3>1, <2>1, <1>0
      <3>7. extract_tool_calls[w] = [cleaned |-> UpTo(w, n + kept) \o extract_tool_calls[rest].cleaned,
                                     calls |-> calls \o extract_tool_calls[rest].calls]
        <4>1. n + close # 0
          BY <3>1, <1>0
        <4>2. find_close_tag(w, (n + end) + 1, "/") = n + close
          BY <2>4, <2>5, <2>7
        <4>3. calls = parse_invoke_blocks[SubSeq(w, (n + end) + 1, (n + close) - 1)]
          BY <3>4 DEF calls
        <4>4. extract_tool_calls[w] = ExtractFrom(w, n + o, n + end, n + close)
          <5> DEFINE a == n + o
                     e == n + end
                     c == n + close
          <5>1. find_open_tag(w) = a /\ a # 0 /\ OpenEnd(w, a) = e /\ c # 0
                /\ find_close_tag(w, e + 1, "/") = c
            BY <4>1, <4>2, <2>3, <2>4
          <5> HIDE DEF a, e, c
          <5>2. extract_tool_calls[w] = ExtractFrom(w, a, e, c)
            BY <5>1, <1>1, FirstBlock
          <5> QED BY <5>2 DEF a, e, c
        <4> HIDE DEF n
        <4> QED BY <4>3, <4>4, <3>5, <3>6 DEF ExtractFrom
      <3> HIDE DEF kept
      <3>8. UpTo(w, n + kept) = u \o UpTo(v, kept)
        BY <3>6, UpToWithin DEF w, Text
      <3> DEFINE r == extract_tool_calls[rest]
                 a == UpTo(v, kept)
      <3>9. a \in Text /\ r.cleaned \in Text
        <4>1. UpTo(v, kept) \in Text
          BY <3>6, UpToIs DEF Text
        <4> QED BY <4>1, <3>1, ExtractIs DEF Extraction
      <3>10. /\ extract_tool_calls[w] = [cleaned |-> (u \o a) \o r.cleaned, calls |-> calls \o r.calls]
             /\ extract_tool_calls[v] = [cleaned |-> a \o r.cleaned, calls |-> calls \o r.calls]
        BY <3>2, <3>7, <3>8 DEF kept
      <3> HIDE DEF r, a
      <3>11. (u \o a) \o r.cleaned = u \o (a \o r.cleaned)
        <4> DEFINE x == r.cleaned
        <4>1. u \in Seq(Symbols) /\ a \in Seq(Symbols) /\ x \in Seq(Symbols)
          BY <3>9 DEF Text
        <4> HIDE DEF x
        <4>2. (u \o a) \o x = u \o (a \o x)
          BY <4>1, Associative
        <4> QED BY <4>2 DEF x
      <3> QED BY <3>10, <3>11 DEF w
    <2> QED BY <2>6, <2>7
  <1> QED BY <1>4, <1>5
-----------------------------------------------------------------------------
(* Parts of a joined text that lie in its first part. *)
LEMMA PartFirst ==
    ASSUME NEW S, NEW a \in Seq(S), NEW b \in Seq(S),
           NEW i \in Nat \ {0}, NEW j \in Nat, i <= j + 1, j <= Len(a)
    PROVE  SubSeq(a \o b, i, j) = SubSeq(a, i, j)
  <1>0. Len(a) \in Nat /\ Len(b) \in Nat
    BY LenProperties
  <1> DEFINE c == a \o b
             x == SubSeq(c, i, j)
             y == SubSeq(a, i, j)
  <1>1. /\ c \in Seq(S) /\ Len(c) = Len(a) + Len(b)
        /\ \A q \in 1..Len(a) : c[q] = a[q]
    BY JoinIs
  <1> HIDE DEF c
  <1>2. j <= Len(c)
    BY <1>0, <1>1
  <1>3. x \in Seq(S) /\ Len(x) = (j + 1) - i /\ \A q \in 1..((j + 1) - i) : x[q] = c[(i + q) - 1]
    BY <1>1, <1>2, PartIs
  <1>4. y \in Seq(S) /\ Len(y) = (j + 1) - i /\ \A q \in 1..((j + 1) - i) : y[q] = a[(i + q) - 1]
    BY PartIs
  <1> HIDE DEF x, y
  <1>5. \A q \in 1..((j + 1) - i) : (i + q) - 1 \in 1..Len(a)
    BY <1>0
  <1>6. x = y
    BY <1>1, <1>3, <1>4, <1>5, SeqEqual
  <1> QED BY <1>6 DEF x, y, c

LEMMA BehindJoin ==
    ASSUME NEW S, NEW a \in Seq(S), NEW b \in Seq(S)
    PROVE  From(a, Len(a) + 1) = <<>> /\ From(a \o b, Len(a) + 1) = b
  <1>0. Len(a) \in Nat /\ Len(a) + 1 \in Nat \ {0} /\ Len(a) + 1 <= Len(a) + 1
    BY LenProperties
  <1> DEFINE u == From(a, Len(a) + 1)
  <1>1. u \in Seq(S) /\ Len(u) = (Len(a) + 1) - (Len(a) + 1)
    BY <1>0, FromIs
  <1>2. From(a \o b, Len(a) + 1) = u \o b
    BY <1>0, FromJoin
  <1> HIDE DEF u
  <1>3. u = <<>>
    BY <1>0, <1>1, EmptySeq
  <1>4. <<>> \o b = b
    BY ConcatProperties
  <1> QED BY <1>2, <1>3, <1>4 DEF u

(* A text that begins with a closed block. *)
LEMMA BlockFirst ==
    ASSUME NEW a \in Text, NEW c \in Text, NEW end, Opens(a, 1, end),
           find_close_tag(a, 1, "/") = Len(a), ~Spaced(a \o c)
    PROVE  /\ extract_tool_calls[a \o c].cleaned
                = extract_tool_calls[a].cleaned \o extract_tool_calls[c].cleaned
           /\ extract_tool_calls[a \o c].calls
                = extract_tool_calls[a].calls \o extract_tool_calls[c].calls
  <1> DEFINE w == a \o c
             L == Len(a)
             body == SubSeq(a, end + 1, L - 1)
             calls == parse_invoke_blocks[body]
             kept == IF calls = <<>> THEN L ELSE 1 - 1
             r == extract_tool_calls[c]
             x == UpTo(a, kept)
  <1>0. L \in Nat
    BY LenProperties DEF Text
  <1>1. w \in Text /\ ~Spaced(a) /\ ~Spaced(w)
    BY JoinIs, SpacedJoin DEF Text
  <1>2. Opens(w, 1, end)
    BY OpensJoin
  <1>3. \A s \in Text : \A p, k : p < 1 => ~Opens(s, p, k)
    <2>1. \A s \in Text : Len(s) \in Nat
      BY LenProperties DEF Text
    <2> QED BY <2>1 DEF Opens
  <1>4. find_open_tag(a) = 1 /\ OpenEnd(a, 1) = end
    BY <1>1, <1>3, FirstOpens
  <1> HIDE DEF w
  <1>5. find_open_tag(w) = 1 /\ OpenEnd(w, 1) = end
    BY <1>1, <1>2, <1>3, FirstOpens
  <1>6. end \in 1..L /\ a[end] = ">"
    BY DEF Opens
  <1>7. L \in 1..L /\ a[L] = "/" /\ \A q \in 1..(L - 1) : a[q] # "/"
    <2>1. find_close_tag(a, 1, "/") # 0
      BY <1>0, <1>6
    <2> QED BY <2>1, CloseIs DEF Text
  <1>8. end # L
    BY <1>6, <1>7
  <1>9. end + 1 \in Nat \ {0} /\ L \in (end + 1)..L /\ end + 1 <= (L - 1) + 1 /\ L - 1 \in Nat
        /\ L - 1 <= L /\ L # 0
    BY <1>0, <1>6, <1>8
  <1>10. find_close_tag(a, end + 1, "/") = L
    <2>1. \A q \in (end + 1)..(L - 1) : a[q] # "/"
      BY <1>7, <1>9
    <2>2. a[L] = "/" /\ L \in (end + 1)..L /\ end + 1 \in Nat \ {0}
      BY <1>7, <1>9
    <2> QED BY <2>1, <2>2, CloseIs DEF Text
  <1>11. find_close_tag(w, end + 1, "/") = L
    <2>1. find_close_tag(a, end + 1, "/") # 0 /\ end + 1 \in Nat \ {0}
      BY <1>9, <1>10
    <2> QED BY <2>1, <1>10, CloseFirst DEF Text, w
  <1>12. SubSeq(w, end + 1, L - 1) = body /\ body \in Text
    <2> DEFINE i == end + 1
               j == L - 1
    <2>1. i \in Nat \ {0} /\ j \in Nat /\ i <= j + 1 /\ j <= Len(a)
      BY <1>9
    <2> HIDE DEF i, j
    <2>2. SubSeq(w, i, j) = SubSeq(a, i, j)
      BY <2>1, PartFirst DEF Text, w
    <2>3. SubSeq(a, i, j) \in Text
      BY <2>1, PartIs DEF Text
    <2> QED BY <2>2, <2>3 DEF i, j
  <1>13. From(a, L + 1) = <<>> /\ From(w, L + 1) = c
    BY BehindJoin DEF Text, w
  <1>14. calls \in Seq(Commands)
    BY <1>12, ParseIs
  <1> HIDE DEF body, L
  <1>15. extract_tool_calls[a] = ExtractFrom(a, 1, end, L)
    BY <1>4, <1>9, <1>10, FirstBlock
  <1>16. extract_tool_calls[w] = ExtractFrom(w, 1, end, L)
    BY <1>1, <1>5, <1>9, <1>11, FirstBlock
  <1> HIDE DEF calls
  <1>17. kept \in Nat /\ kept <= L
    BY <1>0
  <1>18. UpTo(w, kept) = x /\ x \in Text
    <2> HIDE DEF kept
    <2>1. UpTo(w, kept) = x
      BY <1>17, UpToJoin DEF Text, w, L
    <2>2. x \in Text
      BY <1>17, UpToIs DEF Text, L
    <2> QED BY <2>1, <2>2
  <1>19. extract_tool_calls[a] = [cleaned |-> x \o <<>>, calls |-> calls \o <<>>]
    <2> DEFINE e == extract_tool_calls[From(a, L + 1)]
    <2>1. e.cleaned = <<>> /\ e.calls = <<>>
      BY <1>13, NoText
    <2>2. extract_tool_calls[a] = [cleaned |-> x \o e.cleaned, calls |-> calls \o e.calls]
      BY <1>15 DEF ExtractFrom, calls, body
    <2> HIDE DEF e, x
    <2> QED BY <2>1, <2>2
  <1>20. extract_tool_calls[w] = [cleaned |-> x \o r.cleaned, calls |-> calls \o r.calls]
    BY <1>12, <1>13, <1>16, <1>18 DEF ExtractFrom, calls
  <1> HIDE DEF x, kept, r
  <1>21. x \o <<>> = x /\ calls \o <<>> = calls
    BY <1>14, <1>18, ConcatProperties DEF Text
  <1> QED BY <1>19, <1>20, <1>21 DEF r, w
-----------------------------------------------------------------------------
(* What ingest returns. *)
LEMMA IngestType ==
    ASSUME NEW acc \in Holding, NEW d \in Text
    PROVE  ingest(acc, d) \in Ingestion
  <1> DEFINE s == acc.buf \o d
  <1>1. acc.buf \in Text /\ (acc.in_dsml => acc.buf # <<>>)
    BY DEF Holding, Accumulator, Text
  <1>2. s \in Text /\ Len(s) = Len(acc.buf) + Len(d)
    BY <1>1, JoinIs DEF Text
  <1>3. ingest(acc, d) = IF acc.in_dsml THEN IngestBlock(ingest_text, s, 1) ELSE ingest_text[s]
    BY DEF ingest
  <1>4. acc.in_dsml => 1 \in 1..Len(s)
    <2>1. Len(acc.buf) \in Nat /\ Len(d) \in Nat
      BY <1>1, LenProperties DEF Text
    <2>2. acc.in_dsml => Len(acc.buf) # 0
      BY <1>1, EmptySeq DEF Text
    <2> HIDE DEF s
    <2> QED BY <2>1, <2>2, <1>2
  <1> HIDE DEF s
  <1>5. ingest_text[s] \in Ingestion
    BY <1>2, IngestIs
  <1>6. acc.in_dsml => IngestBlock(ingest_text, s, 1) \in Ingestion
    <2>1. \A r \in Text : ingest_text[r] \in Ingestion
      BY IngestIs
    <2> QED BY <2>1, <1>2, <1>4, IngestBlockIs
  <1> QED BY <1>3, <1>5, <1>6

(* What an accumulator holds back: no tag, or an open block.               *)
Held(acc) ==
    IF acc.in_dsml
    THEN (\E k : Opens(acc.buf, 1, k)) /\ \A q \in 1..Len(acc.buf) : acc.buf[q] # "/"
    ELSE \A p, k : ~Opens(acc.buf, p, k)

(* What is held back has no calls, and is text as it is. *)
LEMMA HeldIs ==
    ASSUME NEW acc \in Accumulator, Held(acc), ~Spaced(acc.buf)
    PROVE  extract_tool_calls[acc.buf] = [cleaned |-> acc.buf, calls |-> <<>>]
  <1> DEFINE s == acc.buf
  <1>1. s \in Text
    BY DEF Accumulator, Text
  <1>2. CASE ~acc.in_dsml
    <2>1. find_open_tag(s) = 0
      <3>1. \A p, k : ~Opens(s, p, k)
        BY <1>2 DEF Held
      <3> HIDE DEF s
      <3>2. ~Spaced(s)
        BY DEF s
      <3> QED BY <3>1, <3>2, <1>1, FirstOpens
    <2> QED BY <2>1, <1>1, NoBlock
  <1>3. CASE acc.in_dsml
    <2>1. PICK k : Opens(s, 1, k)
      BY <1>3 DEF Held
    <2>2. \A q \in 1..Len(s) : s[q] # "/"
      BY <1>3 DEF Held
    <2>3. ~Spaced(s)
      OBVIOUS
    <2> HIDE DEF s
    <2>4. k \in 1..Len(s) /\ Len(s) \in Nat
      BY <2>1, <1>1, LenProperties DEF Opens, Text
    <2>5. find_open_tag(s) = 1 /\ OpenEnd(s, 1) = k
      <3>1. \A p, l : p < 1 => ~Opens(s, p, l)
        BY <2>4 DEF Opens
      <3> QED BY <3>1, <2>1, <2>3, <1>1, FirstOpens
    <2>6. find_close_tag(s, k + 1, "/") = 0
      <3>1. k + 1 \in Nat \ {0} /\ \A q \in (k + 1)..Len(s) : s[q] # "/"
        BY <2>2, <2>4
      <3> QED BY <3>1, <1>1, CloseIs DEF Text
    <2>7. extract_tool_calls[s] = [cleaned |-> s, calls |-> <<>>]
      BY <2>5, <2>6, <1>1, NoBlock
    <2> QED BY <2>7 DEF s
  <1> QED BY <1>2, <1>3

(* A tag that opens before what is kept back has ended.                    *)
LEMMA KeptBack ==
    ASSUME NEW x \in Text, NEW e \in Text, NEW p, NEW m,
           Opens(x \o e, p, m), p < KeptFrom(x)
    PROVE  m <= Len(x)
  <1> SUFFICES ASSUME ~(m <= Len(x)) PROVE FALSE
    OBVIOUS
  <1> DEFINE w == x \o e
             n == Len(x)
             y == From(x, p)
             l == Len(y)
             name == SkipSpaces(y, 2)
  <1>0. n \in Nat /\ Len(e) \in Nat
    BY LenProperties DEF Text
  <1>1. /\ Len(w) = n + Len(e)
        /\ \A q \in 1..n : w[q] = x[q]
    BY JoinIs DEF Text
  <1>2. /\ p \in 1..Len(w) /\ m \in 1..Len(w) /\ p + 2 <= m
        /\ w[p] = "<" /\ w[m - 1] = "n"
        /\ \A q \in (p + 1)..(m - 2) : w[q] = "s"
    BY DEF Opens
  <1> HIDE DEF w
  <1>3. p \in 1..n /\ m > n /\ m \in Nat
    <2>1. KeptFrom(x) \in 1..(n + 1)
      BY KeptIs
    <2> HIDE DEF n
    <2> QED BY <2>1, <1>0, <1>1, <1>2 DEF n
  <1>4. y \in Text /\ l = (n + 1) - p /\ \A i \in 1..((n + 1) - p) : y[i] = x[(p + i) - 1]
    <2>1. p \in Nat \ {0} /\ p <= Len(x) + 1
      BY <1>0, <1>3
    <2> QED BY <2>1, FromIs DEF Text
  <1> HIDE DEF y
  <1>5. l \in Nat /\ 2 <= l + 1
    BY <1>0, <1>3, <1>4
  <1> HIDE DEF l
  <1>6. \A i \in 1..l : y[i] = w[(p + i) - 1]
    <2>1. \A i \in 1..l : (p + i) - 1 \in 1..n
      BY <1>0, <1>3, <1>4
    <2> QED BY <2>1, <1>1, <1>4
  <1>7. y[1] = "<"
    <2>1. 1 \in 1..l /\ (p + 1) - 1 = p
      BY <1>0, <1>3, <1>4
    <2> QED BY <2>1, <1>2, <1>6
  <1>8. /\ name \in 2..(l + 1)
        /\ name <= l => y[name] # "s"
        /\ \A i \in 2..l : y[i] # "s" /\ (\A q \in 2..(i - 1) : y[q] = "s") => name = i
    <2>1. y \in Seq(Symbols) /\ 2 \in Nat \ {0} /\ 2 <= Len(y) + 1
      BY <1>4, <1>5 DEF Text, l
    <2> QED BY <2>1, SkipIs DEF l
  <1> HIDE DEF name
  <1>9. \A i \in 2..(l - 1) : y[i] = "s"
    <2>1. \A i \in 2..(l - 1) : i \in 1..l /\ (p + i) - 1 \in (p + 1)..(m - 2)
      BY <1>0, <1>3, <1>4
    <2> QED BY <2>1, <1>2, <1>6
  <1>10. CASE m - 1 = n /\ 2 <= l
    <2>1. l \in 2..l /\ l \in 1..l /\ (p + l) - 1 = m - 1
      BY <1>0, <1>3, <1>4, <1>5, <1>10
    <2>2. y[l] = "n"
      BY <2>1, <1>2, <1>6
    <2>3. name = l
      BY <2>1, <2>2, <1>8, <1>9
    <2>4. could_be_open_tag_prefix(y)
      BY <2>2, <2>3, <1>7 DEF could_be_open_tag_prefix, name, l
    <2> QED BY <2>4, <1>3, KeptIs DEF y
  <1>11. CASE ~(m - 1 = n /\ 2 <= l)
    <2>1. ASSUME NEW i \in 2..l PROVE y[i] = "s"
      <3>1. i \in 1..l /\ (p + i) - 1 \in (p + 1)..(m - 2)
        BY <2>1, <1>0, <1>3, <1>4, <1>11
      <3> QED BY <3>1, <1>2, <1>6
    <2>2. name > l
      BY <2>1, <1>5, <1>8
    <2>3. could_be_open_tag_prefix(y)
      BY <2>2, <1>7 DEF could_be_open_tag_prefix, name, l
    <2> QED BY <2>3, <1>3, KeptIs DEF y
  <1> QED BY <1>10, <1>11
-----------------------------------------------------------------------------
(* What is ingested of s, with what follows it, gives the calls and the    *)
(* text of the whole.                                                      *)
Good(s, r) ==
    \A e \in Text : ~Spaced(s \o e) =>
        /\ Held(r.acc) /\ ~Spaced(r.acc.buf \o e)
        /\ extract_tool_calls[s \o e].calls
             = r.calls \o extract_tool_calls[r.acc.buf \o e].calls
        /\ r.dropped = <<>> =>
             extract_tool_calls[s \o e].cleaned
               = r.text \o extract_tool_calls[r.acc.buf \o e].cleaned

(* A text in which no block opens. *)
LEMMA TextGood ==
    ASSUME NEW s \in Text, ~Spaced(s), find_open_tag(s) = 0
    PROVE  Good(s, IngestText(s))
  <1> SUFFICES ASSUME NEW e \in Text, ~Spaced(s \o e)
      PROVE  LET r == IngestText(s) IN
             /\ Held(r.acc) /\ ~Spaced(r.acc.buf \o e)
             /\ extract_tool_calls[s \o e].calls
                  = r.calls \o extract_tool_calls[r.acc.buf \o e].calls
             /\ r.dropped = <<>> =>
                  extract_tool_calls[s \o e].cleaned
                    = r.text \o extract_tool_calls[r.acc.buf \o e].cleaned
    BY DEF Good
  <1> DEFINE k == KeptFrom(s)
             u == UpTo(s, k - 1)
             b == From(s, k)
             v == b \o e
  <1>0. Len(s) \in Nat
    BY LenProperties DEF Text
  <1>1. k \in 1..(Len(s) + 1)
    BY KeptIs
  <1> HIDE DEF k
  <1>2. k \in Nat \ {0} /\ k <= Len(s) + 1 /\ k - 1 \in Nat /\ k - 1 <= Len(s)
    BY <1>0, <1>1
  <1>3. s = u \o b
    BY <1>2, Parted DEF Text
  <1>4. b \in Text
    BY <1>2, FromIs DEF Text
  <1>5. u \in Text /\ Len(u) = k - 1
    BY <1>2, UpToIs DEF Text
  <1>6. IngestText(s) = [acc |-> [buf |-> b, in_dsml |-> FALSE],
                         text |-> u, calls |-> <<>>, dropped |-> <<>>]
    BY DEF IngestText, Ingested, k
  <1> HIDE DEF u, b
  <1>7. v \in Text
    BY <1>4, JoinIs DEF Text
  <1>8. \A p, m : ~Opens(s, p, m)
    BY FirstOpens
  <1>9. s \o e = u \o v
    BY <1>3, <1>4, <1>5, Associative DEF Text
  <1>10. \A p, m : p <= Len(u) => ~Opens(u \o v, p, m)
    <2> SUFFICES ASSUME NEW p, NEW m, p <= Len(u), Opens(u \o v, p, m) PROVE FALSE
      OBVIOUS
    <2>1. Opens(s \o e, p, m)
      BY <1>9
    <2>2. p \in Nat
      BY <2>1 DEF Opens
    <2>3. p < KeptFrom(s)
      BY <2>2, <1>2, <1>5 DEF k
    <2>4. m <= Len(s)
      BY <2>1, <2>3, KeptBack
    <2>5. Opens(s, p, m)
      BY <2>1, <2>4, OpensJoin
    <2> QED BY <2>5, <1>8
  <1>11. ~Spaced(u \o v) /\ ~Spaced(v)
    <2>1. ~Spaced(u \o v)
      BY <1>9
    <2> HIDE DEF v
    <2> QED BY <2>1, <1>5, <1>7, SpacedJoin
  <1>12. /\ extract_tool_calls[u \o v].cleaned = u \o extract_tool_calls[v].cleaned
         /\ extract_tool_calls[u \o v].calls = extract_tool_calls[v].calls
    BY <1>5, <1>7, <1>10, <1>11, SkipText
  <1>13. \A p, m : ~Opens(b, p, m)
    BY <1>3, <1>4, <1>5, <1>8, OpensJoin
  <1> DEFINE acc == [buf |-> b, in_dsml |-> FALSE]
  <1>14. Held(acc) /\ acc.buf = b
    BY <1>13 DEF Held
  <1> DEFINE c == extract_tool_calls[v].calls
  <1>15. <<>> \o c = c
    <2>1. c \in Seq(Commands)
      BY <1>7, ExtractIs DEF Extraction
    <2> HIDE DEF c
    <2> QED BY <2>1, ConcatProperties
  <1> HIDE DEF acc
  <1>16. IngestText(s) = [acc |-> acc, text |-> u, calls |-> <<>>, dropped |-> <<>>]
    BY <1>6 DEF acc
  <1> DEFINE r == IngestText(s)
  <1>17. r.acc = acc /\ r.calls = <<>> /\ r.text = u
    BY <1>16
  <1> HIDE DEF r
  <1> QED BY <1>9, <1>11, <1>12, <1>14, <1>15, <1>17 DEF r

(* Nothing of an opening tag ends a block. *)
LEMMA TagHasNoClose ==
    ASSUME NEW s \in Text, NEW k, Opens(s, 1, k)
    PROVE  k \in Nat /\ \A q \in 1..k : s[q] # "/"
  <1>1. /\ k \in 1..Len(s) /\ 1 + 2 <= k
        /\ s[1] = "<" /\ s[k - 1] = "n" /\ s[k] = ">"
        /\ \A q \in 2..(k - 2) : s[q] = "s"
    BY DEF Opens
  <1>2. ASSUME NEW q \in 1..k PROVE q = 1 \/ q \in 2..(k - 2) \/ q = k - 1 \/ q = k
    BY <1>1
  <1> QED BY <1>1, <1>2

(* A text in which a block opens, if shorter texts are ingested well. *)
LEMMA BlockGood ==
    ASSUME NEW s \in Text, ~Spaced(s), NEW o, NEW end, Opens(s, o, end),
           \A p, m : p < o => ~Opens(s, p, m),
           \A r \in Text : Len(r) < Len(s) => Good(r, ingest_text[r])
    PROVE  Good(s, IngestBlock(ingest_text, s, o))
  <1> DEFINE before == UpTo(s, o - 1)
             buf == From(s, o)
             close == find_close_tag(buf, 1, "/")
             tag == end - (o - 1)
             got == IngestBlock(ingest_text, s, o)
  <1>0. Len(s) \in Nat /\ o \in Nat \ {0} /\ o \in 1..Len(s) /\ o <= Len(s) + 1
        /\ o - 1 \in Nat /\ o - 1 <= Len(s) /\ end \in Nat
    BY LenProperties DEF Text, Opens
  <1>1. before \in Text /\ Len(before) = o - 1
    BY <1>0, UpToIs DEF Text
  <1>2. buf \in Text
    BY <1>0, FromIs DEF Text
  <1>3. s = before \o buf
    BY <1>0, Parted DEF Text
  <1>4. got = IF close = 0
              THEN [acc |-> [buf |-> buf, in_dsml |-> TRUE],
                    text |-> <<>>, calls |-> <<>>, dropped |-> before]
              ELSE LET block == extract_tool_calls[UpTo(buf, close)]
                       rest == ingest_text[From(buf, close + 1)]
                   IN  [acc |-> rest.acc, text |-> before \o rest.text,
                        calls |-> block.calls \o rest.calls,
                        dropped |-> block.cleaned \o rest.dropped]
    BY DEF IngestBlock, Ingested
  <1> HIDE DEF before, buf, got
  <1>5. Opens(buf, 1, tag)
    <2>1. o > Len(before) /\ o - Len(before) = 1 /\ end - Len(before) = tag
      BY <1>0, <1>1
    <2>2. Opens(before \o buf, o, end)
      BY <1>3
    <2>3. Opens(buf, o - Len(before), end - Len(before))
      BY <2>1, <2>2, <1>1, <1>2, OpensJoin
    <2> QED BY <2>1, <2>3
  <1> HIDE DEF tag
  <1>6. ASSUME NEW e \in Text, ~Spaced(s \o e)
        PROVE  /\ buf \o e \in Text /\ ~Spaced(buf \o e)
               /\ extract_tool_calls[s \o e].cleaned = before \o extract_tool_calls[buf \o e].cleaned
               /\ extract_tool_calls[s \o e].calls = extract_tool_calls[buf \o e].calls
    <2> DEFINE v == buf \o e
    <2>1. v \in Text
      BY <1>2, JoinIs DEF Text
    <2>2. s \o e = before \o v
      BY <1>1, <1>2, <1>3, Associative DEF Text
    <2> HIDE DEF v
    <2>3. \A p, m : p <= Len(before) => ~Opens(before \o v, p, m)
      <3> SUFFICES ASSUME NEW p, NEW m, p <= Len(before), Opens(before \o v, p, m) PROVE FALSE
        OBVIOUS
      <3> DEFINE w == s \o e
      <3>1. Opens(w, p, m)
        BY <2>2
      <3>2. p \in Nat /\ m \in Nat
        BY <3>1 DEF Opens
      <3>3. p < o
        BY <3>2, <1>0, <1>1
      <3>4. ~(m <= Len(s))
        BY <3>1, <3>3, OpensJoin
      <3>5. w[o] = "<"
        <4>1. w[o] = s[o]
          BY <1>0, JoinIs DEF Text
        <4> HIDE DEF w
        <4> QED BY <4>1 DEF Opens
      <3> HIDE DEF w
      <3>6. o \in (p + 1)..(m - 2) \/ o = m - 1
        BY <3>2, <3>3, <3>4, <1>0
      <3>7. w[m - 1] = "n" /\ \A q \in (p + 1)..(m - 2) : w[q] = "s"
        BY <3>1 DEF Opens
      <3> QED BY <3>5, <3>6, <3>7
    <2>4. ~Spaced(before \o v)
      BY <1>6, <2>2
    <2>5. /\ extract_tool_calls[before \o v].cleaned = before \o extract_tool_calls[v].cleaned
          /\ extract_tool_calls[before \o v].calls = extract_tool_calls[v].calls
      BY <1>1, <2>1, <2>3, <2>4, SkipText
    <2>6. ~Spaced(v)
      BY <1>1, <2>1, <2>4, SpacedJoin
    <2> QED BY <2>1, <2>2, <2>5, <2>6 DEF v
  <1>7. CASE close = 0
    <2> DEFINE acc == [buf |-> buf, in_dsml |-> TRUE]
    <2>1. Held(acc) /\ acc.buf = buf
      <3>1. \A q \in 1..Len(buf) : buf[q] # "/"
        BY <1>2, <1>7, CloseIs DEF Text
      <3> QED BY <3>1, <1>5 DEF Held
    <2> HIDE DEF acc
    <2>2. got = [acc |-> acc, text |-> <<>>, calls |-> <<>>, dropped |-> before]
      BY <1>4, <1>7 DEF acc
    <2>3. got.acc = acc /\ got.text = <<>> /\ got.calls = <<>> /\ got.dropped = before
      BY <2>2
    <2>4. ASSUME NEW e \in Text, ~Spaced(s \o e)
          PROVE  /\ Held(got.acc) /\ ~Spaced(got.acc.buf \o e)
                 /\ extract_tool_calls[s \o e].calls
                      = got.calls \o extract_tool_calls[got.acc.buf \o e].calls
                 /\ got.dropped = <<>> =>
                      extract_tool_calls[s \o e].cleaned
                        = got.text \o extract_tool_calls[got.acc.buf \o e].cleaned
      <3> DEFINE x == extract_tool_calls[buf \o e]
      <3>1. x.calls \in Seq(Commands)
        BY <1>6, <2>4, ExtractIs DEF Extraction
      <3>2. /\ extract_tool_calls[s \o e].cleaned = before \o x.cleaned
            /\ extract_tool_calls[s \o e].calls = x.calls
        BY <1>6, <2>4
      <3>3. extract_tool_calls[got.acc.buf \o e] = x
        BY <2>1, <2>3
      <3> HIDE DEF x
      <3>4. <<>> \o x.calls = x.calls
        BY <3>1, ConcatProperties
      <3>5. ~Spaced(got.acc.buf \o e)
        BY <1>6, <2>1, <2>3, <2>4
      <3> QED BY <2>1, <2>3, <3>2, <3>3, <3>4, <3>5
    <2> QED BY <2>4 DEF Good, got
  <1>8. CASE close # 0
    <2> DEFINE a == UpTo(buf, close)
               c == From(buf, close + 1)
               block == extract_tool_calls[a]
               rest == ingest_text[c]
    <2>1. /\ close \in 1..Len(buf) /\ buf[close] = "/" /\ \A q \in 1..(close - 1) : buf[q] # "/"
      BY <1>2, <1>8, CloseIs DEF Text
    <2>2. c \in Text /\ Len(c) < Len(buf)
      BY <1>2, <1>8, Behind
    <2>3. got = [acc |-> rest.acc, text |-> before \o rest.text,
                 calls |-> block.calls \o rest.calls,
                 dropped |-> block.cleaned \o rest.dropped]
      BY <1>4, <1>8
    <2>4. Len(buf) \in Nat /\ Len(before) \in Nat /\ Len(s) = Len(before) + Len(buf)
      <3>1. Len(before \o buf) = Len(before) + Len(buf)
        BY <1>1, <1>2, JoinIs DEF Text
      <3> QED BY <3>1, <1>1, <1>2, <1>3, LenProperties DEF Text
    <2> HIDE DEF close
    <2>5. /\ close \in Nat /\ close <= Len(buf) /\ close + 1 \in Nat \ {0}
          /\ close + 1 <= Len(buf) + 1 /\ (close + 1) - 1 = close
      BY <2>1, <2>4
    <2>6. /\ a \in Text /\ Len(a) = close
          /\ \A q \in 1..close : a[q] = buf[q]
      BY <1>2, <2>5, UpToIs DEF Text
    <2>7. buf = a \o c
      <3>1. buf = UpTo(buf, (close + 1) - 1) \o From(buf, close + 1)
        BY <1>2, <2>5, Parted DEF Text
      <3> QED BY <3>1, <2>5
    <2> HIDE DEF a, c
    <2>8. Opens(a, 1, tag)
      <3>1. tag \in Nat /\ \A q \in 1..tag : buf[q] # "/"
        BY <1>2, <1>5, TagHasNoClose
      <3>2. tag <= close
        BY <3>1, <2>1, <2>5
      <3>3. Opens(a \o c, 1, tag)
        BY <1>5, <2>7
      <3> QED BY <3>2, <3>3, <2>2, <2>6, OpensJoin
    <2>9. find_close_tag(a, 1, "/") = Len(a)
      <3>1. close \in 1..Len(a) /\ a[close] = "/" /\ \A q \in 1..(close - 1) : a[q] # "/"
        BY <2>1, <2>5, <2>6
      <3>2. 1 \in Nat \ {0}
        OBVIOUS
      <3>3. find_close_tag(a, 1, "/") = close
        BY <3>1, <3>2, <2>6, CloseIs DEF Text
      <3> QED BY <3>3, <2>6
    <2>10. Good(c, rest)
      <3>1. Len(c) < Len(s)
        <4>1. Len(c) \in Nat
          BY <2>2, LenProperties DEF Text
        <4> QED BY <4>1, <2>2, <2>4
      <3> QED BY <3>1, <2>2
    <2>11. rest \in Ingestion /\ block \in Extraction
      BY <2>2, <2>6, IngestIs, ExtractIs
    <2> HIDE DEF rest, block
    <2>12. /\ rest.acc \in Holding /\ rest.text \in Text /\ rest.calls \in Seq(Commands)
           /\ rest.dropped \in Text /\ block.cleaned \in Text /\ block.calls \in Seq(Commands)
      BY <2>11 DEF Ingestion, Extraction
    <2>13. /\ got.acc = rest.acc /\ got.text = before \o rest.text
           /\ got.calls = block.calls \o rest.calls
           /\ got.dropped = block.cleaned \o rest.dropped
      BY <2>3
    <2>14. ASSUME NEW e \in Text, ~Spaced(s \o e)
           PROVE  /\ Held(got.acc) /\ ~Spaced(got.acc.buf \o e)
                  /\ extract_tool_calls[s \o e].calls
                       = got.calls \o extract_tool_calls[got.acc.buf \o e].calls
                  /\ got.dropped = <<>> =>
                       extract_tool_calls[s \o e].cleaned
                         = got.text \o extract_tool_calls[got.acc.buf \o e].cleaned
      <3> DEFINE x == extract_tool_calls[c \o e]
                 z == extract_tool_calls[rest.acc.buf \o e]
      <3>1. c \o e \in Text
        BY <2>2, JoinIs DEF Text
      <3>2. buf \o e = a \o (c \o e)
        BY <2>2, <2>6, <2>7, Associative DEF Text
      <3>3. ~Spaced(a \o (c \o e))
        BY <1>6, <2>14, <3>2
      <3>4. ~Spaced(c \o e)
        BY <2>6, <3>1, <3>3, SpacedJoin
      <3>5. /\ extract_tool_calls[a \o (c \o e)].cleaned = block.cleaned \o x.cleaned
            /\ extract_tool_calls[a \o (c \o e)].calls = block.calls \o x.calls
        BY <2>6, <2>8, <2>9, <3>1, <3>3, BlockFirst DEF block
      <3>6. /\ Held(rest.acc) /\ ~Spaced(rest.acc.buf \o e)
            /\ x.calls = rest.calls \o z.calls
            /\ rest.dropped = <<>> => x.cleaned = rest.text \o z.cleaned
        BY <2>10, <3>4 DEF Good
      <3>7. z.cleaned \in Text /\ z.calls \in Seq(Commands)
        <4>1. rest.acc.buf \in Text
          BY <2>12 DEF Holding, Accumulator, Text
        <4>2. rest.acc.buf \o e \in Text
          BY <4>1, JoinIs DEF Text
        <4> QED BY <4>2, ExtractIs DEF Extraction
      <3>8. /\ extract_tool_calls[s \o e].cleaned = before \o (block.cleaned \o x.cleaned)
            /\ extract_tool_calls[s \o e].calls = block.calls \o x.calls
        <4>1. /\ extract_tool_calls[s \o e].cleaned
                   = before \o extract_tool_calls[buf \o e].cleaned
              /\ extract_tool_calls[s \o e].calls = extract_tool_calls[buf \o e].calls
          BY <1>6, <2>14
        <4> HIDE DEF x
        <4> QED BY <4>1, <3>2, <3>5
      <3>9. extract_tool_calls[got.acc.buf \o e] = z
        BY <2>13
      <3> HIDE DEF x, z
      <3> DEFINE bc == block.calls
                 rc == rest.calls
                 zc == z.calls
                 bt == block.cleaned
                 rt == rest.text
                 rd == rest.dropped
                 zt == z.cleaned
                 xt == x.cleaned
      <3>10. /\ bc \in Seq(Commands) /\ rc \in Seq(Commands) /\ zc \in Seq(Commands)
             /\ bt \in Seq(Symbols) /\ rt \in Seq(Symbols) /\ rd \in Seq(Symbols)
             /\ zt \in Seq(Symbols) /\ before \in Seq(Symbols)
        BY <1>1, <2>12, <3>7 DEF Text
      <3>11. /\ got.calls = bc \o rc /\ got.text = before \o rt /\ got.dropped = bt \o rd
             /\ x.calls = rc \o zc /\ (rd = <<>> => xt = rt \o zt)
        BY <2>13, <3>6
      <3>12. /\ extract_tool_calls[s \o e].cleaned = before \o (bt \o xt)
             /\ extract_tool_calls[s \o e].calls = bc \o (rc \o zc)
        BY <3>8, <3>11
      <3>13. extract_tool_calls[got.acc.buf \o e].calls = zc
             /\ extract_tool_calls[got.acc.buf \o e].cleaned = zt
        BY <3>9
      <3>14. Held(got.acc) /\ ~Spaced(got.acc.buf \o e)
        BY <2>13, <3>6
      <3> HIDE DEF bc, rc, zc, bt, rt, rd, zt, xt
      <3>15. (bc \o rc) \o zc = bc \o (rc \o zc)
        <4>1. bc \in Seq(Commands) /\ rc \in Seq(Commands) /\ zc \in Seq(Commands)
          BY <3>10
        <4> QED BY <4>1, Associative
      <3>16. ASSUME got.dropped = <<>>
             PROVE  extract_tool_calls[s \o e].cleaned = (before \o rt) \o zt
        <4>1. bt \o rd = <<>>
          BY <3>11, <3>16
        <4>2. bt = <<>> /\ rd = <<>>
          BY <4>1, <3>10, ConcatSimplifications
        <4>3. xt = rt \o zt
          BY <4>2, <3>11
        <4>4. rt \o zt \in Seq(Symbols)
          BY <3>10, JoinIs
        <4>5. bt \o xt = rt \o zt
          BY <4>2, <4>3, <4>4, ConcatProperties
        <4>6. (before \o rt) \o zt = before \o (rt \o zt)
          <5>1. before \in Seq(Symbols) /\ rt \in Seq(Symbols) /\ zt \in Seq(Symbols)
            BY <3>10
          <5> QED BY <5>1, Associative
        <4> QED BY <4>5, <4>6, <3>12
      <3> QED BY <3>11, <3>12, <3>13, <3>14, <3>15, <3>16
    <2> QED BY <2>14 DEF Good, got
  <1> QED BY <1>7, <1>8

(* Any text. *)
LEMMA IngestGood == \A s \in Text : Good(s, ingest_text[s])
  <1> DEFINE P == {s \in Text : Good(s, ingest_text[s])}
  <1>1. ASSUME NEW s \in Text, \A r \in Text : Len(r) < Len(s) => r \in P PROVE s \in P
    <2>1. CASE Spaced(s)
      <3>1. \A e \in Text : Spaced(s \o e)
        BY <2>1, SpacedJoin
      <3> QED BY <3>1 DEF Good
    <2>2. CASE ~Spaced(s) /\ find_open_tag(s) = 0
      <3>1. ingest_text[s] = IngestText(s)
        BY <2>2, IngestIs DEF IngestStep
      <3> QED BY <3>1, <2>2, TextGood
    <2>3. CASE ~Spaced(s) /\ find_open_tag(s) # 0
      <3> DEFINE o == find_open_tag(s)
      <3>1. ingest_text[s] = IngestBlock(ingest_text, s, o)
        BY <2>3, IngestIs DEF IngestStep
      <3>2. Opens(s, o, OpenEnd(s, o)) /\ \A p, m : p < o => ~Opens(s, p, m)
        BY <2>3, FirstOpens
      <3>3. \A r \in Text : Len(r) < Len(s) => Good(r, ingest_text[r])
        BY <1>1
      <3> HIDE DEF o, P
      <3>4. Good(s, IngestBlock(ingest_text, s, o))
        BY <2>3, <3>2, <3>3, BlockGood
      <3> QED BY <3>1, <3>4 DEF P
    <2> QED BY <2>1, <2>2, <2>3
  <1> HIDE DEF P
  <1>2. \A s \in Seq(Symbols) : (\A r \in Seq(Symbols) : Len(r) < Len(s) => r \in P) => s \in P
    BY <1>1 DEF Text
  <1>3. Seq(Symbols) \subseteq P
    BY <1>2, Shorter
  <1> QED BY <1>3 DEF P, Text

(* A delta, with what the accumulator holds. *)
LEMMA DeltaGood ==
    ASSUME NEW acc \in Holding, Held(acc), NEW d \in Text
    PROVE  Good(acc.buf \o d, ingest(acc, d))
  <1> DEFINE s == acc.buf \o d
  <1>1. acc.buf \in Text
    BY DEF Holding, Accumulator, Text
  <1>2. s \in Text
    BY <1>1, JoinIs DEF Text
  <1>3. CASE ~acc.in_dsml
    BY <1>2, <1>3, IngestGood DEF ingest
  <1>4. CASE acc.in_dsml /\ Spaced(s)
    <2>1. \A e \in Text : Spaced(s \o e)
      BY <1>2, <1>4, SpacedJoin
    <2> QED BY <2>1 DEF Good
  <1>5. CASE acc.in_dsml /\ ~Spaced(s)
    <2>1. PICK k : Opens(acc.buf, 1, k)
      BY <1>5 DEF Held
    <2>2. Opens(s, 1, k)
      BY <2>1, <1>1, OpensJoin
    <2>3. ingest(acc, d) = IngestBlock(ingest_text, s, 1)
      BY <1>5 DEF ingest
    <2> HIDE DEF s
    <2>4. \A p, m : p < 1 => ~Opens(s, p, m)
      <3>1. Len(s) \in Nat
        BY <1>2, LenProperties DEF Text
      <3> QED BY <3>1 DEF Opens
    <2>5. \A r \in Text : Len(r) < Len(s) => Good(r, ingest_text[r])
      BY IngestGood
    <2>6. Good(s, IngestBlock(ingest_text, s, 1))
      BY <1>2, <1>5, <2>2, <2>4, <2>5, BlockGood
    <2> QED BY <2>3, <2>6 DEF s
  <1> QED BY <1>3, <1>4, <1>5

(* Delta after delta, for any text and any way to cut it: if what has been *)
(* ingested of s gives, with whatever follows s, the calls and the text of *)
(* the whole, then so does what has been ingested after one more delta.    *)
(* So extract_tool_calls of the whole answer and the accumulator, fed as   *)
(* the answer arrives, find the same calls.                                *)
THEOREM NextDelta ==
    ASSUME NEW s \in Text, NEW r \in Ingestion, Good(s, r), NEW d \in Text
    PROVE  LET i == ingest(r.acc, d) IN
           Good(s \o d, [acc |-> i.acc, text |-> r.text \o i.text,
                         calls |-> r.calls \o i.calls, dropped |-> r.dropped \o i.dropped])
  <1> DEFINE i == ingest(r.acc, d)
             buf == r.acc.buf
             all == [acc |-> i.acc, text |-> r.text \o i.text,
                     calls |-> r.calls \o i.calls, dropped |-> r.dropped \o i.dropped]
  <1>1. /\ r.acc \in Holding /\ r.text \in Text /\ r.calls \in Seq(Commands)
        /\ r.dropped \in Text
    BY DEF Ingestion
  <1>2. buf \in Text
    BY <1>1 DEF Holding, Accumulator, Text
  <1>3. i \in Ingestion
    BY <1>1, IngestType
  <1> HIDE DEF i
  <1>4. /\ i.acc \in Holding /\ i.text \in Text /\ i.calls \in Seq(Commands)
        /\ i.dropped \in Text
    BY <1>3 DEF Ingestion
  <1>5. /\ all.acc = i.acc /\ all.text = r.text \o i.text
        /\ all.calls = r.calls \o i.calls /\ all.dropped = r.dropped \o i.dropped
    OBVIOUS
  <1> HIDE DEF all, buf
  <1>6. ASSUME NEW e \in Text, ~Spaced((s \o d) \o e)
        PROVE  /\ Held(all.acc) /\ ~Spaced(all.acc.buf \o e)
               /\ extract_tool_calls[(s \o d) \o e].calls
                    = all.calls \o extract_tool_calls[all.acc.buf \o e].calls
               /\ all.dropped = <<>> =>
                    extract_tool_calls[(s \o d) \o e].cleaned
                      = all.text \o extract_tool_calls[all.acc.buf \o e].cleaned
    <2> DEFINE x == extract_tool_calls[buf \o (d \o e)]
               z == extract_tool_calls[i.acc.buf \o e]
               zc == z.calls
               zt == z.cleaned
               ic == i.calls
               it == i.text
               id == i.dropped
               rc == r.calls
               rt == r.text
               rd == r.dropped
    <2>1. d \o e \in Text
      BY JoinIs DEF Text
    <2>2. (s \o d) \o e = s \o (d \o e) /\ (buf \o d) \o e = buf \o (d \o e)
      <3>1. (s \o d) \o e = s \o (d \o e)
        BY Associative DEF Text
      <3>2. (buf \o d) \o e = buf \o (d \o e)
        BY <1>2, Associative DEF Text
      <3> QED BY <3>1, <3>2
    <2>3. /\ Held(r.acc) /\ ~Spaced(buf \o (d \o e))
          /\ extract_tool_calls[s \o (d \o e)].calls = rc \o x.calls
          /\ rd = <<>> => extract_tool_calls[s \o (d \o e)].cleaned = rt \o x.cleaned
      BY <1>6, <2>1, <2>2 DEF Good, buf
    <2>4. Good(buf \o d, i)
      BY <1>1, <2>3, DeltaGood DEF i, buf
    <2>5. /\ Held(i.acc) /\ ~Spaced(i.acc.buf \o e)
          /\ x.calls = ic \o zc
          /\ id = <<>> => x.cleaned = it \o zt
      <3>1. ~Spaced((buf \o d) \o e)
        BY <2>2, <2>3
      <3>2. /\ Held(i.acc) /\ ~Spaced(i.acc.buf \o e)
            /\ extract_tool_calls[(buf \o d) \o e].calls
                 = i.calls \o extract_tool_calls[i.acc.buf \o e].calls
            /\ i.dropped = <<>> =>
                 extract_tool_calls[(buf \o d) \o e].cleaned
                   = i.text \o extract_tool_calls[i.acc.buf \o e].cleaned
        BY <3>1, <2>4 DEF Good
      <3> QED BY <3>2, <2>2
    <2>6. zc \in Seq(Commands) /\ zt \in Seq(Symbols)
      <3>1. i.acc.buf \in Text
        BY <1>4 DEF Holding, Accumulator, Text
      <3>2. i.acc.buf \o e \in Text
        BY <3>1, JoinIs DEF Text
      <3> QED BY <3>2, ExtractIs DEF Extraction, Text
    <2>7. /\ ic \in Seq(Commands) /\ rc \in Seq(Commands)
          /\ it \in Seq(Symbols) /\ rt \in Seq(Symbols)
          /\ id \in Seq(Symbols) /\ rd \in Seq(Symbols)
      BY <1>1, <1>4 DEF Text
    <2>8. /\ all.acc = i.acc /\ all.text = rt \o it
          /\ all.calls = rc \o ic /\ all.dropped = rd \o id
      BY <1>5
    <2>9. extract_tool_calls[all.acc.buf \o e].calls = zc
          /\ extract_tool_calls[all.acc.buf \o e].cleaned = zt
      BY <2>8
    <2> HIDE DEF x, z, zc, zt, ic, it, id, rc, rt, rd
    <2>10. (rc \o ic) \o zc = rc \o (ic \o zc)
      <3>1. rc \in Seq(Commands) /\ ic \in Seq(Commands) /\ zc \in Seq(Commands)
        BY <2>6, <2>7
      <3> QED BY <3>1, Associative
    <2>11. (rt \o it) \o zt = rt \o (it \o zt)
      <3>1. rt \in Seq(Symbols) /\ it \in Seq(Symbols) /\ zt \in Seq(Symbols)
        BY <2>6, <2>7
      <3> QED BY <3>1, Associative
    <2>12. rd \o id = <<>> => rd = <<>> /\ id = <<>>
      BY <2>7, ConcatSimplifications
    <2> QED BY <2>2, <2>3, <2>5, <2>8, <2>9, <2>10, <2>11, <2>12
  <1> QED BY <1>6 DEF Good, all, i
=============================================================================
