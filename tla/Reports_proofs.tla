--------------------------- MODULE Reports_proofs ---------------------------
(***************************************************************************)
(* Proofs about Reports for every list of symbols with their code and      *)
(* coverage, every file of explanations and every way opening files may    *)
(* fail.                                                                   *)
(***************************************************************************)
EXTENDS Reports, FiniteLemmas, SequenceTheorems, TLAPS

(***************************************************************************)
(* Elements by their rank.                                                 *)
(***************************************************************************)
\* An element has a rank, and is the one with that rank.
LEMMA RankFacts ==
  ASSUME NEW S, IsFiniteSet(S), S \subseteq Nat, NEW b \in S
  PROVE  Rank(S, b) \in 1 .. Cardinality(S) /\ Ranked(S, Rank(S, b)) = b
<1>1. \A c \in S : Rank(S, c) = Place(S, c)
  BY DEF Rank, Place, UpTo
<1>2. Rank(S, b) \in 1 .. Cardinality(S)
  BY <1>1, PlaceFacts
<1>3. \A c \in S : Rank(S, c) = Rank(S, b) => c = b
  BY <1>1, PlaceOne
<1>4. Ranked(S, Rank(S, b)) \in S /\ Rank(S, Ranked(S, Rank(S, b))) = Rank(S, b)
  BY DEF Ranked
<1>5. QED
  BY <1>2, <1>3, <1>4

\* Every number up to the size of the set is a rank.
LEMMA RankedFacts ==
  ASSUME NEW S, IsFiniteSet(S), S \subseteq Nat, NEW j \in 1 .. Cardinality(S)
  PROVE  Ranked(S, j) \in S /\ Rank(S, Ranked(S, j)) = j
<1>1. \A c \in S : Rank(S, c) = Place(S, c)
  BY DEF Rank, Place, UpTo
<1>2. \E c \in S : Rank(S, c) = j
  BY <1>1, PlaceTaken
<1>3. QED
  BY <1>2 DEF Ranked
-----------------------------------------------------------------------------
(***************************************************************************)
(* A flattened list of lists: the jth element of the ith list comes after  *)
(* all elements of the lists before it.                                    *)
(***************************************************************************)
Sized(n, len)     == n \in Nat /\ \A i \in 1 .. n : len[i] \in Nat
Before(len, i)    == SumFunctionOnSet(len, 1 .. i - 1)
At(len, i, j)     == Before(len, i) + j

\* What comes before a list grows by its length.
LEMMA BeforeFacts ==
  ASSUME NEW n, NEW len, Sized(n, len)
  PROVE  /\ Before(len, 1) = 0
         /\ \A i \in 1 .. n + 1 : Before(len, i) \in Nat
         /\ \A i \in 1 .. n : Before(len, i + 1) = Before(len, i) + len[i]
<1>1. n \in Nat /\ \A i \in 1 .. n : len[i] \in Nat
  BY DEF Sized
<1>2. Before(len, 1) = 0
  <2>1. 1 .. 1 - 1 = {}
    OBVIOUS
  <2>2. QED
    BY <2>1, SumEmpty DEF Before
<1>3. ASSUME NEW i \in 1 .. n + 1 PROVE Before(len, i) \in Nat
  <2>1. IsFiniteSet(1 .. i - 1) /\ \A x \in 1 .. i - 1 : len[x] \in Nat
    BY <1>1, FS_Interval
  <2>2. QED
    BY <2>1, SumType DEF Before
<1>4. ASSUME NEW i \in 1 .. n PROVE Before(len, i + 1) = Before(len, i) + len[i]
  <2>1. /\ IsFiniteSet(1 .. i - 1) /\ i \notin 1 .. i - 1
        /\ 1 .. i + 1 - 1 = (1 .. i - 1) \cup {i}
        /\ \A x \in (1 .. i - 1) \cup {i} : len[x] \in Nat
    BY <1>1, FS_Interval
  <2>2. SumFunctionOnSet(len, (1 .. i - 1) \cup {i}) = len[i] + SumFunctionOnSet(len, 1 .. i - 1)
    BY <2>1, SumAdd
  <2>3. Before(len, i) \in Nat /\ len[i] \in Nat
    BY <1>1, <1>3
  <2>4. Before(len, i + 1) = SumFunctionOnSet(len, (1 .. i - 1) \cup {i})
    <3>1. \A x : Before(len, x) = SumFunctionOnSet(len, 1 .. x - 1)
      BY DEF Before
    <3>2. Before(len, i + 1) = SumFunctionOnSet(len, 1 .. i + 1 - 1)
      BY <3>1
    <3>3. QED
      BY ONLY <2>1, <3>2
  <2>5. Before(len, i) = SumFunctionOnSet(len, 1 .. i - 1)
    BY DEF Before
  <2>6. QED
    BY <2>2, <2>3, <2>4, <2>5
<1>5. QED
  BY <1>2, <1>3, <1>4

\* A later list comes after all elements of an earlier one.
LEMMA BeforeGrows ==
  ASSUME NEW n, NEW len, Sized(n, len), NEW i \in 1 .. n, NEW k \in i + 1 .. n + 1
  PROVE  Before(len, i) + len[i] <= Before(len, k)
<1> DEFINE Bad == {m \in Nat : m \in i + 1 .. n + 1 /\ ~(Before(len, i) + len[i] <= Before(len, m))}
<1>1. n \in Nat /\ \A x \in 1 .. n : len[x] \in Nat
  BY DEF Sized
<1>2. SUFFICES ASSUME Bad # {} PROVE FALSE
  BY <1>1
<1>3. PICK m \in Bad : \A y \in Bad : m <= y
  BY <1>2, LeastNatural
<1>4. Before(len, i + 1) = Before(len, i) + len[i] /\ Before(len, i) \in Nat /\ len[i] \in Nat
  BY <1>1, BeforeFacts
<1>5. m \in i + 2 .. n + 1
  BY <1>1, <1>3, <1>4
<1>6. m - 1 \in i + 1 .. n + 1 /\ m - 1 \in Nat /\ m - 1 \notin Bad /\ m - 1 \in 1 .. n
  BY <1>1, <1>3, <1>5
<1>7. Before(len, i) + len[i] <= Before(len, m - 1)
  BY <1>6
<1>8. Before(len, (m - 1) + 1) = Before(len, m - 1) + len[m - 1]
  BY <1>6, BeforeFacts
<1>9. Before(len, m - 1) \in Nat /\ len[m - 1] \in Nat /\ (m - 1) + 1 = m
  BY <1>1, <1>6, BeforeFacts
<1>10. Before(len, i) + len[i] <= Before(len, m)
  BY <1>4, <1>7, <1>8, <1>9
<1>11. QED
  BY <1>3, <1>10

\* Every position of the whole is a position of exactly one list.
LEMMA AtFacts ==
  ASSUME NEW n, NEW len, Sized(n, len)
  PROVE  /\ \A i \in 1 .. n : \A j \in 1 .. len[i] : At(len, i, j) \in 1 .. Before(len, n + 1)
         /\ \A k \in 1 .. Before(len, n + 1) :
              \E i \in 1 .. n : \E j \in 1 .. len[i] : k = At(len, i, j)
<1>1. n \in Nat /\ \A x \in 1 .. n : len[x] \in Nat
  BY DEF Sized
<1>2. ASSUME NEW i \in 1 .. n, NEW j \in 1 .. len[i] PROVE At(len, i, j) \in 1 .. Before(len, n + 1)
  <2>1. n + 1 \in i + 1 .. n + 1
    BY <1>1
  <2>2. Before(len, i) + len[i] <= Before(len, n + 1)
    BY <2>1, BeforeGrows
  <2>3. Before(len, i) \in Nat /\ Before(len, n + 1) \in Nat /\ len[i] \in Nat
    BY <1>1, BeforeFacts
  <2>4. QED
    BY <2>2, <2>3 DEF At
<1>3. ASSUME NEW k \in 1 .. Before(len, n + 1)
      PROVE  \E i \in 1 .. n : \E j \in 1 .. len[i] : k = At(len, i, j)
  <2> DEFINE T == {m \in Nat : m \in 1 .. n + 1 /\ k <= Before(len, m)}
  <2>1. n + 1 \in T
    BY <1>1
  <2>2. PICK m \in T : \A y \in T : m <= y
    BY <2>1, LeastNatural
  <2>3. m # 1
    BY <2>2, BeforeFacts
  <2>4. m - 1 \in 1 .. n /\ m - 1 \notin T /\ m - 1 \in Nat /\ m - 1 \in 1 .. n + 1
    BY <1>1, <2>2, <2>3
  <2>5. /\ Before(len, m - 1) \in Nat /\ len[m - 1] \in Nat
        /\ Before(len, (m - 1) + 1) = Before(len, m - 1) + len[m - 1]
    BY <1>1, <2>4, BeforeFacts
  <2>6. (m - 1) + 1 = m /\ k <= Before(len, m) /\ ~(k <= Before(len, m - 1))
    BY <2>2, <2>4
  <2>7. k - Before(len, m - 1) \in 1 .. len[m - 1] /\ k = At(len, m - 1, k - Before(len, m - 1))
    BY <2>5, <2>6 DEF At
  <2>8. QED
    BY <2>4, <2>7
<1>4. QED
  BY <1>2, <1>3

\* Two elements of the lists never share a position.
LEMMA AtOne ==
  ASSUME NEW n, NEW len, Sized(n, len),
         NEW i \in 1 .. n, NEW j \in 1 .. len[i], NEW k \in 1 .. n, NEW m \in 1 .. len[k],
         At(len, i, j) = At(len, k, m)
  PROVE  i = k /\ j = m
<1>1. n \in Nat /\ \A x \in 1 .. n : len[x] \in Nat
  BY DEF Sized
<1>2. \A x \in 1 .. n : \A y \in x + 1 .. n + 1 : Before(len, x) + len[x] <= Before(len, y)
  BY BeforeGrows
<1>3. Before(len, i) \in Nat /\ Before(len, k) \in Nat /\ len[i] \in Nat /\ len[k] \in Nat
  BY <1>1, BeforeFacts
<1>4. Before(len, i) + j = Before(len, k) + m
  BY DEF At
<1>5. CASE i < k
  <2>1. k \in i + 1 .. n + 1
    BY <1>1, <1>5
  <2>2. QED
    BY <1>2, <1>3, <1>4, <2>1
<1>6. CASE k < i
  <2>1. i \in k + 1 .. n + 1
    BY <1>1, <1>6
  <2>2. QED
    BY <1>2, <1>3, <1>4, <2>1
<1>7. CASE i = k
  BY <1>3, <1>4, <1>7
<1>8. QED
  BY <1>1, <1>5, <1>6, <1>7

\* The lists to flatten, and how long they are.
Lists(n, ss, V) == n \in Nat \ {0} /\ ss \in [1 .. n -> Seq(V)]
Lens(ss)        == [i \in DOMAIN ss |-> Len(ss[i])]
ListOf(ss, k) ==
  CHOOSE i \in DOMAIN ss : \E j \in 1 .. Len(ss[i]) : k = At(Lens(ss), i, j)
Elem(ss, k) == ss[ListOf(ss, k)][k - Before(Lens(ss), ListOf(ss, k))]
Joined(ss, i)     == [k \in 1 .. Before(Lens(ss), i + 1) |-> Elem(ss, k)]
IsFlat(n, ss, g)  == g = [i \in 1 .. n |-> IF i = 1 THEN ss[i] ELSE g[i - 1] \o ss[i]]

\* Lengths of lists are numbers.
LEMMA ListsFacts ==
  ASSUME NEW n, NEW ss, NEW V, Lists(n, ss, V)
  PROVE  /\ n \in Nat \ {0} /\ DOMAIN ss = 1 .. n /\ Len(ss) = n
         /\ Sized(n, Lens(ss))
         /\ \A i \in 1 .. n : /\ ss[i] \in Seq(V) /\ Len(ss[i]) \in Nat
                             /\ Lens(ss)[i] = Len(ss[i]) /\ DOMAIN ss[i] = 1 .. Len(ss[i])
<1>1. n \in Nat \ {0} /\ ss \in [1 .. n -> Seq(V)]
  BY DEF Lists
<1>2. \A i \in 1 .. n : ss[i] \in Seq(V) /\ Len(ss[i]) \in Nat /\ DOMAIN ss[i] = 1 .. Len(ss[i])
  BY <1>1
<1>3. DOMAIN ss = 1 .. n /\ ss \in Seq(Seq(V))
  BY <1>1
<1>4. Len(ss) = n
  BY <1>1, <1>3
<1>5. QED
  BY <1>1, <1>2, <1>3, <1>4 DEF Sized, Lens

\* The element at the position of the jth of the ith list is that one.
LEMMA ElemAt ==
  ASSUME NEW n, NEW ss, NEW V, Lists(n, ss, V), NEW i \in 1 .. n, NEW j \in 1 .. Len(ss[i])
  PROVE  Elem(ss, At(Lens(ss), i, j)) = ss[i][j]
<1> DEFINE len == Lens(ss)
           k == At(len, i, j)
<1>1. /\ n \in Nat \ {0} /\ DOMAIN ss = 1 .. n /\ Sized(n, len)
      /\ \A x \in 1 .. n : Len(ss[x]) \in Nat /\ len[x] = Len(ss[x])
  BY ListsFacts
<1>2. ListOf(ss, k) \in 1 .. n /\ \E m \in 1 .. Len(ss[ListOf(ss, k)]) : k = At(len, ListOf(ss, k), m)
  BY <1>1 DEF ListOf
<1> HIDE DEF len
<1>3. PICK m \in 1 .. len[ListOf(ss, k)] : At(len, i, j) = At(len, ListOf(ss, k), m)
  BY <1>1, <1>2
<1>4. j \in 1 .. len[i]
  BY <1>1
<1>5. ListOf(ss, k) = i
  BY <1>1, <1>2, <1>3, <1>4, AtOne, SMTT(30)
<1>6. Before(len, i) \in Nat
  BY <1>1, BeforeFacts
<1>7. k - Before(len, i) = j
  BY <1>6 DEF At
<1>8. QED
  BY <1>5, <1>7 DEF Elem, len

\* What the lists up to the first hold, and up to any other one.
LEMMA JoinedFacts ==
  ASSUME NEW n, NEW ss, NEW V, Lists(n, ss, V)
  PROVE  /\ Joined(ss, 1) = ss[1]
         /\ \A i \in 2 .. n : Joined(ss, i) = Joined(ss, i - 1) \o ss[i]
<1> DEFINE len == Lens(ss)
<1>1. /\ n \in Nat \ {0} /\ DOMAIN ss = 1 .. n /\ Sized(n, len)
      /\ \A x \in 1 .. n : /\ Len(ss[x]) \in Nat /\ len[x] = Len(ss[x]) /\ ss[x] \in Seq(V)
                          /\ DOMAIN ss[x] = 1 .. Len(ss[x])
  BY ListsFacts
<1>2. /\ Before(len, 1) = 0
      /\ \A i \in 1 .. n + 1 : Before(len, i) \in Nat
      /\ \A i \in 1 .. n : Before(len, i + 1) = Before(len, i) + len[i]
  BY <1>1, BeforeFacts
<1>3. \A i \in 1 .. n : \A j \in 1 .. Len(ss[i]) : Elem(ss, Before(len, i) + j) = ss[i][j]
  BY ElemAt DEF At
<1>4. \A i \in 1 .. n : Joined(ss, i) = [k \in 1 .. Before(len, i + 1) |-> Elem(ss, k)]
  BY DEF Joined
<1>5. Joined(ss, 1) = ss[1]
  <2>1. Before(len, 1 + 1) = Len(ss[1]) /\ 1 \in 1 .. n
    BY <1>1, <1>2
  <2>2. Joined(ss, 1) = [k \in 1 .. Len(ss[1]) |-> Elem(ss, k)]
    BY <1>4, <2>1
  <2>3. \A k \in 1 .. Len(ss[1]) : Elem(ss, k) = ss[1][k]
    <3>1. ASSUME NEW k \in 1 .. Len(ss[1]) PROVE Elem(ss, k) = ss[1][k]
      <4>1. Elem(ss, Before(len, 1) + k) = ss[1][k] /\ Before(len, 1) + k = k
        BY <1>1, <1>2, <1>3, <2>1
      <4>2. QED
        BY <4>1
    <3>2. QED
      BY <3>1
  <2>4. ss[1] = [k \in 1 .. Len(ss[1]) |-> ss[1][k]]
    BY <1>1, <2>1
  <2>5. QED
    BY <2>2, <2>3, <2>4
<1>6. ASSUME NEW i \in 2 .. n PROVE Joined(ss, i) = Joined(ss, i - 1) \o ss[i]
  <2> DEFINE a == Joined(ss, i - 1)
             m == Before(len, i)
             d == Len(ss[i])
  <2>0. i \in 1 .. n /\ i \in 1 .. n + 1 /\ i - 1 \in 1 .. n /\ (i - 1) + 1 = i
    BY <1>1
  <2>1. /\ i \in 1 .. n /\ i - 1 \in 1 .. n /\ (i - 1) + 1 = i /\ m \in Nat /\ d \in Nat
        /\ Before(len, i + 1) = m + d
    BY <1>1, <1>2, <2>0
  <2>2. a = [k \in 1 .. m |-> Elem(ss, k)]
    BY <1>4, <2>1
  <2> DEFINE W == V \cup {Elem(ss, k) : k \in 1 .. m}
  <2>3. a \in Seq(W) /\ Len(a) = m
    <3> HIDE DEF m
    <3>1. a \in [1 .. m -> W]
      BY <2>2
    <3>2. QED
      BY <2>1, <3>1
  <2>4. ss[i] \in Seq(W)
    <3>1. ss[i] \in [1 .. d -> V]
      BY <1>1, <2>1
    <3>2. ss[i] \in [1 .. d -> W]
      BY <3>1
    <3>3. QED
      BY <2>1, <3>2
  <2> HIDE DEF a, W
  <2>5. /\ a \o ss[i] \in Seq(W) /\ Len(a \o ss[i]) = m + d
        /\ \A k \in 1 .. m + d : (a \o ss[i])[k] = IF k <= m THEN a[k] ELSE ss[i][k - m]
    BY <2>1, <2>3, <2>4, SMTT(30)
  <2>6. \A k \in 1 .. m + d : (a \o ss[i])[k] = Elem(ss, k)
    <3>1. ASSUME NEW k \in 1 .. m + d PROVE (a \o ss[i])[k] = Elem(ss, k)
      <4>1. CASE k <= m
        <5>1. a[k] = Elem(ss, k)
          BY <2>1, <2>2, <4>1
        <5>2. QED
          BY <2>5, <4>1, <5>1
      <4>2. CASE ~(k <= m)
        <5>1. k - m \in 1 .. d /\ m + (k - m) = k
          BY <2>1, <4>2
        <5>2. Elem(ss, m + (k - m)) = ss[i][k - m]
          BY <1>3, <2>1, <5>1
        <5>3. QED
          BY <2>5, <4>2, <5>1, <5>2
      <4>3. QED
        BY <4>1, <4>2
    <3>2. QED
      BY <3>1
  <2>7. a \o ss[i] = [k \in 1 .. m + d |-> (a \o ss[i])[k]]
    BY <2>5
  <2>8. Joined(ss, i) = [k \in 1 .. m + d |-> Elem(ss, k)]
    BY <1>4, <2>1
  <2>9. QED
    BY <2>6, <2>7, <2>8 DEF a
<1>7. QED
  BY <1>5, <1>6

\* There is one way to put lists together one by one.
LEMMA FlatIsJoined ==
  ASSUME NEW n, NEW ss, NEW V, Lists(n, ss, V), NEW g, IsFlat(n, ss, g)
  PROVE  \A i \in 1 .. n : g[i] = Joined(ss, i)
<1> DEFINE Bad == {i \in Nat : i \in 1 .. n /\ g[i] # Joined(ss, i)}
<1>1. n \in Nat \ {0}
  BY ListsFacts
<1>2. \A i \in 1 .. n : g[i] = IF i = 1 THEN ss[i] ELSE g[i - 1] \o ss[i]
  BY DEF IsFlat
<1>3. Joined(ss, 1) = ss[1] /\ \A i \in 2 .. n : Joined(ss, i) = Joined(ss, i - 1) \o ss[i]
  BY JoinedFacts
<1>4. SUFFICES ASSUME Bad # {} PROVE FALSE
  BY <1>1
<1>5. PICK m \in Bad : \A y \in Bad : m <= y
  BY <1>4, LeastNatural
<1>6. m # 1
  BY <1>2, <1>3, <1>5
<1>7. m \in 2 .. n /\ m - 1 \in 1 .. n /\ m - 1 \in Nat /\ m - 1 \notin Bad
  BY <1>1, <1>5, <1>6
<1>8. g[m - 1] = Joined(ss, m - 1)
  BY <1>7
<1>9. g[m] = g[m - 1] \o ss[m]
  <2>1. g[m] = IF m = 1 THEN ss[m] ELSE g[m - 1] \o ss[m]
    BY ONLY <1>2, <1>5
  <2>2. QED
    BY <1>6, <2>1
<1>10. QED
  BY <1>3, <1>5, <1>7, <1>8, <1>9

\* Flattening puts the lists together one by one.
LEMMA FlattenIsJoined ==
  ASSUME NEW n, NEW ss, NEW V, Lists(n, ss, V)
  PROVE  FlattenSeq(ss) = Joined(ss, n)
<1> DEFINE all == [i \in 1 .. n |-> Joined(ss, i)]
           flat == CHOOSE g : IsFlat(n, ss, g)
<1>1. n \in Nat \ {0} /\ Len(ss) = n
  BY ListsFacts
<1>2. \A i \in 1 .. n : Joined(ss, i) = IF i = 1 THEN ss[i] ELSE all[i - 1] \o ss[i]
  <2>1. Joined(ss, 1) = ss[1] /\ \A i \in 2 .. n : Joined(ss, i) = Joined(ss, i - 1) \o ss[i]
    BY JoinedFacts
  <2>2. ASSUME NEW i \in 1 .. n PROVE Joined(ss, i) = IF i = 1 THEN ss[i] ELSE all[i - 1] \o ss[i]
    <3>1. CASE i = 1
      BY <2>1, <3>1
    <3>2. CASE i # 1
      <4>1. i \in 2 .. n /\ i - 1 \in 1 .. n
        BY <1>1, <3>2
      <4>2. all[i - 1] = Joined(ss, i - 1)
        BY <4>1
      <4>3. QED
        BY <2>1, <3>2, <4>1, <4>2
    <3>3. QED
      BY <3>1, <3>2
  <2>3. QED
    BY <2>2
<1>3. IsFlat(n, ss, all)
  BY <1>2 DEF IsFlat
<1>4. IsFlat(n, ss, flat)
  BY <1>3
<1>5. FlattenSeq(ss) = flat[n]
  BY <1>1 DEF FlattenSeq, IsFlat
<1>6. n \in 1 .. n
  BY <1>1
<1> HIDE DEF flat
<1>7. flat[n] = Joined(ss, n)
  BY <1>4, <1>6, FlatIsJoined
<1>8. QED
  BY <1>5, <1>7

\* What a flattened list of lists is: every element of every list at its place.
LEMMA FlattenFacts ==
  ASSUME NEW n, NEW ss, NEW V, Lists(n, ss, V)
  PROVE  LET F == FlattenSeq(ss)
             len == Lens(ss)
         IN  /\ Len(F) = Before(len, n + 1) /\ Len(F) \in Nat /\ DOMAIN F = 1 .. Len(F)
             /\ F \in Seq(V)
             /\ \A i \in 1 .. n : \A j \in 1 .. Len(ss[i]) :
                  At(len, i, j) \in 1 .. Len(F) /\ F[At(len, i, j)] = ss[i][j]
             /\ \A k \in 1 .. Len(F) :
                  \E i \in 1 .. n : \E j \in 1 .. Len(ss[i]) : k = At(len, i, j)
<1> DEFINE F == FlattenSeq(ss)
           len == Lens(ss)
           total == Before(len, n + 1)
<1>1. /\ n \in Nat \ {0} /\ Sized(n, len)
      /\ \A i \in 1 .. n : ss[i] \in Seq(V) /\ Len(ss[i]) \in Nat /\ len[i] = Len(ss[i])
  BY ListsFacts
<1>2. F = [k \in 1 .. total |-> Elem(ss, k)]
  BY FlattenIsJoined DEF Joined
<1>3. total \in Nat
  <2>1. n + 1 \in 1 .. n + 1
    BY <1>1
  <2> HIDE DEF len
  <2>2. QED
    BY <1>1, <2>1, BeforeFacts
<1>4. \A i \in 1 .. n : \A j \in 1 .. Len(ss[i]) : At(len, i, j) \in 1 .. total
  BY <1>1, AtFacts
<1>5. \A k \in 1 .. total : \E i \in 1 .. n : \E j \in 1 .. Len(ss[i]) : k = At(len, i, j)
  BY <1>1, AtFacts
<1>6. \A i \in 1 .. n : \A j \in 1 .. Len(ss[i]) : Elem(ss, At(len, i, j)) = ss[i][j]
  BY ElemAt
<1> HIDE DEF len, total, F
<1>7. \A i \in 1 .. n : \A j \in 1 .. Len(ss[i]) : F[At(len, i, j)] = ss[i][j]
  BY <1>2, <1>4, <1>6
<1>8. \A i \in 1 .. n : \A j \in 1 .. Len(ss[i]) : ss[i][j] \in V
  BY <1>1
<1>9. \A k \in 1 .. total : F[k] \in V
  BY <1>5, <1>7, <1>8
<1>10. F \in [1 .. total -> V]
  BY <1>2, <1>9
<1>11. F \in Seq(V) /\ Len(F) = total /\ DOMAIN F = 1 .. total
  BY <1>3, <1>10
<1>12. QED
  BY <1>3, <1>4, <1>5, <1>7, <1>11 DEF F, len, total
-----------------------------------------------------------------------------
(***************************************************************************)
(* One symbol.                                                             *)
(***************************************************************************)
Fit(s)      == SymbolType(s) /\ SameCode(s)
Bytes(s)    == 0 .. s.size - 1
IdsOf(s)    == Cardinality(Starts(s))

\* The numbers of a symbol, and the sets of its bytes.
LEMMA SymbolFacts ==
  ASSUME NEW s, Fit(s)
  PROVE  /\ s.name \in STRING /\ s.base \in Nat /\ s.size \in Nat /\ s.load \in Nat
         /\ s.load <= s.base
         /\ IsFiniteSet(Bytes(s)) /\ Bytes(s) \subseteq Nat
         /\ s.start \subseteq Bytes(s) /\ s.exec \subseteq Bytes(s)
         /\ DOMAIN s.went \subseteq s.start
         /\ IsFiniteSet(s.start) /\ IsFiniteSet(s.exec) /\ IsFiniteSet(DOMAIN s.went)
<1>1. /\ s.name \in STRING /\ s.base \in Nat /\ s.size \in Nat /\ s.load \in 0 .. s.base
      /\ s.start \subseteq Bytes(s) /\ s.exec \subseteq Bytes(s) /\ DOMAIN s.went \subseteq s.start
  BY DEF Fit, SymbolType, Bytes
<1>2. IsFiniteSet(Bytes(s)) /\ Bytes(s) \subseteq Nat
  <2>1. 0 \in Int /\ s.size - 1 \in Int
    BY <1>1
  <2>2. QED
    BY <2>1, FS_Interval DEF Bytes
<1>3. IsFiniteSet(s.start) /\ IsFiniteSet(s.exec)
  BY <1>1, <1>2, FS_Subset
<1>4. IsFiniteSet(DOMAIN s.went)
  BY <1>1, <1>3, FS_Subset
<1>5. QED
  BY <1>1, <1>2, <1>3, <1>4

\* Uncovered places start where an instruction does, each for one reason.
LEMMA StartsFacts ==
  ASSUME NEW s, Fit(s)
  PROVE  /\ RunStarts(s) \subseteq s.start /\ OneWay(s) \subseteq s.start
         /\ RunStarts(s) \cap OneWay(s) = {}
         /\ Starts(s) \subseteq s.start /\ Starts(s) \subseteq Bytes(s) /\ Starts(s) \subseteq Nat
         /\ IsFiniteSet(RunStarts(s)) /\ IsFiniteSet(OneWay(s)) /\ IsFiniteSet(Starts(s))
         /\ \A b \in RunStarts(s) : b \notin s.exec
         /\ \A b \in OneWay(s) : b \in s.exec
<1>1. /\ s.size \in Nat /\ s.start \subseteq Bytes(s) /\ s.exec \subseteq Bytes(s)
      /\ DOMAIN s.went \subseteq s.start /\ Bytes(s) \subseteq Nat
      /\ IsFiniteSet(s.start)
  BY SymbolFacts
<1>2. ASSUME NEW b \in RunStarts(s) PROVE b \in s.start /\ b \notin s.exec
  <2>1. b \in Bytes(s) /\ b \notin s.exec /\ (b = 0 \/ b - 1 \in s.exec)
    BY DEF RunStarts, Executed, Bytes
  <2>2. CASE b = 0
    BY <1>1, <2>1, <2>2 DEF Fit, SameCode, Bytes
  <2>3. CASE b # 0
    <3>1. b \in 1 .. s.size - 1
      BY <1>1, <2>1, <2>3 DEF Bytes
    <3>2. b \in s.start \/ (b \in s.exec <=> b - 1 \in s.exec)
      BY <3>1 DEF Fit, SameCode
    <3>3. QED
      BY <2>1, <2>3, <3>2
  <2>4. QED
    BY <2>2, <2>3
<1>3. ASSUME NEW b \in OneWay(s) PROVE b \in s.start /\ b \in s.exec
  BY <1>1 DEF OneWay, Always, Never, IsBranch
<1>4. RunStarts(s) \subseteq s.start /\ OneWay(s) \subseteq s.start /\ Starts(s) \subseteq s.start
  BY <1>2, <1>3 DEF Starts
<1>5. IsFiniteSet(RunStarts(s)) /\ IsFiniteSet(OneWay(s)) /\ IsFiniteSet(Starts(s))
  BY <1>1, <1>4, FS_Subset
<1>6. QED
  BY <1>1, <1>2, <1>3, <1>4, <1>5

\* A run of unexecuted bytes has an end.
LEMMA RunEndFacts ==
  ASSUME NEW s, Fit(s), NEW b \in Bytes(s), b \notin s.exec
  PROVE  /\ RunEnd(s, b) \in b .. s.size - 1
         /\ \A x \in b .. RunEnd(s, b) : x \notin s.exec
         /\ RunEnd(s, b) = s.size - 1 \/ RunEnd(s, b) + 1 \in s.exec
<1> DEFINE T == {h \in b .. s.size - 1 : \A x \in b .. h : x \notin s.exec}
<1>1. s.size \in Nat /\ b \in Nat /\ b <= s.size - 1
  BY SymbolFacts DEF Bytes
<1>2. T \subseteq Int /\ b \in T /\ \A h \in T : h <= s.size - 1
  BY <1>1
<1>3. PICK h \in T : \A y \in T : h >= y
  <2> HIDE DEF T
  <2>1. s.size - 1 \in Int
    BY <1>1
  <2>2. QED
    BY <1>2, <2>1, GreatestInteger
<1>4. h = s.size - 1 \/ h + 1 \in s.exec
  <2>1. SUFFICES ASSUME h # s.size - 1, h + 1 \notin s.exec PROVE FALSE
    OBVIOUS
  <2>2. h + 1 \in b .. s.size - 1 /\ \A x \in b .. h + 1 : x \in b .. h \/ x = h + 1
    BY <1>1, <1>3, <2>1
  <2>3. h + 1 \in T
    BY <1>3, <2>1, <2>2
  <2>4. QED
    BY <1>1, <1>3, <2>3
<1> DEFINE P(e) == /\ \A x \in b .. e : ~Executed(s, x)
                   /\ e = s.size - 1 \/ Executed(s, e + 1)
<1>5. P(h)
  BY <1>3, <1>4 DEF Executed
<1>6. RunEnd(s, b) = CHOOSE e \in b .. s.size - 1 : P(e)
  BY DEF RunEnd
<1> HIDE DEF P
<1>7. RunEnd(s, b) \in b .. s.size - 1 /\ P(RunEnd(s, b))
  BY <1>3, <1>5, <1>6
<1>8. QED
  BY <1>7 DEF Executed, P

\* An instruction has an end.
LEMMA BranchEndFacts ==
  ASSUME NEW s, Fit(s), NEW b \in Bytes(s)
  PROVE  BranchEnd(s, b) \in b .. s.size - 1
<1> DEFINE T == {h \in b .. s.size - 1 : \A x \in b + 1 .. h : x \notin s.start}
<1>1. s.size \in Nat /\ b \in Nat /\ b <= s.size - 1
  BY SymbolFacts DEF Bytes
<1>2. T \subseteq Int /\ b \in T /\ \A h \in T : h <= s.size - 1
  BY <1>1
<1>3. PICK h \in T : \A y \in T : h >= y
  <2> HIDE DEF T
  <2>1. s.size - 1 \in Int
    BY <1>1
  <2>2. QED
    BY <1>2, <2>1, GreatestInteger
<1>4. h = s.size - 1 \/ h + 1 \in s.start
  <2>1. SUFFICES ASSUME h # s.size - 1, h + 1 \notin s.start PROVE FALSE
    OBVIOUS
  <2>2. h + 1 \in b .. s.size - 1 /\ \A x \in b + 1 .. h + 1 : x \in b + 1 .. h \/ x = h + 1
    BY <1>1, <1>3, <2>1
  <2>3. h + 1 \in T
    BY <1>3, <2>1, <2>2
  <2>4. QED
    BY <1>1, <1>3, <2>3
<1> DEFINE P(e) == /\ \A x \in b + 1 .. e : x \notin s.start
                   /\ e = s.size - 1 \/ e + 1 \in s.start
<1>5. P(h)
  BY <1>3, <1>4
<1>6. BranchEnd(s, b) = CHOOSE e \in b .. s.size - 1 : P(e)
  BY DEF BranchEnd
<1> HIDE DEF P
<1>7. QED
  BY <1>3, <1>5, <1>6

\* The saved lines of instructions: one for each start, in order.
LEMMA LineFacts ==
  ASSUME NEW s, Fit(s)
  PROVE  /\ s.lines \in Seq(SavedLine) /\ Len(s.lines) \in Nat /\ DOMAIN s.lines = 1 .. Len(s.lines)
         /\ \A k \in DOMAIN s.lines : s.lines[k] \in SavedLine
         /\ Insns(s) \subseteq DOMAIN s.lines
         /\ \A k \in Insns(s) : s.lines[k].insn /\ s.lines[k].offset \in s.start
         /\ \A b \in s.start : \E k \in Insns(s) : s.lines[k].offset = b
         /\ \A j, k \in Insns(s) : j < k => s.lines[j].offset < s.lines[k].offset
         /\ \A j, k \in Insns(s) : s.lines[j].offset = s.lines[k].offset => j = k
<1>1. /\ s.lines \in Seq(SavedLine) /\ {s.lines[k].offset : k \in Insns(s)} = s.start
      /\ \A j, k \in Insns(s) : j < k => s.lines[j].offset < s.lines[k].offset
  BY DEF Fit, SymbolType, SameCode
<1>2. /\ Len(s.lines) \in Nat /\ DOMAIN s.lines = 1 .. Len(s.lines)
      /\ \A k \in DOMAIN s.lines : s.lines[k] \in SavedLine
  BY <1>1
<1>3. Insns(s) \subseteq DOMAIN s.lines /\ \A k \in Insns(s) : s.lines[k].insn
  BY DEF Insns
<1>4. \A k \in Insns(s) : s.lines[k].offset \in Nat /\ k \in Nat
  BY <1>2, <1>3 DEF SavedLine
<1>5. ASSUME NEW j \in Insns(s), NEW k \in Insns(s), s.lines[j].offset = s.lines[k].offset
      PROVE  j = k
  BY <1>1, <1>4, <1>5
<1>6. QED
  BY <1>1, <1>2, <1>3, <1>5

\* Every byte belongs to an instruction.
LEMMA InsnAtFacts ==
  ASSUME NEW s, Fit(s), NEW b \in Bytes(s)
  PROVE  InsnAt(s, b).source \in SourceLines
<1> DEFINE T == {x \in s.start : x <= b}
<1>1. s.size \in Nat /\ b \in Nat /\ b <= s.size - 1 /\ s.start \subseteq Nat
  BY SymbolFacts DEF Bytes
<1>2. 0 \in T /\ T \subseteq Int /\ \A x \in T : x <= b
  BY <1>1 DEF Fit, SameCode
<1>3. PICK x \in T : \A y \in T : x >= y
  <2> HIDE DEF T
  <2>1. b \in Int
    BY <1>1
  <2>2. QED
    BY <1>2, <2>1, GreatestInteger
<1>4. PICK k \in Insns(s) : s.lines[k].offset = x
  BY <1>3, LineFacts
<1>5. ToSet(s.lines) = {s.lines[m] : m \in DOMAIN s.lines}
  BY DEF ToSet
<1>6. s.lines[k] \in ToSet(s.lines) /\ s.lines[k].insn
  BY <1>4, <1>5, LineFacts
<1>7. \A l \in ToSet(s.lines) : l.insn /\ l.offset <= b => l.offset <= s.lines[k].offset
  <2>1. ASSUME NEW l \in ToSet(s.lines), l.insn, l.offset <= b PROVE l.offset <= s.lines[k].offset
    <3>1. PICK m \in DOMAIN s.lines : l = s.lines[m]
      BY <1>5
    <3>2. m \in Insns(s)
      BY <2>1, <3>1 DEF Insns
    <3>3. l.offset \in T
      BY <2>1, <3>1, <3>2, LineFacts
    <3>4. QED
      BY <1>1, <1>3, <1>4, <3>3
  <2>2. QED
    BY <2>1
<1>8. InsnAt(s, b) \in ToSet(s.lines)
  BY <1>3, <1>4, <1>6, <1>7 DEF InsnAt
<1>9. \A l \in ToSet(s.lines) : l \in SavedLine
  BY <1>5, LineFacts
<1>10. QED
  BY <1>8, <1>9 DEF SavedLine
-----------------------------------------------------------------------------
(***************************************************************************)
(* One uncovered range or branch, as it is listed and with its lines.      *)
(***************************************************************************)
End(s, b) == IF ~Executed(s, b) THEN RunEnd(s, b) ELSE BranchEnd(s, b)
Full(s, b, last) ==
  [Uncovered(s, b, last) EXCEPT !.lowLine = InsnAt(s, b).source,
                                !.highLine = InsnAt(s, End(s, b)).source]
FullList(s, S, last) == [j \in 1 .. Cardinality(S) |-> Full(s, Ranked(S, j), last)]

\* It ends inside its symbol.
LEMMA EndFacts ==
  ASSUME NEW s, Fit(s), NEW b \in Starts(s)
  PROVE  /\ b \in Bytes(s) /\ b \in Nat /\ End(s, b) \in b .. s.size - 1 /\ End(s, b) \in Bytes(s)
         /\ End(s, b) \in Nat /\ b <= End(s, b)
<1>1. b \in Bytes(s) /\ b \in Nat /\ s.size \in Nat
  BY StartsFacts, SymbolFacts
<1>2. End(s, b) \in b .. s.size - 1
  BY <1>1, RunEndFacts, BranchEndFacts DEF End, Executed
<1>3. QED
  BY <1>1, <1>2 DEF Bytes

\* What covoar records of an uncovered place.
LEMMA UncoveredFacts ==
  ASSUME NEW s, Fit(s), NEW b \in Starts(s), NEW last \in Nat
  PROVE  LET u == Uncovered(s, b, last) IN
         /\ u \in RangeRecord
         /\ u.id = last + Rank(Starts(s), b)
         /\ Rank(Starts(s), b) \in 1 .. IdsOf(s)
         /\ u.low = s.base + b /\ u.high = s.base + End(s, b)
         /\ b \in RunStarts(s) => /\ u.reason = "notExecuted"
                                  /\ u.count = Cardinality(s.start \cap b .. RunEnd(s, b))
         /\ b \in OneWay(s) => u.reason # "notExecuted"
<1> DEFINE u == Uncovered(s, b, last)
<1>1. Rank(Starts(s), b) \in 1 .. IdsOf(s) /\ IdsOf(s) \in Nat
  BY StartsFacts, RankFacts, FS_CardinalityType DEF IdsOf
<1>2. s.base \in Nat /\ End(s, b) \in Nat /\ b \in Nat /\ IsFiniteSet(s.start)
  BY SymbolFacts, EndFacts
<1>3. \A e : Cardinality(s.start \cap b .. e) \in Nat
  <2>1. \A e : IsFiniteSet(s.start \cap b .. e)
    BY <1>2, FS_Intersection
  <2>2. QED
    BY <2>1, FS_CardinalityType
<1>4. u = [id |-> last + Rank(Starts(s), b), low |-> s.base + b, high |-> s.base + End(s, b),
           reason |-> IF ~Executed(s, b) THEN "notExecuted"
                      ELSE IF Always(s, b) THEN "alwaysTaken" ELSE "neverTaken",
           count |-> IF ~Executed(s, b) THEN Cardinality(s.start \cap b .. End(s, b)) ELSE 1,
           lowLine |-> "unset", highLine |-> "unset"]
  BY DEF Uncovered, End, Number
<1> HIDE DEF u
<1>5. u \in RangeRecord
  <2>1. u.id \in Nat /\ u.low \in Nat /\ u.high \in Nat
    BY <1>1, <1>2, <1>4
  <2>2. u.count \in Nat
    <3>1. u.count = IF ~Executed(s, b) THEN Cardinality(s.start \cap b .. End(s, b)) ELSE 1
      BY ONLY <1>4
    <3>2. QED
      BY ONLY <1>3, <3>1
  <2>5. u.reason \in Reasons /\ u.lowLine \in SourceLines /\ u.highLine \in SourceLines
    <3>1. /\ u.reason = IF ~Executed(s, b) THEN "notExecuted"
                        ELSE IF Always(s, b) THEN "alwaysTaken" ELSE "neverTaken"
          /\ u.lowLine = "unset" /\ u.highLine = "unset"
      BY ONLY <1>4
    <3>2. QED
      BY ONLY <3>1 DEF Reasons, SourceLines
  <2>3. u = [id |-> u.id, low |-> u.low, high |-> u.high, reason |-> u.reason, count |-> u.count,
             lowLine |-> u.lowLine, highLine |-> u.highLine]
    BY <1>4
  <2>4. QED
    BY <2>1, <2>2, <2>3, <2>5 DEF RangeRecord
<1>6. b \in RunStarts(s) => ~Executed(s, b)
  BY StartsFacts DEF Executed
<1>7. b \in OneWay(s) => Executed(s, b)
  BY StartsFacts DEF Executed
<1>8. b \in RunStarts(s) => End(s, b) = RunEnd(s, b)
  BY <1>6 DEF End
<1>9. QED
  BY <1>1, <1>4, <1>5, <1>6, <1>7, <1>8 DEF u

\* ... and once its lines are known.
LEMMA FullFacts ==
  ASSUME NEW s, Fit(s), NEW b \in Starts(s), NEW last \in Nat
  PROVE  LET u == Full(s, b, last) IN
         /\ u \in RangeRecord
         /\ u.id = last + Rank(Starts(s), b)
         /\ u.low = s.base + b /\ u.high = s.base + End(s, b)
         /\ b \in RunStarts(s) => /\ u.reason = "notExecuted"
                                  /\ u.count = Cardinality(s.start \cap b .. RunEnd(s, b))
         /\ b \in OneWay(s) => u.reason # "notExecuted"
         /\ u.lowLine = InsnAt(s, b).source /\ u.highLine = InsnAt(s, End(s, b)).source
<1> DEFINE u == Uncovered(s, b, last)
           v == Full(s, b, last)
<1>1. /\ u \in RangeRecord
      /\ u.id = last + Rank(Starts(s), b)
      /\ u.low = s.base + b /\ u.high = s.base + End(s, b)
      /\ b \in RunStarts(s) => /\ u.reason = "notExecuted"
                               /\ u.count = Cardinality(s.start \cap b .. RunEnd(s, b))
      /\ b \in OneWay(s) => u.reason # "notExecuted"
  BY UncoveredFacts, ZenonT(60)
<1>2. InsnAt(s, b).source \in SourceLines /\ InsnAt(s, End(s, b)).source \in SourceLines
  BY EndFacts, InsnAtFacts
<1>3. v = [u EXCEPT !.lowLine = InsnAt(s, b).source, !.highLine = InsnAt(s, End(s, b)).source]
  BY DEF Full
<1> HIDE DEF u, v
<1>4. /\ v \in RangeRecord /\ v.id = u.id /\ v.low = u.low /\ v.high = u.high
      /\ v.reason = u.reason /\ v.count = u.count
      /\ v.lowLine = InsnAt(s, b).source /\ v.highLine = InsnAt(s, End(s, b)).source
  BY <1>1, <1>2, <1>3 DEF RangeRecord
<1>5. QED
  BY <1>1, <1>4 DEF v

\* The answers of addr2line come back to the ranges they were asked for.
LEMMA LinedFacts ==
  ASSUME NEW s, Fit(s), NEW S, S \subseteq Starts(s), NEW last \in Nat
  PROVE  Lined(s, Listed(s, S, last)) = FullList(s, S, last)
<1> DEFINE n == Cardinality(S)
           rs == Listed(s, S, last)
           Q == Questions(s, rs)
           A == Addr2line(s, Q)
<1>1. n \in Nat /\ IsFiniteSet(S) /\ S \subseteq Nat
  BY StartsFacts, FS_Subset, FS_CardinalityType
<1>2. \A j \in 1 .. n : Ranked(S, j) \in Starts(s)
  BY <1>1, RankedFacts
<1>3. rs = [j \in 1 .. n |-> Uncovered(s, Ranked(S, j), last)]
  BY DEF Listed
<1>4. \A j \in 1 .. n : rs[j] \in RangeRecord
  <2> HIDE DEF n
  <2>1. QED
    BY <1>2, <1>3, UncoveredFacts, ZenonT(60)
<1>5. rs \in Seq(RangeRecord) /\ Len(rs) = n /\ DOMAIN rs = 1 .. n
  <2> HIDE DEF n, rs
  <2>1. rs \in [1 .. n -> RangeRecord]
    BY <1>3, <1>4
  <2>2. QED
    BY <1>1, <2>1
<1> HIDE DEF n, rs
<1>6. /\ s.base \in Nat /\ s.load \in Nat /\ s.load <= s.base /\ s.size \in Nat
  BY SymbolFacts
<1>7. ASSUME NEW j \in 1 .. n
      PROVE  A[2 * j - 1] = InsnAt(s, Ranked(S, j)).source
             /\ A[2 * j] = InsnAt(s, End(s, Ranked(S, j))).source
  <2> DEFINE b == Ranked(S, j)
             e == End(s, b)
  <2>1. b \in Starts(s)
    BY <1>2
  <2>2. rs[j].low = s.base + b /\ rs[j].high = s.base + e
    BY <1>3, <2>1, UncoveredFacts
  <2>3. b \in Nat /\ e \in Nat /\ b <= e /\ e <= s.size - 1
    BY <1>6, <2>1, EndFacts DEF Bytes
  <2> HIDE DEF b, e
  <2>4. /\ 2 * j - 1 \in 1 .. 2 * n /\ 2 * j \in 1 .. 2 * n
        /\ (2 * j - 1) % 2 = 1 /\ ((2 * j - 1) + 1) \div 2 = j
        /\ (2 * j) % 2 = 0 /\ (2 * j) \div 2 = j
    BY <1>1
  <2>5. \A k \in 1 .. 2 * n :
          Q[k] = (IF k % 2 = 1 THEN rs[(k + 1) \div 2].low ELSE rs[k \div 2].high) - s.load
    BY <1>5 DEF Questions
  <2>6. DOMAIN Q = 1 .. 2 * n
    BY <1>5 DEF Questions
  <2>7. Q[2 * j - 1] = s.base + b - s.load /\ Q[2 * j] = s.base + e - s.load
    <3>1. Q[2 * j - 1] = rs[j].low - s.load
      BY ONLY <2>4, <2>5
    <3>2. Q[2 * j] = rs[j].high - s.load
      BY ONLY <2>4, <2>5
    <3>3. QED
      BY ONLY <1>6, <2>2, <2>3, <3>1, <3>2
  <2> HIDE DEF Q
  <2>8. \A k \in 1 .. 2 * n :
          A[k] = IF Q[k] \in s.base - s.load .. s.base - s.load + s.size - 1
                   THEN InsnAt(s, Q[k] - (s.base - s.load)).source ELSE UnknownLine
    BY <2>6 DEF Addr2line
  <2> HIDE DEF A
  <2>9. /\ Q[2 * j - 1] \in s.base - s.load .. s.base - s.load + s.size - 1
        /\ Q[2 * j - 1] - (s.base - s.load) = b
        /\ Q[2 * j] \in s.base - s.load .. s.base - s.load + s.size - 1
        /\ Q[2 * j] - (s.base - s.load) = e
    BY <1>6, <2>3, <2>7
  <2>10. A[2 * j - 1] = InsnAt(s, b).source
    BY ONLY <2>4, <2>8, <2>9
  <2>11. A[2 * j] = InsnAt(s, e).source
    BY ONLY <2>4, <2>8, <2>9
  <2>12. QED
    BY <2>10, <2>11 DEF b, e
<1> HIDE DEF A
<1>8. Lined(s, rs) = [j \in 1 .. n |-> [rs[j] EXCEPT !.lowLine = A[2 * j - 1], !.highLine = A[2 * j]]]
  BY <1>5 DEF Lined, WithLines, A
<1>9. \A j \in 1 .. n : [rs[j] EXCEPT !.lowLine = A[2 * j - 1], !.highLine = A[2 * j]]
                          = Full(s, Ranked(S, j), last)
  BY <1>3, <1>7 DEF Full
<1>10. QED
  BY <1>8, <1>9 DEF FullList, rs, n
-----------------------------------------------------------------------------
(***************************************************************************)
(* All symbols: identification numbers go through the whole program.       *)
(***************************************************************************)
AllFit(ss) == /\ Len(ss) \in Nat \ {0} /\ DOMAIN ss = 1 .. Len(ss)
              /\ \A i \in 1 .. Len(ss) : Fit(ss[i])
Bases(ss)     == [i \in DOMAIN ss |-> IdsOf(ss[i])]
IdBase(ss, i) == Before(Bases(ss), i)

\* The places of one kind: runs of unexecuted bytes, or one-way branches.
RunsOf(ss)  == [i \in DOMAIN ss |-> RunStarts(ss[i])]
WaysOf(ss)  == [i \in DOMAIN ss |-> OneWay(ss[i])]
Kind(ss, T) == DOMAIN T = 1 .. Len(ss) /\ \A i \in 1 .. Len(ss) : T[i] \subseteq Starts(ss[i])
Sizes(T)    == [i \in DOMAIN T |-> Cardinality(T[i])]

BareAt(ss, T, i) == Listed(ss[i], T[i], IdBase(ss, i))
FullAt(ss, T, i) == FullList(ss[i], T[i], IdBase(ss, i))
Recs(ss, T)      == [i \in DOMAIN ss |-> FullAt(ss, T, i)]

\* Both kinds are kinds.
LEMMA KindFacts ==
  ASSUME NEW ss, AllFit(ss)
  PROVE  Kind(ss, RunsOf(ss)) /\ Kind(ss, WaysOf(ss))
<1>1. DOMAIN ss = 1 .. Len(ss)
  BY DEF AllFit
<1>2. \A i \in 1 .. Len(ss) : RunStarts(ss[i]) \subseteq Starts(ss[i]) /\ OneWay(ss[i]) \subseteq Starts(ss[i])
  BY DEF Starts
<1>3. QED
  BY <1>1, <1>2 DEF Kind, RunsOf, WaysOf

\* The numbers given before a symbol.
LEMMA BasesFacts ==
  ASSUME NEW ss, AllFit(ss)
  PROVE  /\ Sized(Len(ss), Bases(ss))
         /\ IdBase(ss, 1) = 0
         /\ \A i \in 1 .. Len(ss) + 1 : IdBase(ss, i) \in Nat
         /\ \A i \in 1 .. Len(ss) : /\ IdsOf(ss[i]) \in Nat /\ IdBase(ss, i) \in Nat
                                    /\ IdBase(ss, i + 1) = IdBase(ss, i) + IdsOf(ss[i])
         /\ \A i \in 1 .. Len(ss) : \A k \in i + 1 .. Len(ss) + 1 :
              IdBase(ss, i) + IdsOf(ss[i]) <= IdBase(ss, k)
<1> DEFINE n == Len(ss)
           len == Bases(ss)
<1>1. n \in Nat \ {0} /\ DOMAIN ss = 1 .. n /\ \A i \in 1 .. n : Fit(ss[i])
  BY DEF AllFit
<1>2. \A i \in 1 .. n : IdsOf(ss[i]) \in Nat /\ len[i] = IdsOf(ss[i])
  BY <1>1, StartsFacts, FS_CardinalityType DEF IdsOf, Bases
<1>3. Sized(n, len)
  BY <1>1, <1>2 DEF Sized
<1> HIDE DEF len, n
<1>4. /\ Before(len, 1) = 0
      /\ \A i \in 1 .. n + 1 : Before(len, i) \in Nat
      /\ \A i \in 1 .. n : Before(len, i + 1) = Before(len, i) + len[i]
  BY <1>3, BeforeFacts
<1>5. \A i \in 1 .. n : \A k \in i + 1 .. n + 1 : Before(len, i) + len[i] <= Before(len, k)
  BY <1>3, BeforeGrows
<1>6. \A i : IdBase(ss, i) = Before(len, i)
  BY DEF IdBase, len
<1>7. \A i \in 1 .. n : i \in 1 .. n + 1
  BY <1>1
<1>8. \A i \in 1 .. n : IdBase(ss, i + 1) = IdBase(ss, i) + IdsOf(ss[i])
  BY <1>2, <1>4, <1>6
<1>9. \A i \in 1 .. n : \A k \in i + 1 .. n + 1 : IdBase(ss, i) + IdsOf(ss[i]) <= IdBase(ss, k)
  BY <1>2, <1>5, <1>6
<1>10. QED
  BY <1>2, <1>3, <1>4, <1>6, <1>7, <1>8, <1>9 DEF n, len

\* The list of one symbol: its places by rank.
LEMMA ListFacts ==
  ASSUME NEW s, Fit(s), NEW S, S \subseteq Starts(s), NEW last \in Nat
  PROVE  LET n == Cardinality(S) IN
         /\ n \in Nat
         /\ Listed(s, S, last) \in Seq(RangeRecord) /\ Len(Listed(s, S, last)) = n
         /\ FullList(s, S, last) \in Seq(RangeRecord) /\ Len(FullList(s, S, last)) = n
         /\ DOMAIN FullList(s, S, last) = 1 .. n
         /\ \A j \in 1 .. n : /\ Ranked(S, j) \in S
                              /\ Listed(s, S, last)[j] = Uncovered(s, Ranked(S, j), last)
                              /\ FullList(s, S, last)[j] = Full(s, Ranked(S, j), last)
         /\ \A b \in S : \E j \in 1 .. n : Ranked(S, j) = b
<1> DEFINE n == Cardinality(S)
           L == Listed(s, S, last)
           F == FullList(s, S, last)
<1>1. n \in Nat /\ IsFiniteSet(S) /\ S \subseteq Nat
  BY StartsFacts, FS_Subset, FS_CardinalityType
<1>2. /\ L = [j \in 1 .. n |-> Uncovered(s, Ranked(S, j), last)]
      /\ F = [j \in 1 .. n |-> Full(s, Ranked(S, j), last)]
  BY DEF Listed, FullList
<1>3. \A b \in S : \E j \in 1 .. n : Ranked(S, j) = b
  BY <1>1, RankFacts
<1>4. \A j \in 1 .. n : Ranked(S, j) \in S
  BY <1>1, RankedFacts
<1>5. \A j \in 1 .. n : Uncovered(s, Ranked(S, j), last) \in RangeRecord
                        /\ Full(s, Ranked(S, j), last) \in RangeRecord
  <2> HIDE DEF n
  <2>1. QED
    BY <1>4, UncoveredFacts, FullFacts
<1> HIDE DEF n, L, F
<1>6. L \in [1 .. n -> RangeRecord] /\ F \in [1 .. n -> RangeRecord]
  BY <1>2, <1>5
<1>7. L \in Seq(RangeRecord) /\ Len(L) = n /\ F \in Seq(RangeRecord) /\ Len(F) = n /\ DOMAIN F = 1 .. n
  BY <1>1, <1>6
<1>8. QED
  BY <1>1, <1>2, <1>3, <1>4, <1>7 DEF n, L, F

\* No two uncovered places of the program have the same number.
LEMMA IdOne ==
  ASSUME NEW ss, AllFit(ss), NEW i \in 1 .. Len(ss), NEW k \in 1 .. Len(ss),
         NEW b \in Starts(ss[i]), NEW c \in Starts(ss[k]),
         Full(ss[i], b, IdBase(ss, i)).id = Full(ss[k], c, IdBase(ss, k)).id
  PROVE  i = k /\ b = c
<1> DEFINE len == Bases(ss)
           r == Rank(Starts(ss[i]), b)
           t == Rank(Starts(ss[k]), c)
<1>1. Sized(Len(ss), len) /\ IdBase(ss, i) \in Nat /\ IdBase(ss, k) \in Nat
  BY BasesFacts
<1>2. Fit(ss[i]) /\ Fit(ss[k]) /\ len[i] = IdsOf(ss[i]) /\ len[k] = IdsOf(ss[k])
  BY DEF AllFit, Bases
<1>3. r \in 1 .. len[i] /\ t \in 1 .. len[k]
  BY <1>2, StartsFacts, RankFacts DEF IdsOf
<1>4. IdBase(ss, i) + r = IdBase(ss, k) + t
  <2>1. Full(ss[i], b, IdBase(ss, i)).id = IdBase(ss, i) + r
    BY <1>1, <1>2, FullFacts
  <2>2. Full(ss[k], c, IdBase(ss, k)).id = IdBase(ss, k) + t
    BY <1>1, <1>2, FullFacts
  <2>3. QED
    BY <2>1, <2>2
<1>5. At(len, i, r) = At(len, k, t)
  BY <1>4 DEF At, IdBase
<1> HIDE DEF len
<1>6. i = k /\ r = t
  <2> HIDE DEF r, t
  <2>1. QED
    BY <1>1, <1>3, <1>5, AtOne
<1>7. /\ IsFiniteSet(Starts(ss[i])) /\ Starts(ss[i]) \subseteq Nat
      /\ c \in Starts(ss[i]) /\ Rank(Starts(ss[i]), b) = Rank(Starts(ss[i]), c)
  BY <1>2, <1>6, StartsFacts
<1>8. /\ Ranked(Starts(ss[i]), Rank(Starts(ss[i]), b)) = b
      /\ Ranked(Starts(ss[i]), Rank(Starts(ss[i]), c)) = c
  BY <1>7, RankFacts
<1>9. QED
  BY <1>6, <1>7, <1>8
-----------------------------------------------------------------------------
(***************************************************************************)
(* What is recorded of the symbols at any time: nothing yet, the places    *)
(* without their lines, or with them.                                      *)
(***************************************************************************)
Record(ss, T, ph, a) ==
  [i \in DOMAIN ss |->
     IF ph = "explain" \/ (ph = "compute" /\ i >= a) THEN << >>
     ELSE IF ph = "compute" \/ (ph = "source" /\ i >= a) THEN BareAt(ss, T, i)
     ELSE FullAt(ss, T, i)]
LastOf(ss, ph, a) ==
  IF ph = "explain" THEN 0 ELSE IF ph = "compute" THEN IdBase(ss, a)
                                ELSE IdBase(ss, Len(ss) + 1)

ScanInv ==
  /\ in \in Inputs
  /\ phase \in {"compute", "source"} => at \in 1 .. Len(in.symbols)
  /\ phase # "exited" =>
       /\ ranges = Record(in.symbols, RunsOf(in.symbols), phase, at)
       /\ branches = Record(in.symbols, WaysOf(in.symbols), phase, at)
       /\ lastId = LastOf(in.symbols, phase, at)

\* The symbols are as InputAssumption has them.
LEMMA InputsFit == ASSUME in \in Inputs PROVE AllFit(in.symbols)
BY InputAssumption DEF AllFit, Fit

\* A record is one of three things.
LEMMA RecordCases ==
  ASSUME NEW ss, AllFit(ss), NEW T, NEW ph, NEW a, NEW i \in 1 .. Len(ss)
  PROVE  /\ DOMAIN Record(ss, T, ph, a) = 1 .. Len(ss)
         /\ Record(ss, T, ph, a)[i] =
              IF ph = "explain" \/ (ph = "compute" /\ i >= a) THEN << >>
              ELSE IF ph = "compute" \/ (ph = "source" /\ i >= a) THEN BareAt(ss, T, i)
              ELSE FullAt(ss, T, i)
BY DEF Record, AllFit

\* What is recorded is well formed, and numbered up to the last number.
LEMMA RecordTyped ==
  ASSUME NEW ss, AllFit(ss), NEW T, Kind(ss, T), NEW ph, NEW a,
         ph \in {"compute", "source"} => a \in 1 .. Len(ss),
         NEW i \in 1 .. Len(ss), NEW r \in ToSet(Record(ss, T, ph, a)[i])
  PROVE  r \in RangeRecord /\ r.id \in 1 .. LastOf(ss, ph, a) /\ r.low <= r.high
<1> DEFINE R == Record(ss, T, ph, a)
           s == ss[i]
           base == IdBase(ss, i)
           n == Len(ss)
<1>1. /\ Fit(s) /\ T[i] \subseteq Starts(s) /\ base \in Nat /\ n \in Nat \ {0}
      /\ IdsOf(s) \in Nat /\ s.base \in Nat
  BY BasesFacts, SymbolFacts DEF AllFit, Kind
<1>2. ToSet(<< >>) = {}
  BY DEF ToSet
<1>3. R[i] # << >>
  BY <1>2
<1>4. ~(ph = "explain" \/ (ph = "compute" /\ i >= a)) /\ (R[i] = BareAt(ss, T, i) \/ R[i] = FullAt(ss, T, i))
  BY <1>3, RecordCases
<1>5. PICK j \in DOMAIN R[i] : r = R[i][j]
  BY DEF ToSet
<1>6. \E b \in Starts(s) : r = Uncovered(s, b, base) \/ r = Full(s, b, base)
  <2>1. /\ Cardinality(T[i]) \in Nat
        /\ Listed(s, T[i], base) \in Seq(RangeRecord) /\ Len(Listed(s, T[i], base)) = Cardinality(T[i])
        /\ DOMAIN FullList(s, T[i], base) = 1 .. Cardinality(T[i])
        /\ \A m \in 1 .. Cardinality(T[i]) :
             /\ Ranked(T[i], m) \in T[i]
             /\ Listed(s, T[i], base)[m] = Uncovered(s, Ranked(T[i], m), base)
             /\ FullList(s, T[i], base)[m] = Full(s, Ranked(T[i], m), base)
    BY <1>1, ListFacts
  <2>2. CASE R[i] = BareAt(ss, T, i)
    <3>1. R[i] = Listed(s, T[i], base)
      BY <2>2 DEF BareAt
    <3>2. j \in 1 .. Cardinality(T[i])
      BY <1>5, <2>1, <3>1
    <3>3. QED
      BY <1>1, <1>5, <2>1, <3>1, <3>2
  <2>3. CASE R[i] = FullAt(ss, T, i)
    <3>1. R[i] = FullList(s, T[i], base)
      BY <2>3 DEF FullAt
    <3>2. j \in 1 .. Cardinality(T[i])
      BY <1>5, <2>1, <3>1
    <3>3. QED
      BY <1>1, <1>5, <2>1, <3>1, <3>2
  <2>4. QED
    BY <1>4, <2>2, <2>3
<1>7. PICK b \in Starts(s) : r = Uncovered(s, b, base) \/ r = Full(s, b, base)
  BY <1>6
<1>8. /\ r \in RangeRecord /\ r.id = base + Rank(Starts(s), b)
      /\ r.low = s.base + b /\ r.high = s.base + End(s, b)
      /\ Rank(Starts(s), b) \in 1 .. IdsOf(s)
  <2> HIDE DEF s, base
  <2>0. Rank(Starts(s), b) \in 1 .. IdsOf(s)
    BY <1>1, UncoveredFacts
  <2>1. CASE r = Uncovered(s, b, base)
    <3>1. /\ Uncovered(s, b, base) \in RangeRecord
          /\ Uncovered(s, b, base).id = base + Rank(Starts(s), b)
          /\ Uncovered(s, b, base).low = s.base + b /\ Uncovered(s, b, base).high = s.base + End(s, b)
      BY <1>1, UncoveredFacts, ZenonT(60)
    <3>2. QED
      BY <2>0, <2>1, <3>1
  <2>2. CASE r = Full(s, b, base)
    <3>1. /\ Full(s, b, base) \in RangeRecord
          /\ Full(s, b, base).id = base + Rank(Starts(s), b)
          /\ Full(s, b, base).low = s.base + b /\ Full(s, b, base).high = s.base + End(s, b)
      BY <1>1, FullFacts, ZenonT(60)
    <3>2. QED
      BY <2>0, <2>2, <3>1
  <2>3. QED
    BY <1>7, <2>1, <2>2
<1>9. b \in Nat /\ End(s, b) \in Nat /\ b <= End(s, b)
  BY <1>1, EndFacts
<1>10. base + IdsOf(s) <= LastOf(ss, ph, a) /\ LastOf(ss, ph, a) \in Nat
  <2>0. /\ \A k \in i + 1 .. n + 1 : base + IdsOf(s) <= IdBase(ss, k)
        /\ \A k \in 1 .. n + 1 : IdBase(ss, k) \in Nat
    BY BasesFacts
  <2>1. CASE ph = "compute"
    <3>1. a \in i + 1 .. n + 1 /\ a \in 1 .. n + 1
      BY <1>1, <1>4, <2>1
    <3>2. QED
      BY <2>0, <2>1, <3>1 DEF LastOf
  <2>2. CASE ph # "compute"
    <3>1. n + 1 \in i + 1 .. n + 1 /\ n + 1 \in 1 .. n + 1
      BY <1>1
    <3>2. LastOf(ss, ph, a) = IdBase(ss, n + 1)
      BY <1>4, <2>2 DEF LastOf
    <3>3. QED
      BY <2>0, <3>1, <3>2
  <2>3. QED
    BY <2>1, <2>2
<1> HIDE DEF base, s
<1>11. QED
  BY <1>1, <1>8, <1>9, <1>10
-----------------------------------------------------------------------------
(***************************************************************************)
(* The state in which reports are written, and the annotated lines there.  *)
(***************************************************************************)
Reporting ==
  /\ AllFit(Symbols)
  /\ ranges = Recs(Symbols, RunsOf(Symbols))
  /\ branches = Recs(Symbols, WaysOf(Symbols))

\* When the reports are written, everything is recorded.
LEMMA NowReporting ==
  ASSUME ScanInv, phase \in {"report", "done", "crashed"}
  PROVE  Reporting /\ lastId = IdBase(Symbols, Len(Symbols) + 1)
<1>1. AllFit(in.symbols)
  BY InputsFit DEF ScanInv
<1>2. /\ ranges = Record(in.symbols, RunsOf(in.symbols), phase, at)
      /\ branches = Record(in.symbols, WaysOf(in.symbols), phase, at)
      /\ lastId = LastOf(in.symbols, phase, at)
  BY DEF ScanInv
<1>3. phase # "explain" /\ phase # "compute" /\ phase # "source"
  OBVIOUS
<1>4. \A T : Record(in.symbols, T, phase, at) = Recs(in.symbols, T)
  BY <1>3 DEF Record, Recs
<1>5. QED
  BY <1>1, <1>2, <1>3, <1>4 DEF Reporting, Symbols, LastOf

WhollyCovered(i) == Len(ranges[i]) + Len(branches[i]) = 0
LineLists ==
  [i \in DOMAIN Symbols |->
     IF WhollyCovered(i) THEN << >>
     ELSE [k \in DOMAIN Symbols[i].lines |-> Annotated(i, Symbols[i].lines[k])]]
LineAt(i, k) == At(Lens(LineLists), i, k)
LineCount(i) == IF WhollyCovered(i) THEN 0 ELSE Len(Symbols[i].lines)

\* The lines of the annotated assembly, symbol by symbol.
LEMMA AnnotatedFacts ==
  ASSUME Reporting
  PROVE  LET n == Len(Symbols) IN
         /\ Len(AnnotatedLines) \in Nat /\ DOMAIN AnnotatedLines = 1 .. Len(AnnotatedLines)
         /\ Sized(n, Lens(LineLists)) /\ Len(AnnotatedLines) = Before(Lens(LineLists), n + 1)
         /\ \A i \in 1 .. n : LineCount(i) \in Nat /\ Lens(LineLists)[i] = LineCount(i)
         /\ \A i \in 1 .. n : \A k \in 1 .. LineCount(i) :
              /\ LineAt(i, k) \in 1 .. Len(AnnotatedLines)
              /\ AnnotatedLines[LineAt(i, k)] = Annotated(i, Symbols[i].lines[k])
         /\ \A x \in 1 .. Len(AnnotatedLines) :
              \E i \in 1 .. n : \E k \in 1 .. LineCount(i) : x = LineAt(i, k)
<1> DEFINE n == Len(Symbols)
           ss == LineLists
           V == UNION {{Annotated(i, Symbols[i].lines[k]) : k \in DOMAIN Symbols[i].lines} :
                         i \in DOMAIN Symbols}
<1>1. /\ n \in Nat \ {0} /\ DOMAIN Symbols = 1 .. n
      /\ \A i \in 1 .. n : Fit(Symbols[i])
  BY DEF Reporting, AllFit
<1>2. \A i \in 1 .. n : Len(Symbols[i].lines) \in Nat /\ DOMAIN Symbols[i].lines = 1 .. Len(Symbols[i].lines)
  BY <1>1, LineFacts
<1>3. ASSUME NEW i \in 1 .. n PROVE ss[i] \in Seq(V) /\ Len(ss[i]) = LineCount(i)
  <2>1. ss[i] = IF WhollyCovered(i) THEN << >>
                ELSE [k \in DOMAIN Symbols[i].lines |-> Annotated(i, Symbols[i].lines[k])]
    BY <1>1 DEF LineLists
  <2> DEFINE m == Len(Symbols[i].lines)
             F == [k \in 1 .. m |-> Annotated(i, Symbols[i].lines[k])]
  <2>2. \A k \in 1 .. m : Annotated(i, Symbols[i].lines[k]) \in V
    BY <1>1, <1>2
  <2> HIDE DEF V
  <2>3. m \in Nat
    BY <1>2
  <2>4. F \in [1 .. m -> V]
    BY <2>2
  <2>5. F \in Seq(V) /\ Len(F) = m
    <3> HIDE DEF F, m
    <3>1. F \in Seq(V)
      BY <2>3, <2>4
    <3>2. Len(F) = m
      BY <2>3, <2>4, <3>1
    <3>3. QED
      BY <3>1, <3>2
  <2>6. << >> \in Seq(V) /\ Len(<< >>) = 0
    OBVIOUS
  <2>7. ss[i] = IF WhollyCovered(i) THEN << >> ELSE F
    BY <1>2, <2>1
  <2> HIDE DEF F, ss
  <2>8. QED
    BY <2>5, <2>6, <2>7 DEF LineCount
<1>4. Lists(n, ss, V)
  <2>1. ss = [i \in 1 .. n |-> ss[i]]
    BY <1>1 DEF LineLists
  <2> HIDE DEF ss, V
  <2>2. QED
    BY <1>1, <1>3, <2>1 DEF Lists
<1>5. AnnotatedLines = FlattenSeq(ss)
  BY DEF AnnotatedLines, LineLists, WhollyCovered
<1>6. \A i \in 1 .. n : \A k \in 1 .. LineCount(i) :
        LineCount(i) = Len(Symbols[i].lines) /\ ss[i][k] = Annotated(i, Symbols[i].lines[k])
  <2>1. ASSUME NEW i \in 1 .. n, NEW k \in 1 .. LineCount(i)
        PROVE  LineCount(i) = Len(Symbols[i].lines) /\ ss[i][k] = Annotated(i, Symbols[i].lines[k])
    <3>1. ~WhollyCovered(i) /\ LineCount(i) = Len(Symbols[i].lines)
      BY DEF LineCount
    <3>2. k \in DOMAIN Symbols[i].lines /\ i \in DOMAIN Symbols
      BY <1>1, <1>2, <3>1
    <3>3. QED
      BY <3>1, <3>2 DEF LineLists
  <2>2. QED
    BY <2>1
<1> HIDE DEF V, ss
<1>7. LET F == FlattenSeq(ss)
          len == Lens(ss)
      IN  /\ Len(F) = Before(len, n + 1) /\ Len(F) \in Nat /\ DOMAIN F = 1 .. Len(F)
          /\ \A i \in 1 .. n : \A j \in 1 .. Len(ss[i]) :
               At(len, i, j) \in 1 .. Len(F) /\ F[At(len, i, j)] = ss[i][j]
          /\ \A k \in 1 .. Len(F) :
               \E i \in 1 .. n : \E j \in 1 .. Len(ss[i]) : k = At(len, i, j)
  BY <1>4, FlattenFacts
<1>8. Sized(n, Lens(ss)) /\ \A i \in 1 .. n : Len(ss[i]) \in Nat /\ Lens(ss)[i] = Len(ss[i])
  BY <1>4, ListsFacts
<1>9. \A i, k : LineAt(i, k) = At(Lens(ss), i, k)
  BY DEF LineAt, ss
<1>10. \A i \in 1 .. n : \A k \in 1 .. LineCount(i) :
          /\ LineAt(i, k) \in 1 .. Len(AnnotatedLines)
          /\ AnnotatedLines[LineAt(i, k)] = Annotated(i, Symbols[i].lines[k])
  BY <1>3, <1>5, <1>6, <1>7, <1>9
<1>11. \A x \in 1 .. Len(AnnotatedLines) :
          \E i \in 1 .. n : \E k \in 1 .. LineCount(i) : x = LineAt(i, k)
  BY <1>3, <1>5, <1>7, <1>9
<1>12. \A i \in 1 .. n : LineCount(i) \in Nat /\ Lens(LineLists)[i] = LineCount(i)
  BY <1>3, <1>8 DEF ss
<1>13. /\ Len(AnnotatedLines) \in Nat /\ DOMAIN AnnotatedLines = 1 .. Len(AnnotatedLines)
       /\ Sized(n, Lens(LineLists)) /\ Len(AnnotatedLines) = Before(Lens(LineLists), n + 1)
  BY <1>5, <1>7, <1>8 DEF ss
<1>14. QED
  BY <1>10, <1>11, <1>12, <1>13

\* How one line may be annotated.
LEMMA AnnotatedStates ==
  ASSUME NEW i, NEW l
  PROVE  Annotated(i, l).state \in States /\ Annotated(i, l).symbol = Symbols[i].name
BY DEF Annotated, BranchState, States

\* The last line of the annotated assembly has a state, too.
LEMMA LastAnnotated ==
  ASSUME Reporting, Len(AnnotatedLines) # 0
  PROVE  Last(AnnotatedLines).state \in States
<1>1. /\ Len(AnnotatedLines) \in 1 .. Len(AnnotatedLines)
      /\ Last(AnnotatedLines) = AnnotatedLines[Len(AnnotatedLines)]
  BY AnnotatedFacts DEF Last
<1>2. PICK i \in 1 .. Len(Symbols) : \E k \in 1 .. LineCount(i) : Len(AnnotatedLines) = LineAt(i, k)
  BY <1>1, AnnotatedFacts
<1>3. PICK k \in 1 .. LineCount(i) : Len(AnnotatedLines) = LineAt(i, k)
  BY <1>2
<1>4. AnnotatedLines[LineAt(i, k)] = Annotated(i, Symbols[i].lines[k])
  BY AnnotatedFacts
<1>5. QED
  BY <1>1, <1>3, <1>4, AnnotatedStates
-----------------------------------------------------------------------------
(***************************************************************************)
(* The three kinds of steps: reading explanations, recording symbols,      *)
(* writing reports.                                                        *)
(***************************************************************************)
ReadStep ==
  /\ phase = "explain" /\ phase' \in {"explain", "compute", "exited"}
  /\ phase' = "compute" => at' = 1
  /\ expect' \in {"start", "classification", "explanation"}
  /\ DOMAIN explanations \subseteq DOMAIN explanations'
  /\ IsFiniteSet(DOMAIN explanations) => IsFiniteSet(DOMAIN explanations')
  /\ UNCHANGED << in, found, scanned, job, lastState, written >>

ReportStep ==
  /\ phase = "report" /\ phase' \in {"report", "done", "crashed"}
  /\ UNCHANGED reportInput
  /\ job \in 1 .. Len(Jobs) + 1 => job' \in 1 .. Len(Jobs) + 1
  /\ found \subseteq found' /\ found' \subseteq found \cup DOMAIN explanations
  /\ lastState' \in {lastState} \cup States
  /\ DOMAIN files' = DOMAIN files
  /\ missed' \in {missed, TRUE}

\* Every step of reading explanations is one.
LEMMA ReadSteps ==
  ASSUME \/ ReadStart \/ ReadClassification \/ ReadExplanation
         \/ EndExplanations \/ CannotReadExplanations,
         expect \in {"start", "classification", "explanation"}
  PROVE  ReadStep
<1>1. CASE ReadStart
  <2>1. /\ phase = "explain" /\ phase' \in {"explain", "exited"}
        /\ expect' \in {"start", "classification", "explanation"}
        /\ UNCHANGED << in, explanations, found, scanned, job, lastState, written >>
    BY <1>1 DEF ReadStart
  <2>2. QED
    BY <2>1 DEF ReadStep
<1>2. CASE ReadClassification
  BY <1>2 DEF ReadClassification, ReadStep
<1>3. CASE ReadExplanation
  <2>1. /\ phase = "explain" /\ phase' = phase
        /\ UNCHANGED << in, found, scanned, job, lastState, written >>
        /\ expect' \in {"start", "classification", "explanation"}
    BY <1>3 DEF ReadExplanation
  <2>2. \/ explanations' = explanations
        \/ DOMAIN explanations' = DOMAIN explanations \cup {entry.start}
    BY <1>3 DEF ReadExplanation
  <2>3. IsFiniteSet(DOMAIN explanations) => IsFiniteSet(DOMAIN explanations \cup {entry.start})
    BY FS_AddElement
  <2>4. QED
    BY <2>1, <2>2, <2>3 DEF ReadStep
<1>4. CASE EndExplanations
  BY <1>4 DEF EndExplanations, ReadStep
<1>5. CASE CannotReadExplanations
  BY <1>5 DEF CannotReadExplanations, ReadStep, loading
<1>6. QED
  BY <1>1, <1>2, <1>3, <1>4, <1>5

\* The number of a report to write.
LEMMA TurnFacts ==
  ASSUME NEW name, Turn(name)
  PROVE  /\ phase = "report" /\ job <= Len(Jobs) /\ Jobs[job] = name
         /\ Len(Jobs) = 13
BY DEF Turn, Jobs

\* The next number.
LEMMA NextJob ==
  ASSUME job <= Len(Jobs), JobDone
  PROVE  job \in 1 .. Len(Jobs) + 1 => job' \in 1 .. Len(Jobs) + 1
BY DEF JobDone, Jobs

\* Looking explanations up finds only those there are.
LEMMA LookUpFacts ==
  ASSUME NEW places, LookUp(places)
  PROVE  found \subseteq found' /\ found' \subseteq found \cup DOMAIN explanations
BY DEF LookUp, ExplainedIn, HasExplanation

\* Writing one file leaves the names of all as they are.
LEMMA PutFacts ==
  ASSUME NEW name, NEW content, Put(name, content)
  PROVE  DOMAIN files' = DOMAIN files
BY DEF Put

\* Every step of writing reports is one.
LEMMA ReportSteps ==
  ASSUME ScanInv,
         \/ CannotOpen \/ OnlyNoRangeOpened
         \/ WriteTextIndex \/ WriteTextAnnotated \/ WriteTextBranch \/ WriteTextCoverage
         \/ WriteTextSize \/ WriteTextSymbolSummary
         \/ WriteHtmlIndex \/ WriteHtmlAnnotated \/ WriteHtmlBranch \/ WriteHtmlCoverage
         \/ WriteHtmlSize \/ WriteHtmlSymbolSummary
         \/ WriteSummary \/ WriteNotFound \/ NothingAsked
  PROVE  ReportStep
<1>1. CASE CannotOpen
  BY <1>1, NextJob DEF CannotOpen, ReportStep
<1>2. CASE OnlyNoRangeOpened
  BY <1>2, TurnFacts, NextJob, PutFacts DEF OnlyNoRangeOpened, ReportStep
<1>3. CASE WriteTextIndex
  BY <1>3, TurnFacts, NextJob DEF WriteTextIndex, ReportStep, written
<1>4. CASE WriteTextAnnotated
  BY <1>4, TurnFacts, NextJob, PutFacts DEF WriteTextAnnotated, ReportStep
<1>5. CASE WriteTextBranch
  <2>1. /\ Turn("branch.txt") /\ JobDone /\ DOMAIN files' = DOMAIN files
        /\ UNCHANGED << reportInput, phase, lastState, explained, missed >>
    BY <1>5, PutFacts DEF WriteTextBranch
  <2>2. found \subseteq found' /\ found' \subseteq found \cup DOMAIN explanations
    BY <1>5, LookUpFacts DEF WriteTextBranch
  <2>3. QED
    BY <2>1, <2>2, TurnFacts, NextJob DEF ReportStep
<1>6. CASE WriteTextCoverage
  <2>1. /\ Turn("uncovered.txt") /\ JobDone /\ DOMAIN files' = DOMAIN files
        /\ UNCHANGED << reportInput, phase, lastState, explained, missed >>
    BY <1>6 DEF WriteTextCoverage
  <2>2. found \subseteq found' /\ found' \subseteq found \cup DOMAIN explanations
    BY <1>6, LookUpFacts DEF WriteTextCoverage
  <2>3. QED
    BY <2>1, <2>2, TurnFacts, NextJob DEF ReportStep
<1>7. CASE WriteTextSize
  <2>1. /\ Turn("sizes.txt") /\ JobDone /\ DOMAIN files' = DOMAIN files
        /\ UNCHANGED << reportInput, phase, found, lastState, explained, missed >>
    BY <1>7, PutFacts DEF WriteTextSize
  <2>2. QED
    BY <2>1, TurnFacts, NextJob DEF ReportStep
<1>8. CASE WriteTextSymbolSummary
  <2>1. /\ Turn("symbolSummary.txt") /\ JobDone /\ DOMAIN files' = DOMAIN files
        /\ UNCHANGED << reportInput, phase, found, lastState, explained, missed >>
    BY <1>8, PutFacts DEF WriteTextSymbolSummary
  <2>2. QED
    BY <2>1, TurnFacts, NextJob DEF ReportStep
<1>9. CASE WriteHtmlIndex
  BY <1>9, TurnFacts, NextJob, PutFacts DEF WriteHtmlIndex, ReportStep
<1>10. CASE WriteHtmlAnnotated
  <2>1. /\ Turn("annotated.html") /\ JobDone /\ DOMAIN files' = DOMAIN files
        /\ UNCHANGED << reportInput, phase, found, explained, missed >>
    BY <1>10, PutFacts DEF WriteHtmlAnnotated
  <2>2. lastState' = IF Len(AnnotatedLines) = 0 THEN lastState ELSE Last(AnnotatedLines).state
    BY <1>10 DEF WriteHtmlAnnotated
  <2>3. Reporting
    BY <2>1, TurnFacts, NowReporting
  <2>4. lastState' \in {lastState} \cup States
    BY <2>2, <2>3, LastAnnotated
  <2>5. QED
    BY <2>1, <2>4, TurnFacts, NextJob DEF ReportStep
<1>11. CASE WriteHtmlBranch
  <2>1. /\ Turn("branch.html") /\ JobDone /\ DOMAIN files' = DOMAIN files
        /\ UNCHANGED << reportInput, phase, lastState, missed >>
    BY <1>11, PutFacts DEF WriteHtmlBranch
  <2>2. found \subseteq found' /\ found' \subseteq found \cup DOMAIN explanations
    BY <1>11, LookUpFacts DEF WriteHtmlBranch
  <2>3. QED
    BY <2>1, <2>2, TurnFacts, NextJob DEF ReportStep
<1>12. CASE WriteHtmlCoverage
  <2>1. /\ Turn("uncovered.html") /\ JobDone /\ DOMAIN files' = DOMAIN files
        /\ UNCHANGED << reportInput, phase, lastState, missed >>
    BY <1>12 DEF WriteHtmlCoverage
  <2>2. found \subseteq found' /\ found' \subseteq found \cup DOMAIN explanations
    BY <1>12, LookUpFacts DEF WriteHtmlCoverage
  <2>3. QED
    BY <2>1, <2>2, TurnFacts, NextJob DEF ReportStep
<1>13. CASE WriteHtmlSize
  <2>1. /\ Turn("sizes.html") /\ JobDone /\ DOMAIN files' = DOMAIN files
        /\ UNCHANGED << reportInput, phase, found, lastState, explained, missed >>
    BY <1>13, PutFacts DEF WriteHtmlSize
  <2>2. QED
    BY <2>1, TurnFacts, NextJob DEF ReportStep
<1>14. CASE WriteHtmlSymbolSummary
  <2>1. /\ Turn("symbolSummary.html") /\ JobDone /\ DOMAIN files' = DOMAIN files
        /\ UNCHANGED << reportInput, phase, found, lastState, explained, missed >>
    BY <1>14, PutFacts DEF WriteHtmlSymbolSummary
  <2>2. QED
    BY <2>1, TurnFacts, NextJob DEF ReportStep
<1>15. CASE WriteSummary
  <2>1. /\ Turn("summary.txt") /\ JobDone /\ DOMAIN files' = DOMAIN files
        /\ UNCHANGED << reportInput, phase, found, lastState, explained, missed >>
    BY <1>15, PutFacts DEF WriteSummary
  <2>2. QED
    BY <2>1, TurnFacts, NextJob DEF ReportStep
<1>16. CASE WriteNotFound
  BY <1>16, PutFacts DEF WriteNotFound, AllDone, ReportStep
<1>17. CASE NothingAsked
  BY <1>17 DEF NothingAsked, AllDone, ReportStep, written
<1>18. QED
  BY <1>1, <1>2, <1>3, <1>4, <1>5, <1>6, <1>7, <1>8, <1>9, <1>10, <1>11, <1>12, <1>13, <1>14,
     <1>15, <1>16, <1>17
-----------------------------------------------------------------------------
(***************************************************************************)
(* The record of the symbols, step by step.                                *)
(***************************************************************************)
\* One more symbol's places are listed.
LEMMA RecordCompute ==
  ASSUME NEW ss, AllFit(ss), NEW T, NEW a \in 1 .. Len(ss)
  PROVE  [Record(ss, T, "compute", a) EXCEPT ![a] = BareAt(ss, T, a)] =
           IF a = Len(ss) THEN Record(ss, T, "source", 1) ELSE Record(ss, T, "compute", a + 1)
<1> DEFINE n == Len(ss)
           R == Record(ss, T, "compute", a)
           B(i) == BareAt(ss, T, i)
<1>1. n \in Nat \ {0} /\ DOMAIN ss = 1 .. n
  BY DEF AllFit
<1>2. R = [i \in 1 .. n |-> IF i >= a THEN << >> ELSE B(i)]
  BY <1>1 DEF Record
<1>3. Record(ss, T, "source", 1) = [i \in 1 .. n |-> B(i)]
  <2>1. Record(ss, T, "source", 1) = [i \in 1 .. n |-> IF i >= 1 THEN B(i) ELSE FullAt(ss, T, i)]
    BY <1>1 DEF Record
  <2>2. \A i \in 1 .. n : i >= 1
    BY <1>1
  <2> HIDE DEF B
  <2>3. QED
    BY <2>1, <2>2
<1>4. Record(ss, T, "compute", a + 1) = [i \in 1 .. n |-> IF i >= a + 1 THEN << >> ELSE B(i)]
  BY <1>1 DEF Record
<1> HIDE DEF R, B
<1>5. [R EXCEPT ![a] = B(a)] = [i \in 1 .. n |-> IF i >= a + 1 THEN << >> ELSE B(i)]
  <2>1. \A i \in 1 .. n : (i >= a + 1 <=> i >= a /\ i # a)
    BY <1>1
  <2>2. [R EXCEPT ![a] = B(a)] = [i \in 1 .. n |-> IF i = a THEN B(a) ELSE R[i]]
    BY <1>2
  <2>3. \A i \in 1 .. n : (IF i = a THEN B(a) ELSE R[i]) = IF i >= a + 1 THEN << >> ELSE B(i)
    BY <1>2, <2>1
  <2>4. QED
    BY <2>2, <2>3
<1>6. a = n => [i \in 1 .. n |-> IF i >= a + 1 THEN << >> ELSE B(i)] = [i \in 1 .. n |-> B(i)]
  <2>1. SUFFICES ASSUME a = n
                 PROVE  [i \in 1 .. n |-> IF i >= a + 1 THEN << >> ELSE B(i)] = [i \in 1 .. n |-> B(i)]
    OBVIOUS
  <2>2. \A i \in 1 .. n : ~(i >= a + 1)
    BY <1>1, <2>1
  <2>3. QED
    BY <2>2
<1>7. QED
  BY <1>3, <1>4, <1>5, <1>6 DEF R, B

\* One more symbol's places have their lines.
LEMMA RecordSource ==
  ASSUME NEW ss, AllFit(ss), NEW T, NEW a \in 1 .. Len(ss)
  PROVE  [Record(ss, T, "source", a) EXCEPT ![a] = FullAt(ss, T, a)] =
           IF a = Len(ss) THEN Record(ss, T, "report", 1) ELSE Record(ss, T, "source", a + 1)
<1> DEFINE n == Len(ss)
           R == Record(ss, T, "source", a)
           B(i) == BareAt(ss, T, i)
           F(i) == FullAt(ss, T, i)
<1>1. n \in Nat \ {0} /\ DOMAIN ss = 1 .. n
  BY DEF AllFit
<1>2. R = [i \in 1 .. n |-> IF i >= a THEN B(i) ELSE F(i)]
  BY <1>1 DEF Record
<1>3. Record(ss, T, "report", 1) = [i \in 1 .. n |-> F(i)]
  BY <1>1 DEF Record
<1>4. Record(ss, T, "source", a + 1) = [i \in 1 .. n |-> IF i >= a + 1 THEN B(i) ELSE F(i)]
  BY <1>1 DEF Record
<1> HIDE DEF R, B, F
<1>5. [R EXCEPT ![a] = F(a)] = [i \in 1 .. n |-> IF i >= a + 1 THEN B(i) ELSE F(i)]
  <2>1. \A i \in 1 .. n : (i >= a + 1 <=> i >= a /\ i # a)
    BY <1>1
  <2>2. [R EXCEPT ![a] = F(a)] = [i \in 1 .. n |-> IF i = a THEN F(a) ELSE R[i]]
    BY <1>2
  <2>3. \A i \in 1 .. n : (IF i = a THEN F(a) ELSE R[i]) = IF i >= a + 1 THEN B(i) ELSE F(i)
    BY <1>2, <2>1
  <2>4. QED
    BY <2>2, <2>3
<1>6. a = n => [i \in 1 .. n |-> IF i >= a + 1 THEN B(i) ELSE F(i)] = [i \in 1 .. n |-> F(i)]
  <2>1. SUFFICES ASSUME a = n
                 PROVE  [i \in 1 .. n |-> IF i >= a + 1 THEN B(i) ELSE F(i)] = [i \in 1 .. n |-> F(i)]
    OBVIOUS
  <2>2. \A i \in 1 .. n : ~(i >= a + 1)
    BY <1>1, <2>1
  <2>3. QED
    BY <2>2
<1>7. QED
  BY <1>3, <1>4, <1>5, <1>6 DEF R, F

\* At the start nothing is recorded, nor when counting begins.
LEMMA RecordNothing ==
  ASSUME NEW ss, AllFit(ss), NEW T, NEW a
  PROVE  /\ Record(ss, T, "explain", a) = [i \in DOMAIN ss |-> << >>]
         /\ Record(ss, T, "compute", 1) = [i \in DOMAIN ss |-> << >>]
<1>1. \A i \in DOMAIN ss : i >= 1
  BY DEF AllFit
<1>2. QED
  BY <1>1 DEF Record

\* At the start nothing is recorded.
LEMMA InitScan == ASSUME Init PROVE ScanInv
<1>1. /\ in \in Inputs /\ AllFit(in.symbols) /\ at = 1
      /\ phase \in {"explain", "compute"} /\ lastId = 0
      /\ ranges = [i \in DOMAIN in.symbols |-> << >>]
      /\ branches = [i \in DOMAIN in.symbols |-> << >>]
  BY InputsFit DEF Init
<1>2. 1 \in 1 .. Len(in.symbols)
  BY <1>1 DEF AllFit
<1>3. \A T : Record(in.symbols, T, phase, at) = [i \in DOMAIN in.symbols |-> << >>]
  <2>1. \A T : /\ Record(in.symbols, T, "explain", 1) = [i \in DOMAIN in.symbols |-> << >>]
               /\ Record(in.symbols, T, "compute", 1) = [i \in DOMAIN in.symbols |-> << >>]
    BY <1>1, RecordNothing
  <2>2. QED
    BY <1>1, <2>1
<1>4. LastOf(in.symbols, phase, at) = 0
  BY <1>1, BasesFacts DEF LastOf
<1>5. QED
  BY <1>1, <1>2, <1>3, <1>4 DEF ScanInv

\* Listing the places of the symbol in turn.
LEMMA ComputeScan ==
  ASSUME ScanInv, ComputeUncovered
  PROVE  ScanInv' /\ phase' # "exited"
<1> DEFINE ss == in.symbols
           a == at
<1>1. /\ in \in Inputs /\ in' = in /\ AllFit(ss) /\ phase = "compute" /\ a \in 1 .. Len(ss)
      /\ ranges = Record(ss, RunsOf(ss), "compute", a)
      /\ branches = Record(ss, WaysOf(ss), "compute", a)
      /\ lastId = IdBase(ss, a)
  BY InputsFit DEF ScanInv, ComputeUncovered, LastOf
<1>2. /\ ranges' = [ranges EXCEPT ![a] = Listed(ss[a], RunStarts(ss[a]), lastId)]
      /\ branches' = [branches EXCEPT ![a] = Listed(ss[a], OneWay(ss[a]), lastId)]
      /\ lastId' = lastId + IdsOf(ss[a])
      /\ IF a = Len(ss) THEN phase' = "source" /\ at' = 1 ELSE at' = a + 1 /\ phase' = phase
  BY DEF ComputeUncovered, Symbols, IdsOf
<1>3. /\ Listed(ss[a], RunStarts(ss[a]), lastId) = BareAt(ss, RunsOf(ss), a)
      /\ Listed(ss[a], OneWay(ss[a]), lastId) = BareAt(ss, WaysOf(ss), a)
  BY <1>1 DEF BareAt, RunsOf, WaysOf, AllFit
<1>4. lastId' = IdBase(ss, a + 1)
  BY <1>1, <1>2, BasesFacts
<1> HIDE DEF a
<1>5. /\ ranges' = IF a = Len(ss) THEN Record(ss, RunsOf(ss), "source", 1)
                                  ELSE Record(ss, RunsOf(ss), "compute", a + 1)
      /\ branches' = IF a = Len(ss) THEN Record(ss, WaysOf(ss), "source", 1)
                                    ELSE Record(ss, WaysOf(ss), "compute", a + 1)
  BY <1>1, <1>2, <1>3, RecordCompute
<1>6. Len(ss) \in Nat \ {0}
  BY <1>1 DEF AllFit
<1> HIDE DEF ss
<1>7. CASE a = Len(ss)
  <2>1. phase' = "source" /\ at' = 1 /\ at' \in 1 .. Len(ss)
    BY <1>2, <1>6, <1>7
  <2>2. lastId' = LastOf(ss, phase', at')
    BY <1>4, <1>7, <2>1 DEF LastOf
  <2>3. ranges' = Record(ss, RunsOf(ss), phase', at') /\ branches' = Record(ss, WaysOf(ss), phase', at')
    BY <1>5, <1>7, <2>1
  <2>4. QED
    BY <1>1, <2>1, <2>2, <2>3 DEF ScanInv, ss
<1>8. CASE a # Len(ss)
  <2>1. phase' = "compute" /\ at' = a + 1 /\ at' \in 1 .. Len(ss)
    BY <1>1, <1>2, <1>6, <1>8
  <2>2. lastId' = LastOf(ss, phase', at')
    BY <1>4, <2>1 DEF LastOf
  <2>3. ranges' = Record(ss, RunsOf(ss), phase', at') /\ branches' = Record(ss, WaysOf(ss), phase', at')
    BY <1>5, <1>8, <2>1
  <2>4. QED
    BY <1>1, <2>1, <2>2, <2>3 DEF ScanInv, ss
<1>9. QED
  BY <1>7, <1>8

\* Finding the lines of the symbol in turn.
LEMMA SourceScan ==
  ASSUME ScanInv, FindSourceForUncovered
  PROVE  ScanInv' /\ (phase' = "exited" => UNCHANGED << ranges, branches >>)
<1> DEFINE ss == in.symbols
           a == at
<1>1. /\ in \in Inputs /\ in' = in /\ AllFit(ss) /\ phase = "source" /\ a \in 1 .. Len(ss)
      /\ ranges = Record(ss, RunsOf(ss), "source", a)
      /\ branches = Record(ss, WaysOf(ss), "source", a)
      /\ lastId = IdBase(ss, Len(ss) + 1) /\ lastId' = lastId
  BY InputsFit DEF ScanInv, FindSourceForUncovered, LastOf
<1>2. PICK complete \in BOOLEAN : FindSource(complete)
  BY DEF FindSourceForUncovered
<1>3. CASE ~complete
  BY <1>1, <1>2, <1>3 DEF FindSource, ScanInv
<1>4. CASE complete
  <2>1. /\ ranges' = [ranges EXCEPT ![a] = Lined(ss[a], ranges[a])]
        /\ branches' = [branches EXCEPT ![a] = Lined(ss[a], branches[a])]
        /\ phase' = IF a = Len(ss) THEN "report" ELSE "source"
        /\ at' = IF a = Len(ss) THEN 1 ELSE a + 1
    BY <1>2, <1>4 DEF FindSource, Symbols
  <2>2. Len(ss) \in Nat \ {0} /\ Kind(ss, RunsOf(ss)) /\ Kind(ss, WaysOf(ss))
    BY <1>1, KindFacts DEF AllFit
  <2>3. ranges[a] = BareAt(ss, RunsOf(ss), a) /\ branches[a] = BareAt(ss, WaysOf(ss), a)
    BY <1>1, <2>2, RecordCases
  <2>4. Fit(ss[a]) /\ IdBase(ss, a) \in Nat
    BY <1>1, BasesFacts DEF AllFit
  <2>5. \A T : Kind(ss, T) => Lined(ss[a], BareAt(ss, T, a)) = FullAt(ss, T, a)
    BY <1>1, <2>4, LinedFacts DEF Kind, BareAt, FullAt
  <2> HIDE DEF a
  <2>6. /\ ranges' = [Record(ss, RunsOf(ss), "source", a) EXCEPT ![a] = FullAt(ss, RunsOf(ss), a)]
        /\ branches' = [Record(ss, WaysOf(ss), "source", a) EXCEPT ![a] = FullAt(ss, WaysOf(ss), a)]
    BY <1>1, <2>1, <2>2, <2>3, <2>5
  <2>7. /\ ranges' = IF a = Len(ss) THEN Record(ss, RunsOf(ss), "report", 1)
                                    ELSE Record(ss, RunsOf(ss), "source", a + 1)
        /\ branches' = IF a = Len(ss) THEN Record(ss, WaysOf(ss), "report", 1)
                                      ELSE Record(ss, WaysOf(ss), "source", a + 1)
    BY <1>1, <2>6, RecordSource
  <2> HIDE DEF ss
  <2>8. lastId' = LastOf(ss, phase', at')
    BY <1>1, <2>1 DEF LastOf
  <2>9. CASE a = Len(ss)
    <3>1. phase' = "report" /\ at' = 1
      BY <2>1, <2>9
    <3>2. ranges' = Record(ss, RunsOf(ss), phase', at') /\ branches' = Record(ss, WaysOf(ss), phase', at')
      BY <2>7, <2>9, <3>1
    <3>3. QED
      BY <1>1, <2>8, <3>1, <3>2 DEF ScanInv, ss
  <2>10. CASE a # Len(ss)
    <3>1. phase' = "source" /\ at' = a + 1 /\ at' \in 1 .. Len(ss)
      BY <1>1, <2>1, <2>2, <2>10
    <3>2. ranges' = Record(ss, RunsOf(ss), phase', at') /\ branches' = Record(ss, WaysOf(ss), phase', at')
      BY <2>7, <2>10, <3>1
    <3>3. QED
      BY <1>1, <2>8, <3>1, <3>2 DEF ScanInv, ss
  <2>11. QED
    BY <2>9, <2>10
<1>5. QED
  BY <1>3, <1>4

\* The other steps leave the record alone.
LEMMA ReadScan ==
  ASSUME ScanInv, ReadStep
  PROVE  ScanInv'
<1> DEFINE ss == in.symbols
<1>1. /\ in \in Inputs /\ in' = in /\ AllFit(ss) /\ phase = "explain"
      /\ \A T : Record(ss, T, "explain", at) = [i \in DOMAIN ss |-> << >>]
      /\ ranges' = [i \in DOMAIN ss |-> << >>] /\ branches' = [i \in DOMAIN ss |-> << >>]
      /\ lastId' = 0
  <2>1. /\ in \in Inputs /\ in' = in /\ AllFit(ss) /\ phase = "explain"
        /\ ranges' = Record(ss, RunsOf(ss), "explain", at)
        /\ branches' = Record(ss, WaysOf(ss), "explain", at)
        /\ lastId' = 0
    BY InputsFit DEF ScanInv, ReadStep, scanned, LastOf
  <2>2. QED
    BY <2>1, RecordNothing
<1>2. phase' \in {"explain", "compute", "exited"} /\ (phase' = "compute" => at' = 1)
  BY DEF ReadStep
<1>3. 1 \in 1 .. Len(ss)
  BY <1>1 DEF AllFit
<1>4. phase' # "exited" => \A T : Record(ss, T, phase', at') = [i \in DOMAIN ss |-> << >>]
  BY <1>1, <1>2, RecordNothing
<1>5. phase' # "exited" => LastOf(ss, phase', at') = 0
  BY <1>1, <1>2, BasesFacts DEF LastOf
<1> HIDE DEF ss
<1>6. QED
  BY <1>1, <1>2, <1>3, <1>4, <1>5 DEF ScanInv, ss

\* Writing a report records nothing more.
LEMMA ReportScan ==
  ASSUME ScanInv, ReportStep
  PROVE  ScanInv'
<1> DEFINE ss == in.symbols
<1>1. /\ in \in Inputs /\ in' = in /\ at' = at /\ phase = "report"
      /\ ranges' = ranges /\ branches' = branches /\ lastId' = lastId
      /\ ranges = Record(ss, RunsOf(ss), phase, at)
      /\ branches = Record(ss, WaysOf(ss), phase, at)
      /\ lastId = LastOf(ss, phase, at)
      /\ phase' \in {"report", "done", "crashed"}
  BY DEF ScanInv, ReportStep, reportInput, loading, scanned
<1>2. /\ \A T : Record(ss, T, phase', at) = Record(ss, T, phase, at)
      /\ LastOf(ss, phase', at) = LastOf(ss, phase, at)
  BY <1>1 DEF Record, LastOf
<1> HIDE DEF ss
<1>3. QED
  BY <1>1, <1>2 DEF ScanInv, ss
-----------------------------------------------------------------------------
(***************************************************************************)
(* Types.                                                                  *)
(***************************************************************************)
TypedRecord(ss, rs, bs, last) ==
  /\ last \in Nat
  /\ \A i \in DOMAIN ss : \A r \in ToSet(rs[i]) \cup ToSet(bs[i]) :
       r \in RangeRecord /\ r.id \in 1 .. last /\ r.low <= r.high

\* What is recorded at any time has its type.
LEMMA ScanTyped ==
  ASSUME NEW ss, AllFit(ss), NEW ph, NEW a, ph \in {"compute", "source"} => a \in 1 .. Len(ss)
  PROVE  TypedRecord(ss, Record(ss, RunsOf(ss), ph, a), Record(ss, WaysOf(ss), ph, a), LastOf(ss, ph, a))
<1>1. DOMAIN ss = 1 .. Len(ss) /\ Len(ss) \in Nat \ {0} /\ Kind(ss, RunsOf(ss)) /\ Kind(ss, WaysOf(ss))
  BY KindFacts DEF AllFit
<1>2. LastOf(ss, ph, a) \in Nat
  <2>1. Len(ss) + 1 \in 1 .. Len(ss) + 1 /\ \A x \in 1 .. Len(ss) : x \in 1 .. Len(ss) + 1
    BY <1>1
  <2>2. QED
    BY <2>1, BasesFacts DEF LastOf
<1>3. \A i \in 1 .. Len(ss) : \A r \in ToSet(Record(ss, RunsOf(ss), ph, a)[i]) :
        r \in RangeRecord /\ r.id \in 1 .. LastOf(ss, ph, a) /\ r.low <= r.high
  BY <1>1, RecordTyped
<1>4. \A i \in 1 .. Len(ss) : \A r \in ToSet(Record(ss, WaysOf(ss), ph, a)[i]) :
        r \in RangeRecord /\ r.id \in 1 .. LastOf(ss, ph, a) /\ r.low <= r.high
  BY <1>1, RecordTyped
<1>5. QED
  BY <1>1, <1>2, <1>3, <1>4 DEF TypedRecord

\* The types, said of the record as a whole.
LEMMA TypesOf ==
  TypeOK <=>
    /\ phase \in {"explain", "compute", "source", "report", "done", "exited", "crashed"}
    /\ expect \in {"start", "classification", "explanation"}
    /\ TypedRecord(in.symbols, ranges, branches, lastId)
    /\ found \subseteq DOMAIN explanations
    /\ job \in 1 .. Len(Jobs) + 1
    /\ lastState \in States \cup {"garbage"}
    /\ DOMAIN files = FileNames
    /\ missed \in BOOLEAN
BY DEF TypeOK, TypedRecord, Recorded, Symbols

\* The same of the next state.
LEMMA TypesOfNext ==
  TypeOK' <=>
    /\ phase' \in {"explain", "compute", "source", "report", "done", "exited", "crashed"}
    /\ expect' \in {"start", "classification", "explanation"}
    /\ TypedRecord(in'.symbols, ranges', branches', lastId')
    /\ found' \subseteq DOMAIN explanations'
    /\ job' \in 1 .. Len(Jobs) + 1
    /\ lastState' \in States \cup {"garbage"}
    /\ DOMAIN files' = FileNames
    /\ missed' \in BOOLEAN
BY DEF TypeOK, TypedRecord, Recorded, Symbols, Jobs, FileNames

TypeInv == TypeOK /\ ScanInv /\ IsFiniteSet(DOMAIN explanations)

\* The types at the start.
LEMMA InitTypes == ASSUME Init PROVE TypeInv
<1>1. ScanInv
  BY InitScan
<1>2. TypedRecord(in.symbols, ranges, branches, lastId)
  <2>1. AllFit(in.symbols) /\ phase \in {"explain", "compute"}
    BY InputsFit DEF Init
  <2>2. QED
    BY <1>1, <2>1, ScanTyped DEF ScanInv
<1>3. IsFiniteSet(DOMAIN explanations) /\ DOMAIN explanations = {}
  BY FS_EmptySet DEF Init
<1>4. /\ phase \in {"explain", "compute"} /\ expect = "start" /\ found = {} /\ job = 1
      /\ lastState \in States \cup {"garbage"} /\ DOMAIN files = FileNames /\ missed = FALSE
  BY DEF Init
<1>5. 1 \in 1 .. Len(Jobs) + 1
  BY DEF Jobs
<1>6. TypeOK
  BY <1>2, <1>3, <1>4, <1>5, TypesOf
<1>7. QED
  BY <1>1, <1>3, <1>6 DEF TypeInv

\* Every step but stuttering is of one of four kinds.
LEMMA NextKinds ==
  ASSUME TypeInv, Next
  PROVE  ReadStep \/ ComputeUncovered \/ FindSourceForUncovered \/ ReportStep
<1>1. expect \in {"start", "classification", "explanation"} /\ ScanInv
  BY DEF TypeInv, TypeOK
<1>2. QED
  BY <1>1, ReadSteps, ReportSteps DEF Next

\* Whatever the step, the recorded ranges and branches stay what the scan makes them.
LEMMA NextScan == ASSUME TypeInv, [Next]_vars PROVE ScanInv'
<1>1. ScanInv
  BY DEF TypeInv
<1>2. CASE UNCHANGED vars
  BY <1>1, <1>2 DEF vars, ScanInv
<1>3. CASE ReadStep
  BY <1>1, <1>3, ReadScan
<1>4. CASE ComputeUncovered
  BY <1>1, <1>4, ComputeScan
<1>5. CASE FindSourceForUncovered
  BY <1>1, <1>5, SourceScan
<1>6. CASE ReportStep
  BY <1>1, <1>6, ReportScan
<1>7. QED
  BY <1>2, <1>3, <1>4, <1>5, <1>6, NextKinds

\* ... and every type is kept.
LEMMA NextTypes == ASSUME TypeInv, [Next]_vars PROVE TypeInv'
<1>1. ScanInv'
  BY NextScan
<1>2. /\ phase \in {"explain", "compute", "source", "report", "done", "exited", "crashed"}
      /\ expect \in {"start", "classification", "explanation"}
      /\ TypedRecord(in.symbols, ranges, branches, lastId)
      /\ found \subseteq DOMAIN explanations
      /\ job \in 1 .. Len(Jobs) + 1
      /\ lastState \in States \cup {"garbage"}
      /\ DOMAIN files = FileNames
      /\ missed \in BOOLEAN
      /\ ScanInv /\ IsFiniteSet(DOMAIN explanations)
  BY TypesOf DEF TypeInv
<1>3. phase' # "exited" => TypedRecord(in'.symbols, ranges', branches', lastId')
  <2>1. SUFFICES ASSUME phase' # "exited" PROVE TypedRecord(in'.symbols, ranges', branches', lastId')
    OBVIOUS
  <2>2. /\ in' \in Inputs
        /\ phase' \in {"compute", "source"} => at' \in 1 .. Len(in'.symbols)
        /\ ranges' = Record(in'.symbols, RunsOf(in'.symbols), phase', at')
        /\ branches' = Record(in'.symbols, WaysOf(in'.symbols), phase', at')
        /\ lastId' = LastOf(in'.symbols, phase', at')
    BY <1>1, <2>1 DEF ScanInv
  <2>3. AllFit(in'.symbols)
    BY <2>2, InputAssumption DEF AllFit, Fit
  <2>4. QED
    BY <2>2, <2>3, ScanTyped
<1>4. CASE UNCHANGED vars
  <2>1. TypedRecord(in'.symbols, ranges', branches', lastId')
    BY <1>2, <1>4 DEF vars
  <2>2. QED
    BY <1>1, <1>2, <1>4, <2>1, TypesOfNext DEF vars, TypeInv
<1>5. CASE ReadStep
  <2>1. TypedRecord(in'.symbols, ranges', branches', lastId')
    BY <1>2, <1>5 DEF ReadStep, scanned
  <2>2. QED
    BY <1>1, <1>2, <1>5, <2>1, TypesOfNext DEF ReadStep, scanned, written, TypeInv
<1>6. CASE ComputeUncovered
  <2>1. /\ phase' \in {"compute", "source"}
        /\ UNCHANGED << in, expect, entry, explanations, found, job, lastState, written >>
    BY <1>6 DEF ComputeUncovered
  <2>2. QED
    BY <1>1, <1>2, <1>3, <2>1, TypesOfNext DEF written, TypeInv
<1>7. CASE FindSourceForUncovered
  <2>1. /\ phase' \in {"source", "report", "exited"}
        /\ phase' = "exited" => UNCHANGED << ranges, branches >>
        /\ UNCHANGED << in, expect, entry, explanations, found, lastId, job, lastState, written >>
    <3>1. /\ UNCHANGED << in, expect, entry, explanations, found, lastId, job, lastState, written >>
          /\ phase = "source"
      BY <1>7 DEF FindSourceForUncovered
    <3>2. PICK complete \in BOOLEAN : FindSource(complete)
      BY <1>7 DEF FindSourceForUncovered
    <3>3. phase' \in {"source", "report", "exited"} /\ (phase' = "exited" => UNCHANGED << ranges, branches >>)
      BY <3>1, <3>2 DEF FindSource
    <3>4. QED
      BY <3>1, <3>3
  <2>2. TypedRecord(in'.symbols, ranges', branches', lastId')
    BY <1>2, <1>3, <2>1
  <2>3. QED
    BY <1>1, <1>2, <2>1, <2>2, TypesOfNext DEF written, TypeInv
<1>8. CASE ReportStep
  <2>1. /\ phase' \in {"report", "done", "crashed"}
        /\ UNCHANGED << in, at, expect, entry, explanations, lastId, ranges, branches >>
        /\ job' \in 1 .. Len(Jobs) + 1
        /\ found' \subseteq found \cup DOMAIN explanations
        /\ lastState' \in {lastState} \cup States
        /\ DOMAIN files' = DOMAIN files
        /\ missed' \in {missed, TRUE}
    BY <1>2, <1>8 DEF ReportStep, reportInput, loading, scanned
  <2>2. TypedRecord(in'.symbols, ranges', branches', lastId')
    BY <1>2, <2>1
  <2>3. QED
    BY <1>1, <1>2, <2>1, <2>2, TypesOfNext DEF TypeInv
<1>9. QED
  BY <1>4, <1>5, <1>6, <1>7, <1>8, NextKinds

(***************************************************************************)
(* Type correctness, for every program, coverage and explanations: numbers *)
(* in use never exceed the last one given, no range ends before it starts, *)
(* and only explanations that were loaded are found.                       *)
(***************************************************************************)
THEOREM ReportsTypeCorrect == Spec => []TypeOK
<1>1. TypeInv => TypeOK
  BY DEF TypeInv
<1>2. Init => TypeInv
  BY InitTypes
<1>3. TypeInv /\ [Next]_vars => TypeInv'
  BY NextTypes
<1>4. QED
  BY <1>1, <1>2, <1>3, PTL DEF Spec
-----------------------------------------------------------------------------
(***************************************************************************)
(* The places recorded of one symbol, once they have their lines.          *)
(***************************************************************************)
Place1(ss, i, b) == Full(ss[i], b, IdBase(ss, i))

\* The list of one symbol, element by element.
LEMMA RecsFacts ==
  ASSUME NEW ss, AllFit(ss), NEW T, Kind(ss, T), NEW i \in 1 .. Len(ss)
  PROVE  /\ i \in DOMAIN ss /\ Fit(ss[i]) /\ T[i] \subseteq Starts(ss[i]) /\ IdBase(ss, i) \in Nat
         /\ Cardinality(T[i]) \in Nat
         /\ Recs(ss, T)[i] \in Seq(RangeRecord)
         /\ Len(Recs(ss, T)[i]) = Cardinality(T[i])
         /\ DOMAIN Recs(ss, T)[i] = 1 .. Cardinality(T[i])
         /\ \A j \in 1 .. Cardinality(T[i]) : /\ Ranked(T[i], j) \in T[i]
                                              /\ Recs(ss, T)[i][j] = Place1(ss, i, Ranked(T[i], j))
         /\ \A b \in T[i] : \E j \in 1 .. Cardinality(T[i]) : Ranked(T[i], j) = b
<1> DEFINE s == ss[i]
           base == IdBase(ss, i)
<1>1. i \in DOMAIN ss /\ Fit(s) /\ T[i] \subseteq Starts(s) /\ base \in Nat
  BY BasesFacts DEF AllFit, Kind
<1>2. Recs(ss, T)[i] = FullList(s, T[i], base)
  BY <1>1 DEF Recs, FullAt
<1>3. /\ Cardinality(T[i]) \in Nat
      /\ FullList(s, T[i], base) \in Seq(RangeRecord)
      /\ Len(FullList(s, T[i], base)) = Cardinality(T[i])
      /\ DOMAIN FullList(s, T[i], base) = 1 .. Cardinality(T[i])
      /\ \A j \in 1 .. Cardinality(T[i]) :
           /\ Ranked(T[i], j) \in T[i]
           /\ FullList(s, T[i], base)[j] = Full(s, Ranked(T[i], j), base)
      /\ \A b \in T[i] : \E j \in 1 .. Cardinality(T[i]) : Ranked(T[i], j) = b
  BY <1>1, ListFacts
<1>4. QED
  BY <1>1, <1>2, <1>3 DEF Place1

\* Every record of a symbol is that of one of its places.
LEMMA RecordedFacts ==
  ASSUME Reporting, NEW i \in 1 .. Len(Symbols), NEW r \in Recorded(i)
  PROVE  \E b \in Starts(Symbols[i]) : r = Place1(Symbols, i, b)
<1> DEFINE ss == Symbols
<1>1. AllFit(ss) /\ ranges = Recs(ss, RunsOf(ss)) /\ branches = Recs(ss, WaysOf(ss))
  BY DEF Reporting
<1>2. Kind(ss, RunsOf(ss)) /\ Kind(ss, WaysOf(ss))
  BY <1>1, KindFacts
<1>3. ASSUME NEW T, Kind(ss, T), r \in ToSet(Recs(ss, T)[i])
      PROVE  \E b \in Starts(ss[i]) : r = Place1(ss, i, b)
  <2>1. PICK j \in DOMAIN Recs(ss, T)[i] : r = Recs(ss, T)[i][j]
    BY <1>3 DEF ToSet
  <2>2. j \in 1 .. Cardinality(T[i]) /\ T[i] \subseteq Starts(ss[i])
    BY <1>1, <1>3, <2>1, RecsFacts
  <2>3. Ranked(T[i], j) \in T[i] /\ r = Place1(ss, i, Ranked(T[i], j))
    BY <1>1, <1>3, <2>1, <2>2, RecsFacts
  <2>4. QED
    BY <2>2, <2>3
<1>4. QED
  BY <1>1, <1>2, <1>3 DEF Recorded

\* In a report each place has the lines of the instructions at its ends.
LEMMA SourceIsExact == ASSUME TypeInv PROVE SourceExact
<1> SUFFICES ASSUME phase \in {"report", "done"}, NEW i \in DOMAIN Symbols, NEW r \in Recorded(i)
             PROVE  /\ r.lowLine = InsnAt(Symbols[i], r.low - Symbols[i].base).source
                    /\ r.highLine = InsnAt(Symbols[i], r.high - Symbols[i].base).source
  BY DEF SourceExact
<1> DEFINE s == Symbols[i]
<1>1. Reporting /\ AllFit(Symbols) /\ i \in 1 .. Len(Symbols)
  BY NowReporting DEF TypeInv, Reporting, AllFit
<1>2. PICK b \in Starts(s) : r = Place1(Symbols, i, b)
  BY <1>1, RecordedFacts
<1>3. Fit(s) /\ IdBase(Symbols, i) \in Nat
  BY <1>1, BasesFacts DEF AllFit
<1>4. s.base \in Nat /\ b \in Nat /\ End(s, b) \in Nat
  BY <1>3, SymbolFacts, EndFacts
<1>5. /\ r.low = s.base + b /\ r.high = s.base + End(s, b)
      /\ r.lowLine = InsnAt(s, b).source /\ r.highLine = InsnAt(s, End(s, b)).source
  BY <1>2, <1>3, FullFacts DEF Place1
<1> HIDE DEF s
<1>6. r.low - s.base = b /\ r.high - s.base = End(s, b)
  BY <1>4, <1>5
<1>7. QED
  BY <1>5, <1>6 DEF s

(***************************************************************************)
(* SourceExact, for every program, load address and answer of addr2line:   *)
(* what the reports call the line of a place is the line of the            *)
(* instruction that is there.                                              *)
(***************************************************************************)
THEOREM LinesExact == Spec => []SourceExact
<1>1. TypeInv => SourceExact
  BY SourceIsExact
<1>2. Init => TypeInv
  BY InitTypes
<1>3. TypeInv /\ [Next]_vars => TypeInv'
  BY NextTypes
<1>4. QED
  BY <1>1, <1>2, <1>3, PTL DEF Spec
-----------------------------------------------------------------------------
(***************************************************************************)
(* The list of places a report goes through.                               *)
(***************************************************************************)
Spot(ss, i, b) == [symbol |-> ss[i], range |-> Place1(ss, i, b)]
SpotLists(ss, T) ==
  [i \in DOMAIN ss |->
     [k \in DOMAIN Recs(ss, T)[i] |-> [symbol |-> ss[i], range |-> Recs(ss, T)[i][k]]]]

\* It lists every place of one kind once, by symbols and then by rank.
LEMMA SpotFacts ==
  ASSUME NEW ss, AllFit(ss), NEW T, Kind(ss, T)
  PROVE  LET n == Len(ss)
             P == FlattenSeq(SpotLists(ss, T))
             len == Sizes(T)
         IN  /\ Sized(n, len) /\ Len(P) = Before(len, n + 1) /\ Len(P) \in Nat
             /\ DOMAIN P = 1 .. Len(P)
             /\ \A i \in 1 .. n : \A j \in 1 .. Cardinality(T[i]) :
                  At(len, i, j) \in 1 .. Len(P) /\ P[At(len, i, j)] = Spot(ss, i, Ranked(T[i], j))
             /\ \A k \in 1 .. Len(P) :
                  \E i \in 1 .. n : \E j \in 1 .. Cardinality(T[i]) : k = At(len, i, j)
<1> DEFINE n == Len(ss)
           L == SpotLists(ss, T)
           V == UNION {{Spot(ss, i, b) : b \in T[i]} : i \in 1 .. n}
           len == Sizes(T)
<1>1. n \in Nat \ {0} /\ DOMAIN ss = 1 .. n
  BY DEF AllFit
<1>2. ASSUME NEW i \in 1 .. n
      PROVE  /\ L[i] \in Seq(V) /\ Len(L[i]) = Cardinality(T[i]) /\ Cardinality(T[i]) \in Nat
             /\ \A j \in 1 .. Cardinality(T[i]) : L[i][j] = Spot(ss, i, Ranked(T[i], j))
  <2> DEFINE m == Cardinality(T[i])
             F == [j \in 1 .. m |-> Spot(ss, i, Ranked(T[i], j))]
  <2>1. /\ DOMAIN Recs(ss, T)[i] = 1 .. m /\ m \in Nat
        /\ \A j \in 1 .. m : Ranked(T[i], j) \in T[i]
                             /\ Recs(ss, T)[i][j] = Place1(ss, i, Ranked(T[i], j))
    <3> HIDE DEF n
    <3>1. i \in 1 .. Len(ss)
      BY DEF n
    <3>2. QED
      BY <3>1, RecsFacts
  <2>2. L[i] = [k \in DOMAIN Recs(ss, T)[i] |-> [symbol |-> ss[i], range |-> Recs(ss, T)[i][k]]]
    BY <1>1 DEF SpotLists
  <2>3. L[i] = F
    BY <2>1, <2>2 DEF Spot
  <2>4. \A j \in 1 .. m : Spot(ss, i, Ranked(T[i], j)) \in V
    BY <2>1
  <2> HIDE DEF V, m, L
  <2>5. F \in [1 .. m -> V]
    BY <2>4
  <2> HIDE DEF F
  <2>6. F \in Seq(V)
    BY <2>1, <2>5
  <2>7. Len(F) = m
    BY <2>1, <2>5, <2>6
  <2>8. QED
    BY <2>1, <2>3, <2>6, <2>7 DEF F, m
<1>3. Lists(n, L, V)
  <2>1. L = [i \in 1 .. n |-> L[i]]
    BY <1>1 DEF SpotLists
  <2> HIDE DEF L, V
  <2>2. QED
    BY <1>1, <1>2, <2>1 DEF Lists
<1>4. Lens(L) = len
  <2>1. DOMAIN L = 1 .. n /\ DOMAIN T = 1 .. n
    BY <1>1 DEF SpotLists, Kind
  <2> HIDE DEF L
  <2>2. QED
    BY <1>2, <2>1 DEF Lens, Sizes
<1> HIDE DEF L, V, n
<1>5. LET F == FlattenSeq(L)
      IN  /\ Len(F) = Before(Lens(L), n + 1) /\ Len(F) \in Nat /\ DOMAIN F = 1 .. Len(F)
          /\ \A i \in 1 .. n : \A j \in 1 .. Len(L[i]) :
               At(Lens(L), i, j) \in 1 .. Len(F) /\ F[At(Lens(L), i, j)] = L[i][j]
          /\ \A k \in 1 .. Len(F) :
               \E i \in 1 .. n : \E j \in 1 .. Len(L[i]) : k = At(Lens(L), i, j)
  BY <1>3, FlattenFacts
<1>6. Sized(n, Lens(L))
  BY <1>3, ListsFacts
<1> DEFINE P == FlattenSeq(L)
<1>7. /\ Len(P) = Before(len, n + 1) /\ Len(P) \in Nat /\ DOMAIN P = 1 .. Len(P)
      /\ \A k \in 1 .. Len(P) : \E i \in 1 .. n : \E j \in 1 .. Len(L[i]) : k = At(len, i, j)
      /\ \A i \in 1 .. n : \A j \in 1 .. Len(L[i]) :
           At(len, i, j) \in 1 .. Len(P) /\ P[At(len, i, j)] = L[i][j]
  BY <1>4, <1>5
<1> HIDE DEF P, len
<1>8. /\ \A i \in 1 .. n : \A j \in 1 .. Cardinality(T[i]) :
           At(len, i, j) \in 1 .. Len(P) /\ P[At(len, i, j)] = Spot(ss, i, Ranked(T[i], j))
      /\ \A k \in 1 .. Len(P) :
           \E i \in 1 .. n : \E j \in 1 .. Cardinality(T[i]) : k = At(len, i, j)
  <2>1. \A i \in 1 .. n : 1 .. Len(L[i]) = 1 .. Cardinality(T[i])
    BY <1>2
  <2>2. ASSUME NEW i \in 1 .. n, NEW j \in 1 .. Cardinality(T[i])
        PROVE  At(len, i, j) \in 1 .. Len(P) /\ P[At(len, i, j)] = Spot(ss, i, Ranked(T[i], j))
    <3>1. j \in 1 .. Len(L[i])
      BY <2>1
    <3>2. At(len, i, j) \in 1 .. Len(P) /\ P[At(len, i, j)] = L[i][j]
      BY <1>7, <3>1
    <3>3. L[i][j] = Spot(ss, i, Ranked(T[i], j))
      BY <1>2
    <3>4. QED
      BY <3>2, <3>3
  <2>3. \A k \in 1 .. Len(P) : \E i \in 1 .. n : \E j \in 1 .. Cardinality(T[i]) : k = At(len, i, j)
    BY <1>7, <2>1
  <2>4. QED
    BY <2>2, <2>3
<1>9. Sized(n, len)
  BY <1>4, <1>6
<1>10. QED
  BY <1>7, <1>8, <1>9 DEF L, P, n, len

\* As a set, it is every place of that kind.
LEMMA SpotSet ==
  ASSUME NEW ss, AllFit(ss), NEW T, Kind(ss, T)
  PROVE  /\ \A p \in ToSet(FlattenSeq(SpotLists(ss, T))) :
              \E i \in 1 .. Len(ss) : \E b \in T[i] : p = Spot(ss, i, b)
         /\ \A i \in 1 .. Len(ss) : \A b \in T[i] : Spot(ss, i, b) \in ToSet(FlattenSeq(SpotLists(ss, T)))
<1> DEFINE n == Len(ss)
           P == FlattenSeq(SpotLists(ss, T))
           len == Sizes(T)
<1>1. /\ DOMAIN P = 1 .. Len(P)
      /\ \A i \in 1 .. n : \A j \in 1 .. Cardinality(T[i]) :
           At(len, i, j) \in 1 .. Len(P) /\ P[At(len, i, j)] = Spot(ss, i, Ranked(T[i], j))
      /\ \A k \in 1 .. Len(P) :
           \E i \in 1 .. n : \E j \in 1 .. Cardinality(T[i]) : k = At(len, i, j)
  BY SpotFacts
<1>2. ToSet(P) = {P[k] : k \in DOMAIN P}
  BY DEF ToSet
<1>3. \A i \in 1 .. n : /\ \A j \in 1 .. Cardinality(T[i]) : Ranked(T[i], j) \in T[i]
                        /\ \A b \in T[i] : \E j \in 1 .. Cardinality(T[i]) : Ranked(T[i], j) = b
  BY RecsFacts
<1> HIDE DEF P, len
<1>4. ASSUME NEW p \in ToSet(P) PROVE \E i \in 1 .. n : \E b \in T[i] : p = Spot(ss, i, b)
  <2>1. PICK k \in 1 .. Len(P) : p = P[k]
    BY <1>1, <1>2
  <2>2. PICK i \in 1 .. n : \E j \in 1 .. Cardinality(T[i]) : k = At(len, i, j)
    BY <1>1
  <2>3. PICK j \in 1 .. Cardinality(T[i]) : k = At(len, i, j)
    BY <2>2
  <2>4. p = Spot(ss, i, Ranked(T[i], j)) /\ Ranked(T[i], j) \in T[i]
    BY <1>1, <1>3, <2>1, <2>3
  <2>5. QED
    BY <2>4
<1>5. ASSUME NEW i \in 1 .. n, NEW b \in T[i] PROVE Spot(ss, i, b) \in ToSet(P)
  <2>1. PICK j \in 1 .. Cardinality(T[i]) : Ranked(T[i], j) = b
    BY <1>3
  <2>2. P[At(len, i, j)] = Spot(ss, i, b) /\ At(len, i, j) \in DOMAIN P
    BY <1>1, <2>1
  <2>3. QED
    BY <1>2, <2>2
<1>6. QED
  BY <1>4, <1>5 DEF P

\* Which list it is while reports are written.
LEMMA PlacesFacts ==
  ASSUME Reporting
  PROVE  /\ AllFit(Symbols) /\ Kind(Symbols, RunsOf(Symbols)) /\ Kind(Symbols, WaysOf(Symbols))
         /\ Places(ranges) = FlattenSeq(SpotLists(Symbols, RunsOf(Symbols)))
         /\ Places(branches) = FlattenSeq(SpotLists(Symbols, WaysOf(Symbols)))
<1>1. /\ AllFit(Symbols) /\ ranges = Recs(Symbols, RunsOf(Symbols))
      /\ branches = Recs(Symbols, WaysOf(Symbols))
  BY DEF Reporting
<1>2. \A of : Places(of) = FlattenSeq([i \in DOMAIN Symbols |->
                [k \in DOMAIN of[i] |-> [symbol |-> Symbols[i], range |-> of[i][k]]]])
  BY DEF Places
<1>3. QED
  BY <1>1, <1>2, KindFacts DEF SpotLists

\* The lines asked for are those of the places.
LEMMA LinesFacts ==
  ASSUME AllFit(Symbols), NEW T, Kind(Symbols, T)
  PROVE  {p.range.lowLine : p \in ToSet(FlattenSeq(SpotLists(Symbols, T)))}
           = LinesOf(Recs(Symbols, T))
<1> DEFINE ss == Symbols
           P == FlattenSeq(SpotLists(ss, T))
           A == {p.range.lowLine : p \in ToSet(P)}
           B == LinesOf(Recs(ss, T))
<1>1. DOMAIN ss = 1 .. Len(ss)
  BY DEF AllFit
<1>2. /\ \A p \in ToSet(P) : \E i \in 1 .. Len(ss) : \E b \in T[i] : p = Spot(ss, i, b)
      /\ \A i \in 1 .. Len(ss) : \A b \in T[i] : Spot(ss, i, b) \in ToSet(P)
  BY SpotSet
<1>3. B = UNION {{r.lowLine : r \in ToSet(Recs(ss, T)[i])} : i \in 1 .. Len(ss)}
  BY <1>1 DEF LinesOf
<1>4. \A i \in 1 .. Len(ss) : \A r : r \in ToSet(Recs(ss, T)[i]) <=> \E b \in T[i] : r = Place1(ss, i, b)
  <2>1. ASSUME NEW i \in 1 .. Len(ss), NEW r, r \in ToSet(Recs(ss, T)[i])
        PROVE  \E b \in T[i] : r = Place1(ss, i, b)
    <3>1. PICK j \in DOMAIN Recs(ss, T)[i] : r = Recs(ss, T)[i][j]
      BY <2>1 DEF ToSet
    <3>2. j \in 1 .. Cardinality(T[i])
      BY <3>1, RecsFacts
    <3>3. Ranked(T[i], j) \in T[i] /\ r = Place1(ss, i, Ranked(T[i], j))
      BY <3>1, <3>2, RecsFacts
    <3>4. QED
      BY <3>3
  <2>2. ASSUME NEW i \in 1 .. Len(ss), NEW b \in T[i]
        PROVE  Place1(ss, i, b) \in ToSet(Recs(ss, T)[i])
    <3>1. PICK j \in 1 .. Cardinality(T[i]) : Ranked(T[i], j) = b
      BY RecsFacts
    <3>2. Recs(ss, T)[i][j] = Place1(ss, i, b) /\ j \in DOMAIN Recs(ss, T)[i]
      BY <3>1, RecsFacts
    <3>3. QED
      BY <3>2 DEF ToSet
  <2>3. QED
    BY <2>1, <2>2
<1>5. \A i, b : Spot(ss, i, b).range = Place1(ss, i, b)
  BY DEF Spot
<1> HIDE DEF P, B, ss
<1>6. A \subseteq B
  <2>1. ASSUME NEW p \in ToSet(P) PROVE p.range.lowLine \in B
    <3>1. PICK i \in 1 .. Len(ss) : \E b \in T[i] : p = Spot(ss, i, b)
      BY <1>2
    <3>2. PICK b \in T[i] : p = Spot(ss, i, b)
      BY <3>1
    <3>3. Place1(ss, i, b) \in ToSet(Recs(ss, T)[i]) /\ p.range = Place1(ss, i, b)
      BY <1>4, <1>5, <3>2
    <3>4. QED
      BY <1>3, <3>3
  <2>2. QED
    BY <2>1
<1>7. B \subseteq A
  <2>1. ASSUME NEW i \in 1 .. Len(ss), NEW r \in ToSet(Recs(ss, T)[i]) PROVE r.lowLine \in A
    <3>1. PICK b \in T[i] : r = Place1(ss, i, b)
      BY <1>4
    <3>2. Spot(ss, i, b) \in ToSet(P) /\ Spot(ss, i, b).range = r
      BY <1>2, <1>5, <3>1
    <3>3. QED
      BY <3>2
  <2> HIDE DEF A
  <2>2. QED
    BY <1>3, <2>1
<1>8. QED
  BY <1>6, <1>7 DEF P, B, ss
-----------------------------------------------------------------------------
(***************************************************************************)
(* Which explanations were found.                                          *)
(***************************************************************************)
\* A finite set listed as a sequence and back.
LEMMA ListedSet == ASSUME NEW S, IsFiniteSet(S) PROVE ToSet(SetToSeq(S)) = S
<1> DEFINE n == Cardinality(S)
           f == SetToSeq(S)
           Good(g) == IsInjective(g)
<1>1. n \in Nat /\ ExistsBijection(1 .. n, S)
  BY FS_CardinalityType
<1>2. PICK g \in Bijection(1 .. n, S) : TRUE
  BY <1>1 DEF ExistsBijection
<1>3. g \in [1 .. n -> S] /\ Good(g)
  BY <1>2 DEF Bijection, Injection, IsInjective
<1>4. f = CHOOSE h \in [1 .. n -> S] : Good(h)
  BY DEF SetToSeq
<1> HIDE DEF Good, f
<1>5. f \in [1 .. n -> S] /\ Good(f)
  BY <1>3, <1>4
<1>6. f \in Injection(1 .. n, S)
  BY <1>5 DEF Good, Injection, IsInjective
<1>7. IsFiniteSet(1 .. n) /\ Cardinality(1 .. n) = n
  BY <1>1, FS_Interval
<1>8. f \in Surjection(1 .. n, S)
  BY <1>6, <1>7, FS_Injection
<1>9. DOMAIN f = 1 .. n /\ S = {f[k] : k \in 1 .. n}
  BY <1>8 DEF Surjection
<1>10. QED
  BY <1>9 DEF ToSet, f

\* What looking up a list of places finds.
LEMMA LookUpFinds ==
  ASSUME NEW P, LookUp(P)
  PROVE  found' = found \cup ({p.range.lowLine : p \in ToSet(P)} \cap DOMAIN explanations)
BY DEF LookUp, ExplainedIn, HasExplanation

\* Looking up every range finds the explanations at their lines.
LEMMA RangesLookedUp ==
  ASSUME Reporting, LookUp(Places(ranges))
  PROVE  found' = found \cup (LinesOf(ranges) \cap DOMAIN explanations)
<1>1. /\ AllFit(Symbols) /\ Kind(Symbols, RunsOf(Symbols))
      /\ Places(ranges) = FlattenSeq(SpotLists(Symbols, RunsOf(Symbols)))
      /\ ranges = Recs(Symbols, RunsOf(Symbols))
  BY PlacesFacts DEF Reporting
<1>2. {p.range.lowLine : p \in ToSet(Places(ranges))} = LinesOf(ranges)
  BY <1>1, LinesFacts
<1>3. QED
  BY <1>2, LookUpFinds

\* Looking up every branch does so if branches are reported.
LEMMA BranchesLookedUp ==
  ASSUME Reporting, LookUp(BranchPlaces)
  PROVE  found' = found \cup ((IF HasBranches THEN LinesOf(branches) ELSE {}) \cap DOMAIN explanations)
<1>1. /\ AllFit(Symbols) /\ Kind(Symbols, WaysOf(Symbols))
      /\ Places(branches) = FlattenSeq(SpotLists(Symbols, WaysOf(Symbols)))
      /\ branches = Recs(Symbols, WaysOf(Symbols))
  BY PlacesFacts DEF Reporting
<1>2. {p.range.lowLine : p \in ToSet(Places(branches))} = LinesOf(branches)
  BY <1>1, LinesFacts
<1>3. ToSet(<< >>) = {}
  BY DEF ToSet
<1>4. CASE HasBranches
  <2>1. BranchPlaces = Places(branches)
    BY <1>4 DEF BranchPlaces
  <2>2. QED
    BY <1>2, <1>4, <2>1, LookUpFinds
<1>5. CASE ~HasBranches
  <2>1. BranchPlaces = << >>
    BY <1>5 DEF BranchPlaces
  <2>2. {p.range.lowLine : p \in ToSet(BranchPlaces)} = {}
    BY <1>3, <2>1
  <2>3. QED
    BY <1>5, <2>2, LookUpFinds
<1>6. QED
  BY <1>4, <1>5

BranchLines == IF HasBranches THEN LinesOf(branches) ELSE {}

\* What the reports go through stays as it is while they are written.
LEMMA SteadyLines ==
  ASSUME UNCHANGED << in, explanations, ranges, branches >>
  PROVE  LinesOf(ranges)' = LinesOf(ranges) /\ BranchLines' = BranchLines /\ AskedFor' = AskedFor
BY DEF LinesOf, BranchLines, AskedFor, HasBranches, NumberBranchesFound, Symbols, Referenced

FoundInv ==
  /\ phase \in {"explain", "compute", "source"} => found = {} /\ job = 1
  /\ phase # "done" => files[NotFoundFile] = Absent
  /\ phase = "report" =>
       /\ found \subseteq AskedFor
       /\ job > 9 => BranchLines \cap DOMAIN explanations \subseteq found
       /\ job > 10 => LinesOf(ranges) \cap DOMAIN explanations \subseteq found
  /\ NotFoundExact

\* A report that is written, or skipped.
FoundStep ==
  /\ phase' \in {"report", "crashed"}
  /\ UNCHANGED << in, explanations, ranges, branches >>
  /\ files'[NotFoundFile] = files[NotFoundFile]
  /\ found \subseteq found' /\ found' \subseteq found \cup AskedFor
  /\ phase' = "report" =>
       /\ job' \in {job, job + 1}
       /\ (job = 9 /\ job' # job) => BranchLines \cap DOMAIN explanations \subseteq found'
       /\ (job = 10 /\ job' # job) => LinesOf(ranges) \cap DOMAIN explanations \subseteq found'

\* The order in which the reports are written.
LEMMA JobNumbers ==
  ASSUME TypeOK, NEW name, Turn(name)
  PROVE  job \in 1 .. 13 /\ Jobs[job] = name
BY DEF TypeOK, Turn, Jobs

\* Which file is whose turn.
LEMMA JobNames ==
  ASSUME TypeOK, job <= Len(Jobs)
  PROVE  /\ Jobs[job] = "branch.html" <=> job = 9
         /\ Jobs[job] = "uncovered.html" <=> job = 10
         /\ job \in {9, 10} => Jobs[job] \notin TextFiles
BY DEF TypeOK, Jobs, TextFiles

\* A file beside two or three that are written.
LEMMA BesideTwo ==
  ASSUME NEW f, NEW a, NEW x, NEW b, NEW y, NEW c, c \in DOMAIN f, c # a, c # b
  PROVE  [f EXCEPT ![a] = x, ![b] = y][c] = f[c]
OBVIOUS

\* Three files written at once leave the others alone.
LEMMA BesideThree ==
  ASSUME NEW f, NEW a, NEW x, NEW b, NEW y, NEW c, c \in DOMAIN f, c # a, c # b, NEW d, c # d, NEW z
  PROVE  [f EXCEPT ![a] = x, ![b] = y, ![d] = z][c] = f[c]
OBVIOUS

\* The list of explanations not found is one of the files.
LEMMA NotFoundIsFile == NotFoundFile \in FileNames
BY DEF FileNames, NotFoundFile

CoverageTxt == Table(<< >>, [k \in DOMAIN Entries |-> TextCoverageLine(Entries[k])])
NoRangeTxt  == Table(<< >>, [k \in DOMAIN NoRangeNames |-> TextNoRange(NoRangeNames[k])])
CoverageHtml == Table(CoverageColumns, [k \in DOMAIN Entries |-> HtmlCoverageLine(Entries[k])])
NoRangeHtml  == Table(NoRangeColumns, [k \in DOMAIN NoRangeNames |-> << NoRangeNames[k] >>])

\* What writing the coverage report as text writes.
LEMMA TextCoverageFiles ==
  ASSUME WriteTextCoverage
  PROVE  files' = [files EXCEPT !["uncovered.txt"] = CoverageTxt, !["no_range_uncovered.txt"] = NoRangeTxt]
BY DEF WriteTextCoverage, CoverageTxt, NoRangeTxt

\* ... and as HTML.
LEMMA HtmlCoverageFiles ==
  ASSUME WriteHtmlCoverage
  PROVE  files' = [files EXCEPT !["uncovered.html"] = CoverageHtml, !["no_range_uncovered.html"] = NoRangeHtml,
                                !["NotReferenced.html"] = IF Unreferenced = {} THEN @ ELSE Table(<< >>, << >>)]
BY DEF WriteHtmlCoverage, CoverageHtml, NoRangeHtml

\* A step that looks nothing up.
LEMMA NothingFound ==
  ASSUME TypeOK, NEW name, Turn(name), name \notin {"branch.html", "uncovered.html"},
         JobDone, UNCHANGED << reportInput, phase, found >>,
         files'[NotFoundFile] = files[NotFoundFile]
  PROVE  FoundStep
<1>1. phase = "report" /\ job <= Len(Jobs) /\ Jobs[job] = name
  BY DEF Turn
<1>2. job # 9 /\ job # 10
  BY <1>1, JobNames
<1>3. QED
  BY <1>1, <1>2 DEF FoundStep, JobDone, reportInput, loading, scanned

\* Writing a report, or failing to open it, is such a step.
LEMMA FoundSteps ==
  ASSUME TypeInv,
         \/ CannotOpen \/ OnlyNoRangeOpened
         \/ WriteTextIndex \/ WriteTextAnnotated \/ WriteTextBranch \/ WriteTextCoverage
         \/ WriteTextSize \/ WriteTextSymbolSummary
         \/ WriteHtmlIndex \/ WriteHtmlAnnotated \/ WriteHtmlBranch \/ WriteHtmlCoverage
         \/ WriteHtmlSize \/ WriteHtmlSymbolSummary
         \/ WriteSummary
  PROVE  FoundStep
<1>0. TypeOK /\ ScanInv /\ DOMAIN files = FileNames
  BY DEF TypeInv, TypeOK
<1> USE <1>0
<1>1. CASE CannotOpen
  <2>1. /\ phase = "report" /\ job <= Len(Jobs)
        /\ phase' \in {"report", "crashed"} /\ (phase' = "report" => Jobs[job] \in TextFiles /\ job' = job + 1)
        /\ UNCHANGED << reportInput, found, files >>
    BY <1>1 DEF CannotOpen, JobDone
  <2>2. phase' = "report" => job # 9 /\ job # 10
    BY <2>1, JobNames
  <2>3. QED
    BY <2>1, <2>2 DEF FoundStep, reportInput, loading, scanned
<1>2. CASE OnlyNoRangeOpened
  <2>1. /\ Turn("uncovered.txt") /\ JobDone /\ UNCHANGED << reportInput, phase, found >>
        /\ files'[NotFoundFile] = files[NotFoundFile]
    BY <1>2 DEF OnlyNoRangeOpened, Put, NotFoundFile
  <2>2. QED
    BY <2>1, NothingFound
<1>3. CASE WriteTextIndex
  <2>1. /\ Turn("index.txt") /\ JobDone /\ UNCHANGED << reportInput, phase, found >>
        /\ files'[NotFoundFile] = files[NotFoundFile]
    BY <1>3 DEF WriteTextIndex, written
  <2>2. QED
    BY <2>1, NothingFound
<1>4. CASE WriteTextAnnotated
  <2>1. /\ Turn("annotated.txt") /\ JobDone /\ UNCHANGED << reportInput, phase, found >>
        /\ files'[NotFoundFile] = files[NotFoundFile]
    BY <1>4 DEF WriteTextAnnotated, Put, NotFoundFile
  <2>2. QED
    BY <2>1, NothingFound
<1>5. CASE WriteTextBranch
  <2>1. /\ Turn("branch.txt") /\ JobDone /\ UNCHANGED << reportInput, phase >>
        /\ LookUp(BranchPlaces)
        /\ files'[NotFoundFile] = files[NotFoundFile]
    BY <1>5 DEF WriteTextBranch, Put, NotFoundFile
  <2>2. Reporting /\ phase = "report" /\ job <= Len(Jobs) /\ Jobs[job] = "branch.txt"
    BY <2>1, NowReporting DEF Turn
  <2>3. found' = found \cup (BranchLines \cap DOMAIN explanations)
    BY <2>1, <2>2, BranchesLookedUp DEF BranchLines
  <2>4. job # 9 /\ job # 10
    BY <2>2, JobNames
  <2>5. QED
    BY <2>1, <2>2, <2>3, <2>4 DEF FoundStep, JobDone, reportInput, loading, scanned, AskedFor, BranchLines
<1>6. CASE WriteTextCoverage
  <2>1. /\ Turn("uncovered.txt") /\ JobDone /\ UNCHANGED << reportInput, phase >>
        /\ LookUp(Places(ranges))
    BY <1>6 DEF WriteTextCoverage
  <2>6. files'[NotFoundFile] = files[NotFoundFile]
    <3>1. files' = [files EXCEPT !["uncovered.txt"] = CoverageTxt, !["no_range_uncovered.txt"] = NoRangeTxt]
      BY <1>6, TextCoverageFiles
    <3>2. NotFoundFile # "uncovered.txt" /\ NotFoundFile # "no_range_uncovered.txt"
      BY DEF NotFoundFile
    <3>3. QED
      BY <3>1, <3>2, NotFoundIsFile, BesideTwo
  <2>2. Reporting /\ phase = "report" /\ job <= Len(Jobs) /\ Jobs[job] = "uncovered.txt"
    BY <2>1, NowReporting DEF Turn
  <2>3. found' = found \cup (LinesOf(ranges) \cap DOMAIN explanations)
    BY <2>1, <2>2, RangesLookedUp
  <2>4. job # 9 /\ job # 10
    BY <2>2, JobNames
  <2>5. QED
    BY <2>1, <2>2, <2>3, <2>4, <2>6 DEF FoundStep, JobDone, reportInput, loading, scanned, AskedFor
<1>7. CASE WriteTextSize
  <2>1. /\ Turn("sizes.txt") /\ JobDone /\ UNCHANGED << reportInput, phase, found >>
        /\ files'[NotFoundFile] = files[NotFoundFile]
    BY <1>7 DEF WriteTextSize, Put, NotFoundFile
  <2>2. QED
    BY <2>1, NothingFound
<1>8. CASE WriteTextSymbolSummary
  <2>1. /\ Turn("symbolSummary.txt") /\ JobDone /\ UNCHANGED << reportInput, phase, found >>
        /\ files'[NotFoundFile] = files[NotFoundFile]
    BY <1>8 DEF WriteTextSymbolSummary, Put, NotFoundFile
  <2>2. QED
    BY <2>1, NothingFound
<1>9. CASE WriteHtmlIndex
  <2>1. /\ Turn("index.html") /\ JobDone /\ UNCHANGED << reportInput, phase, found >>
        /\ files'[NotFoundFile] = files[NotFoundFile]
    BY <1>9 DEF WriteHtmlIndex, Put, NotFoundFile
  <2>2. QED
    BY <2>1, NothingFound
<1>10. CASE WriteHtmlAnnotated
  <2>1. /\ Turn("annotated.html") /\ JobDone /\ UNCHANGED << reportInput, phase, found >>
        /\ files'[NotFoundFile] = files[NotFoundFile]
    BY <1>10 DEF WriteHtmlAnnotated, Put, NotFoundFile
  <2>2. QED
    BY <2>1, NothingFound
<1>11. CASE WriteHtmlBranch
  <2>1. /\ Turn("branch.html") /\ JobDone /\ UNCHANGED << reportInput, phase >>
        /\ LookUp(BranchPlaces)
        /\ files'[NotFoundFile] = files[NotFoundFile]
    BY <1>11 DEF WriteHtmlBranch, Put, NotFoundFile
  <2>2. Reporting /\ phase = "report" /\ job <= Len(Jobs) /\ Jobs[job] = "branch.html"
    BY <2>1, NowReporting DEF Turn
  <2>3. found' = found \cup (BranchLines \cap DOMAIN explanations)
    BY <2>1, <2>2, BranchesLookedUp DEF BranchLines
  <2>4. job = 9
    BY <2>2, JobNames
  <2>5. QED
    BY <2>1, <2>2, <2>3, <2>4 DEF FoundStep, JobDone, reportInput, loading, scanned, AskedFor, BranchLines
<1>12. CASE WriteHtmlCoverage
  <2>1. /\ Turn("uncovered.html") /\ JobDone /\ UNCHANGED << reportInput, phase >>
        /\ LookUp(Places(ranges))
    BY <1>12 DEF WriteHtmlCoverage
  <2>6. files'[NotFoundFile] = files[NotFoundFile]
    <3> DEFINE n == IF Unreferenced = {} THEN files["NotReferenced.html"] ELSE Table(<< >>, << >>)
    <3>1. files' = [files EXCEPT !["uncovered.html"] = CoverageHtml, !["no_range_uncovered.html"] = NoRangeHtml,
                                 !["NotReferenced.html"] = n]
      BY <1>12, HtmlCoverageFiles
    <3>2. /\ NotFoundFile # "uncovered.html" /\ NotFoundFile # "no_range_uncovered.html"
          /\ NotFoundFile # "NotReferenced.html"
      BY DEF NotFoundFile
    <3> HIDE DEF n
    <3>3. QED
      BY <3>1, <3>2, NotFoundIsFile, BesideThree
  <2>2. Reporting /\ phase = "report" /\ job <= Len(Jobs) /\ Jobs[job] = "uncovered.html"
    BY <2>1, NowReporting DEF Turn
  <2>3. found' = found \cup (LinesOf(ranges) \cap DOMAIN explanations)
    BY <2>1, <2>2, RangesLookedUp
  <2>4. job = 10
    BY <2>2, JobNames
  <2>5. QED
    BY <2>1, <2>2, <2>3, <2>4, <2>6 DEF FoundStep, JobDone, reportInput, loading, scanned, AskedFor
<1>13. CASE WriteHtmlSize
  <2>1. /\ Turn("sizes.html") /\ JobDone /\ UNCHANGED << reportInput, phase, found >>
        /\ files'[NotFoundFile] = files[NotFoundFile]
    BY <1>13 DEF WriteHtmlSize, Put, NotFoundFile
  <2>2. QED
    BY <2>1, NothingFound
<1>14. CASE WriteHtmlSymbolSummary
  <2>1. /\ Turn("symbolSummary.html") /\ JobDone /\ UNCHANGED << reportInput, phase, found >>
        /\ files'[NotFoundFile] = files[NotFoundFile]
    BY <1>14 DEF WriteHtmlSymbolSummary, Put, NotFoundFile
  <2>2. QED
    BY <2>1, NothingFound
<1>15. CASE WriteSummary
  <2>1. /\ Turn("summary.txt") /\ JobDone /\ UNCHANGED << reportInput, phase, found >>
        /\ files'[NotFoundFile] = files[NotFoundFile]
    BY <1>15 DEF WriteSummary, Put, NotFoundFile
  <2>2. QED
    BY <2>1, NothingFound
<1>16. QED
  BY <1>1, <1>2, <1>3, <1>4, <1>5, <1>6, <1>7, <1>8, <1>9, <1>10, <1>11, <1>12, <1>13, <1>14, <1>15

\* What NotFoundExact says of the last file.
Exactly(unused, file) ==
  IF unused = {} THEN file = Absent ELSE file # Absent /\ ToSet(file.rows) = unused

\* The property is about one file and one set.
LEMMA ExactlyNow ==
  NotFoundExact <=> ((phase = "done" /\ in.asked) =>
                       Exactly(DOMAIN explanations \ AskedFor, files[NotFoundFile]))
BY DEF NotFoundExact, Exactly, Exists, Rows

\* ... after a step too.
LEMMA ExactlyNext ==
  NotFoundExact' <=> ((phase' = "done" /\ in'.asked) =>
                        Exactly(DOMAIN explanations' \ AskedFor', files'[NotFoundFile]))
BY DEF NotFoundExact, Exactly, Exists, Rows, Absent, NotFoundFile

\* At the start nothing is found.
LEMMA InitFound == ASSUME Init PROVE FoundInv
<1>1. /\ phase \in {"explain", "compute"} /\ found = {} /\ job = 1
      /\ files = [n \in FileNames |-> Absent]
  BY DEF Init
<1>2. files[NotFoundFile] = Absent
  BY <1>1, NotFoundIsFile
<1>3. NotFoundExact
  BY <1>1, ExactlyNow
<1>4. QED
  BY <1>1, <1>2, <1>3 DEF FoundInv

\* A report leaves what was found so far, and the list of the rest for later.
LEMMA FoundStepKeeps ==
  ASSUME TypeInv, FoundInv, phase = "report", FoundStep
  PROVE  FoundInv'
<1>1. /\ phase' \in {"report", "crashed"}
      /\ UNCHANGED << in, explanations, ranges, branches >>
      /\ files'[NotFoundFile] = files[NotFoundFile]
      /\ found \subseteq found' /\ found' \subseteq found \cup AskedFor
      /\ phase' = "report" =>
           /\ job' \in {job, job + 1}
           /\ (job = 9 /\ job' # job) => BranchLines \cap DOMAIN explanations \subseteq found'
           /\ (job = 10 /\ job' # job) => LinesOf(ranges) \cap DOMAIN explanations \subseteq found'
  BY DEF FoundStep
<1>2. LinesOf(ranges)' = LinesOf(ranges) /\ BranchLines' = BranchLines /\ AskedFor' = AskedFor
  BY <1>1, SteadyLines
<1>3. /\ found \subseteq AskedFor /\ files[NotFoundFile] = Absent
      /\ job > 9 => BranchLines \cap DOMAIN explanations \subseteq found
      /\ job > 10 => LinesOf(ranges) \cap DOMAIN explanations \subseteq found
  BY DEF FoundInv
<1>4. job \in Nat
  BY DEF TypeInv, TypeOK, Jobs
<1>5. NotFoundExact'
  BY <1>1, ExactlyNext
<1>6. files'[NotFoundFile] = Absent'
  BY <1>1, <1>3 DEF Absent
<1>7. phase' = "report" =>
        /\ found' \subseteq AskedFor'
        /\ job' > 9 => BranchLines' \cap DOMAIN explanations' \subseteq found'
        /\ job' > 10 => LinesOf(ranges)' \cap DOMAIN explanations' \subseteq found'
  <2>1. found' \subseteq AskedFor'
    BY <1>1, <1>2, <1>3
  <2>2. SUFFICES ASSUME phase' = "report"
                 PROVE  /\ job' > 9 => BranchLines' \cap DOMAIN explanations' \subseteq found'
                        /\ job' > 10 => LinesOf(ranges)' \cap DOMAIN explanations' \subseteq found'
    BY <2>1
  <2>3. /\ job' > 9 => job > 9 \/ (job = 9 /\ job' # job)
        /\ job' > 10 => job > 10 \/ (job = 10 /\ job' # job)
    BY <1>1, <1>4, <2>2
  <2>4. QED
    BY <1>1, <1>2, <1>3, <2>2, <2>3
<1>8. QED
  BY <1>1, <1>5, <1>6, <1>7 DEF FoundInv, NotFoundFile

\* The last file, once everything was looked up.
LEMMA LastFile ==
  ASSUME TypeInv, FoundInv, WriteNotFound \/ NothingAsked
  PROVE  FoundInv'
<1>1. /\ phase = "report" /\ phase' \in {"done", "crashed"} /\ job > Len(Jobs)
      /\ UNCHANGED << in, explanations, ranges, branches, found >>
  BY DEF WriteNotFound, NothingAsked, AllDone, reportInput, loading, scanned
<1>2. /\ found \subseteq AskedFor /\ files[NotFoundFile] = Absent /\ found \subseteq DOMAIN explanations
      /\ BranchLines \cap DOMAIN explanations \subseteq found
      /\ LinesOf(ranges) \cap DOMAIN explanations \subseteq found
      /\ IsFiniteSet(DOMAIN explanations) /\ NotFoundFile \in DOMAIN files
  <2>1. job > 9 /\ job > 10
    BY <1>1 DEF TypeInv, TypeOK, Jobs
  <2>2. QED
    BY <1>1, <2>1, NotFoundIsFile DEF FoundInv, TypeInv, TypeOK
<1>3. DOMAIN explanations \ found = DOMAIN explanations \ AskedFor
  BY <1>2 DEF AskedFor, BranchLines
<1>4. AskedFor' = AskedFor
  BY <1>1, SteadyLines
<1> DEFINE rest == DOMAIN explanations \ found
<1>5. phase' = "done" /\ in.asked => Exactly(rest, files'[NotFoundFile])
  <2>1. SUFFICES ASSUME phase' = "done", in.asked PROVE Exactly(rest, files'[NotFoundFile])
    OBVIOUS
  <2>2. IF rest = {} THEN files' = files
                     ELSE files' = [files EXCEPT ![NotFoundFile] = Table(<< >>, SetToSeq(rest))]
    <3>1. WriteNotFound
      BY <2>1 DEF NothingAsked
    <3>2. QED
      BY <2>1, <3>1 DEF WriteNotFound, Put
  <2>3. ToSet(SetToSeq(rest)) = rest
    <3>1. IsFiniteSet(rest)
      BY <1>2, FS_Subset
    <3>2. QED
      BY <3>1, ListedSet
  <2>4. \A c, r : Table(c, r) # Absent /\ Table(c, r).rows = r
    BY DEF Table, Absent
  <2> HIDE DEF rest
  <2>5. CASE rest = {}
    BY <1>2, <2>2, <2>5 DEF Exactly
  <2>6. CASE rest # {}
    <3>1. files'[NotFoundFile] = Table(<< >>, SetToSeq(rest))
      BY <1>2, <2>2, <2>6
    <3>2. QED
      BY <2>3, <2>4, <2>6, <3>1 DEF Exactly
  <2>7. QED
    BY <2>5, <2>6
<1>6. NotFoundExact'
  BY <1>1, <1>3, <1>4, <1>5, ExactlyNext
<1>7. phase' # "done" => files'[NotFoundFile] = Absent'
  BY <1>2 DEF WriteNotFound, NothingAsked, Absent
<1>8. QED
  BY <1>1, <1>6, <1>7 DEF FoundInv, NotFoundFile

\* Every step keeps it.
LEMMA NextFound == ASSUME TypeInv, FoundInv, [Next]_vars PROVE FoundInv'
<1>1. CASE UNCHANGED vars
  <2>1. UNCHANGED << in, explanations, ranges, branches, phase, found, files, job >>
    BY <1>1 DEF vars
  <2>2. LinesOf(ranges)' = LinesOf(ranges) /\ BranchLines' = BranchLines /\ AskedFor' = AskedFor
    BY <2>1, SteadyLines
  <2>3. NotFoundExact'
    BY <2>1, <2>2, ExactlyNow, ExactlyNext DEF FoundInv
  <2>4. QED
    BY <2>1, <2>2, <2>3 DEF FoundInv, NotFoundFile, Absent
<1>2. CASE ReadStep
  <2>1. /\ phase = "explain" /\ phase' \in {"explain", "compute", "exited"}
        /\ UNCHANGED << found, job, files >>
    BY <1>2 DEF ReadStep, written
  <2>2. NotFoundExact'
    BY <2>1, ExactlyNext
  <2>3. QED
    BY <2>1, <2>2 DEF FoundInv, NotFoundFile, Absent
<1>3. CASE ComputeUncovered
  <2>1. /\ phase = "compute" /\ phase' \in {"compute", "source"}
        /\ UNCHANGED << found, job, files >>
    BY <1>3 DEF ComputeUncovered, written
  <2>2. NotFoundExact'
    BY <2>1, ExactlyNext
  <2>3. QED
    BY <2>1, <2>2 DEF FoundInv, NotFoundFile, Absent
<1>4. CASE FindSourceForUncovered
  <2>1. /\ phase = "source" /\ phase' \in {"source", "report", "exited"}
        /\ UNCHANGED << found, job, files >>
    <3>1. /\ UNCHANGED << found, job, files >> /\ phase = "source"
      BY <1>4 DEF FindSourceForUncovered, written
    <3>2. PICK complete \in BOOLEAN : FindSource(complete)
      BY <1>4 DEF FindSourceForUncovered
    <3>3. phase' \in {"source", "report", "exited"}
      BY <3>1, <3>2 DEF FindSource
    <3>4. QED
      BY <3>1, <3>3
  <2>2. NotFoundExact'
    BY <2>1, ExactlyNext
  <2>3. found' = {} /\ job' = 1
    BY <2>1 DEF FoundInv
  <2>4. QED
    BY <2>1, <2>2, <2>3 DEF FoundInv, NotFoundFile, Absent
<1>5. CASE Next /\ ~(ReadStep \/ ComputeUncovered \/ FindSourceForUncovered)
  <2>1. /\ expect \in {"start", "classification", "explanation"} /\ ScanInv
    BY DEF TypeInv, TypeOK
  <2>2. \/ CannotOpen \/ OnlyNoRangeOpened
        \/ WriteTextIndex \/ WriteTextAnnotated \/ WriteTextBranch \/ WriteTextCoverage
        \/ WriteTextSize \/ WriteTextSymbolSummary
        \/ WriteHtmlIndex \/ WriteHtmlAnnotated \/ WriteHtmlBranch \/ WriteHtmlCoverage
        \/ WriteHtmlSize \/ WriteHtmlSymbolSummary
        \/ WriteSummary \/ WriteNotFound \/ NothingAsked
    BY <1>5, <2>1, ReadSteps DEF Next
  <2>3. phase = "report"
    BY <2>1, <2>2, ReportSteps DEF ReportStep
  <2>4. QED
    BY <2>2, <2>3, FoundSteps, FoundStepKeeps, LastFile
<1>6. QED
  BY <1>1, <1>2, <1>3, <1>4, <1>5

(***************************************************************************)
(* NotFoundExact, for every program and every file of explanations: each   *)
(* explanation is either found by a report or in the list of the others,   *)
(* however many of the text reports could not be written.                  *)
(***************************************************************************)
THEOREM NotFoundListExact == Spec => []NotFoundExact
<1>1. FoundInv => NotFoundExact
  BY DEF FoundInv
<1>2. Init => TypeInv /\ FoundInv
  BY InitTypes, InitFound
<1>3. TypeInv /\ FoundInv /\ [Next]_vars => TypeInv' /\ FoundInv'
  BY NextTypes, NextFound
<1>4. QED
  BY <1>1, <1>2, <1>3, PTL DEF Spec
-----------------------------------------------------------------------------
(***************************************************************************)
(* What each report holds once it was written.                             *)
(***************************************************************************)
\* PutAnnotatedLine, for all lines but the first, which has no anchor.
Mark(L, k) == IF k > 1 /\ L[k].state \in Marked /\ L[k].state # L[k - 1].state
                THEN L[k].id ELSE 0
MarkedLines(L) == [k \in DOMAIN L |-> << L[k].symbol, L[k].state, Mark(L, k) >>]

AnnotatedTxt  == Table(<< >>, AnnotatedLines)
AnnotatedHtml == Table(<< >>, MarkedLines(AnnotatedLines))
BranchTxt     == [columns |-> << >>, remark |-> BranchRemark,
                  rows |-> [k \in DOMAIN BranchPlaces |-> TextBranchEntry(BranchPlaces[k])]]
BranchHtml    == [columns |-> IF HasBranches THEN BranchColumns ELSE << >>, remark |-> BranchRemark,
                  rows |-> [k \in DOMAIN BranchPlaces |-> HtmlBranchEntry(BranchPlaces[k])]]
SizesTxt      == LET P == Places(ranges)
                 IN  Table(<< >>, [k \in DOMAIN P |-> TextSizeLine(P[k])])
SizesHtml     == LET P == Places(ranges)
                 IN  Table(SizeColumns, [k \in DOMAIN P |-> HtmlSizeLine(P[k])])
SymbolsTxt    == Table(<< >>, [i \in DOMAIN Symbols |-> TextSymbolSummaryLine(i)])
SymbolsHtml   == Table(SymbolSummaryColumns, [i \in DOMAIN Symbols |-> HtmlSymbolSummaryLine(i)])
IndexHtml     == Table(<< >>, IndexLinks)
SummaryTxt    == Table(<< >>, << Summary >>)
EmptyPage     == Table(<< >>, << >>)

Content(name) ==
  CASE name = "annotated.txt"           -> AnnotatedTxt
    [] name = "branch.txt"              -> BranchTxt
    [] name = "uncovered.txt"           -> CoverageTxt
    [] name = "no_range_uncovered.txt"  -> NoRangeTxt
    [] name = "sizes.txt"               -> SizesTxt
    [] name = "symbolSummary.txt"       -> SymbolsTxt
    [] name = "index.html"              -> IndexHtml
    [] name = "annotated.html"          -> AnnotatedHtml
    [] name = "branch.html"             -> BranchHtml
    [] name = "uncovered.html"          -> CoverageHtml
    [] name = "no_range_uncovered.html" -> NoRangeHtml
    [] name = "NotReferenced.html"      -> EmptyPage
    [] name = "sizes.html"              -> SizesHtml
    [] name = "symbolSummary.html"      -> SymbolsHtml
    [] name = "summary.txt"             -> SummaryTxt

\* The files the jth job leaves behind; the index as text is left open.
WrittenBy(j) ==
  CASE j = 2  -> {"annotated.txt"}
    [] j = 3  -> {"branch.txt"}
    [] j = 4  -> {"uncovered.txt", "no_range_uncovered.txt"}
    [] j = 5  -> {"sizes.txt"}
    [] j = 6  -> {"symbolSummary.txt"}
    [] j = 7  -> {"index.html"}
    [] j = 8  -> {"annotated.html"}
    [] j = 9  -> {"branch.html"}
    [] j = 10 -> {"uncovered.html", "no_range_uncovered.html"}
                   \cup (IF Unreferenced = {} THEN {} ELSE {"NotReferenced.html"})
    [] j = 11 -> {"sizes.html"}
    [] j = 12 -> {"symbolSummary.html"}
    [] j = 13 -> {"summary.txt"}
    [] OTHER  -> {}

\* What a report says depends on nothing a report changes.
LEMMA SteadyAnnotated ==
  ASSUME UNCHANGED << in, explanations, ranges, branches >>
  PROVE  AnnotatedTxt' = AnnotatedTxt /\ AnnotatedHtml' = AnnotatedHtml
<1>1. AnnotatedLines' = AnnotatedLines
  BY DEF AnnotatedLines, Symbols, Annotated
<1>2. QED
  BY <1>1 DEF AnnotatedTxt, AnnotatedHtml, MarkedLines, Mark

\* The branch report, too.
LEMMA SteadyBranch ==
  ASSUME UNCHANGED << in, explanations, ranges, branches >>
  PROVE  BranchTxt' = BranchTxt /\ BranchHtml' = BranchHtml /\ BranchPlaces' = BranchPlaces
<1>1. BranchPlaces' = BranchPlaces /\ HasBranches' = HasBranches /\ BranchRemark' = BranchRemark
  BY DEF BranchPlaces, Places, HasBranches, NumberBranchesFound, Referenced, Symbols, BranchRemark
<1>3. BranchTxt' = BranchTxt
  BY <1>1 DEF BranchTxt, TextBranchEntry, Classification, ExplanationText, HasExplanation
<1>4. BranchHtml' = BranchHtml
  BY <1>1 DEF BranchHtml, HtmlBranchEntry, Classification, ExplanationLink, HasExplanation
<1>5. QED
  BY <1>1, <1>3, <1>4

\* The coverage report.
LEMMA SteadyCoverage ==
  ASSUME UNCHANGED << in, explanations, ranges, branches >>
  PROVE  /\ CoverageTxt' = CoverageTxt /\ NoRangeTxt' = NoRangeTxt
         /\ CoverageHtml' = CoverageHtml /\ NoRangeHtml' = NoRangeHtml
         /\ Unreferenced' = Unreferenced
<1>1. Unreferenced' = Unreferenced
  BY DEF Unreferenced, Symbols
<1>2. Entries' = Entries /\ NoRangeNames' = NoRangeNames
  BY <1>1 DEF Entries, NoRangeNames, Symbols
<1>3. CoverageTxt' = CoverageTxt
  BY <1>2 DEF CoverageTxt, TextCoverageLine, Classification, ExplanationText, HasExplanation
<1>4. NoRangeTxt' = NoRangeTxt
  BY <1>2 DEF NoRangeTxt
<1>5. CoverageHtml' = CoverageHtml
  BY <1>2 DEF CoverageHtml, HtmlCoverageLine, Classification, ExplanationLink, HasExplanation
<1>6. NoRangeHtml' = NoRangeHtml
  BY <1>2 DEF NoRangeHtml
<1>7. QED
  BY <1>1, <1>3, <1>4, <1>5, <1>6

\* Sizes, symbols and the summary.
LEMMA SteadyRest ==
  ASSUME UNCHANGED << in, explanations, ranges, branches >>
  PROVE  /\ SizesTxt' = SizesTxt /\ SizesHtml' = SizesHtml
         /\ SymbolsTxt' = SymbolsTxt /\ SymbolsHtml' = SymbolsHtml /\ SummaryTxt' = SummaryTxt
<1>1. Places(ranges)' = Places(ranges) /\ Symbols' = Symbols /\ Referenced' = Referenced
  BY DEF Places, Symbols, Referenced
<1>2. SizesTxt' = SizesTxt /\ SizesHtml' = SizesHtml
  BY <1>1 DEF SizesTxt, SizesHtml
<1>3. SymbolsTxt' = SymbolsTxt /\ SymbolsHtml' = SymbolsHtml
  BY <1>1 DEF SymbolsTxt, SymbolsHtml, TextSymbolSummaryLine, HtmlSymbolSummaryLine, Statistics
<1>4. SummaryTxt' = SummaryTxt
  BY <1>1 DEF SummaryTxt, Summary, HasBranches, NumberBranchesFound, OverReferenced, Statistics
<1>5. QED
  BY <1>2, <1>3, <1>4

\* All of them.
LEMMA SteadyContent ==
  ASSUME UNCHANGED << in, explanations, ranges, branches >>
  PROVE  /\ \A n : Content(n)' = Content(n)
         /\ \A j : WrittenBy(j)' = WrittenBy(j)
<1>1. \A n : Content(n)' = Content(n)
  BY SteadyAnnotated, SteadyBranch, SteadyCoverage, SteadyRest DEF Content, IndexHtml, EmptyPage
<1>2. \A j : WrittenBy(j)' = WrittenBy(j)
  BY SteadyCoverage DEF WrittenBy
<1>3. QED
  BY <1>1, <1>2

ContentInv ==
  /\ phase = "done" => job > 13
  /\ phase \in {"explain", "compute", "source"} => job = 1
  /\ (phase \in {"report", "done"} /\ ~missed) =>
       \A j \in 1 .. 13 : job > j => \A n \in WrittenBy(j) : files[n] = Content(n)

\* A report that is written.
ContentStep ==
  /\ phase' = phase /\ phase = "report" /\ missed' = missed
  /\ UNCHANGED << in, explanations, ranges, branches >>
  /\ job \in 1 .. 13 /\ job' = job + 1
  /\ \A n \in FileNames : files'[n] = files[n] \/ files'[n] = Content(n)
  /\ \A n \in WrittenBy(job) : files'[n] = Content(n)

\* Only files are kept.
LEMMA KeptAreFiles == ASSUME NEW j PROVE WrittenBy(j) \subseteq FileNames
BY DEF WrittenBy, FileNames, Jobs, ToSet

\* One job that writes one file.
LEMMA PutContent ==
  ASSUME TypeOK, NEW name, Turn(name), JobDone, Put(name, Content(name)), name \in FileNames,
         WrittenBy(job) = {name}, UNCHANGED << reportInput, phase, missed >>
  PROVE  ContentStep
<1>1. job \in 1 .. 13 /\ job' = job + 1 /\ phase = "report"
  BY JobNumbers DEF JobDone, Turn
<1>2. files' = [files EXCEPT ![name] = Content(name)] /\ DOMAIN files = FileNames
  BY DEF Put, TypeOK
<1>3. /\ \A n \in FileNames : files'[n] = files[n] \/ files'[n] = Content(n)
      /\ files'[name] = Content(name)
  BY <1>2
<1>4. QED
  BY <1>1, <1>3 DEF ContentStep, reportInput, loading, scanned

\* The first line of the annotated assembly is a heading.
LEMMA FirstLine ==
  ASSUME Reporting, Len(AnnotatedLines) # 0
  PROVE  1 \in DOMAIN AnnotatedLines /\ AnnotatedLines[1].state = "source"
<1> DEFINE n == Len(Symbols)
           len == Lens(LineLists)
<1>1. /\ DOMAIN AnnotatedLines = 1 .. Len(AnnotatedLines) /\ 1 \in 1 .. Len(AnnotatedLines)
      /\ Sized(n, len)
  BY AnnotatedFacts
<1>2. PICK i \in 1 .. n : \E k \in 1 .. LineCount(i) : 1 = LineAt(i, k)
  BY <1>1, AnnotatedFacts
<1>3. PICK k \in 1 .. LineCount(i) : 1 = LineAt(i, k)
  BY <1>2
<1>4. AnnotatedLines[1] = Annotated(i, Symbols[i].lines[k])
  BY <1>3, AnnotatedFacts
<1>5. Before(len, i) \in Nat
  <2>1. i \in 1 .. n + 1 /\ n \in Nat
    BY <1>1 DEF Sized
  <2> HIDE DEF len, n
  <2>2. QED
    BY <1>1, <2>1, BeforeFacts
<1>6. 1 = Before(len, i) + k
  BY <1>3 DEF LineAt, At
<1>7. LineCount(i) \in Nat
  BY AnnotatedFacts
<1> HIDE DEF len
<1>8. k = 1
  BY <1>5, <1>6, <1>7
<1>9. ~WhollyCovered(i)
  BY <1>7, <1>8 DEF LineCount
<1>10. i \in DOMAIN Symbols /\ Fit(Symbols[i])
  BY DEF Reporting, AllFit
<1>11. Symbols[i].size > 0
  <2>1. Symbols[i].size \in Nat
    BY <1>10, SymbolFacts
  <2>2. SUFFICES ASSUME Symbols[i].size = 0 PROVE FALSE
    BY <2>1
  <2>3. Bytes(Symbols[i]) = {}
    BY <2>2 DEF Bytes
  <2>4. RunStarts(Symbols[i]) = {} /\ OneWay(Symbols[i]) = {}
    BY <1>10, <2>3, StartsFacts, SymbolFacts
  <2>5. /\ AllFit(Symbols) /\ Kind(Symbols, RunsOf(Symbols)) /\ Kind(Symbols, WaysOf(Symbols))
        /\ ranges = Recs(Symbols, RunsOf(Symbols)) /\ branches = Recs(Symbols, WaysOf(Symbols))
    BY PlacesFacts DEF Reporting
  <2>6. RunsOf(Symbols)[i] = {} /\ WaysOf(Symbols)[i] = {}
    BY <1>10, <2>4 DEF RunsOf, WaysOf
  <2>7. Cardinality({}) = 0
    BY FS_EmptySet
  <2>8. Len(ranges[i]) = 0 /\ Len(branches[i]) = 0
    <3>1. Len(Recs(Symbols, RunsOf(Symbols))[i]) = Cardinality(RunsOf(Symbols)[i])
      BY <2>5, RecsFacts
    <3>2. Len(Recs(Symbols, WaysOf(Symbols))[i]) = Cardinality(WaysOf(Symbols)[i])
      BY <2>5, RecsFacts
    <3>3. QED
      BY <2>5, <2>6, <2>7, <3>1, <3>2
  <2>9. QED
    BY <1>9, <2>8 DEF WhollyCovered
<1>12. ~Symbols[i].lines[1].insn
  BY <1>10, <1>11 DEF Fit, SameCode
<1>13. \A l : ~l.insn => Annotated(i, l).state = "source"
  BY DEF Annotated
<1>14. Annotated(i, Symbols[i].lines[1]).state = "source"
  BY <1>12, <1>13
<1>15. QED
  BY <1>1, <1>4, <1>8, <1>14

\* Whatever state was left behind, the first line gets no anchor.
LEMMA HtmlLinesMarked ==
  ASSUME Reporting
  PROVE  HtmlAnnotatedLines(AnnotatedLines) = MarkedLines(AnnotatedLines)
<1> DEFINE L == AnnotatedLines
<1>1. DOMAIN L = 1 .. Len(L) /\ Len(L) \in Nat
  BY AnnotatedFacts
<1>2. Len(L) # 0 => L[1].state = "source"
  BY FirstLine
<1> HIDE DEF L
<1>3. \A k \in DOMAIN L : Anchor(L, k) = Mark(L, k)
  <2>1. ASSUME NEW k \in DOMAIN L PROVE Anchor(L, k) = Mark(L, k)
    <3>1. k \in Nat /\ k >= 1 /\ Len(L) # 0
      BY <1>1
    <3>2. CASE k = 1
      <4>1. L[k].state \notin Marked
        BY <1>2, <3>1, <3>2 DEF Marked
      <4>2. QED
        BY <4>1, <3>2 DEF Anchor, Mark
    <3>3. CASE k > 1
      BY <3>3 DEF Anchor, Mark
    <3>4. QED
      BY <3>1, <3>2, <3>3
  <2>2. QED
    BY <2>1
<1>4. QED
  BY <1>3 DEF HtmlAnnotatedLines, MarkedLines, L

\* Every job that writes its files leaves what they should hold.
LEMMA ContentSteps ==
  ASSUME TypeInv,
         \/ WriteTextIndex \/ WriteTextAnnotated \/ WriteTextBranch \/ WriteTextCoverage
         \/ WriteTextSize \/ WriteTextSymbolSummary
         \/ WriteHtmlIndex \/ WriteHtmlAnnotated \/ WriteHtmlBranch \/ WriteHtmlCoverage
         \/ WriteHtmlSize \/ WriteHtmlSymbolSummary
         \/ WriteSummary
  PROVE  ContentStep
<1>a. TypeOK /\ ScanInv /\ DOMAIN files = FileNames
  BY DEF TypeInv, TypeOK
<1>b. \A name : Turn(name) => job \in 1 .. 13 /\ Jobs[job] = name
  BY <1>a, JobNumbers
<1>c. /\ \A k \in 1 .. 13 : Jobs[k] = "index.txt" => k = 1
      /\ \A k \in 1 .. 13 : Jobs[k] = "annotated.txt" => k = 2
      /\ \A k \in 1 .. 13 : Jobs[k] = "branch.txt" => k = 3
      /\ \A k \in 1 .. 13 : Jobs[k] = "uncovered.txt" => k = 4
      /\ \A k \in 1 .. 13 : Jobs[k] = "sizes.txt" => k = 5
      /\ \A k \in 1 .. 13 : Jobs[k] = "symbolSummary.txt" => k = 6
      /\ \A k \in 1 .. 13 : Jobs[k] = "index.html" => k = 7
      /\ \A k \in 1 .. 13 : Jobs[k] = "annotated.html" => k = 8
      /\ \A k \in 1 .. 13 : Jobs[k] = "branch.html" => k = 9
      /\ \A k \in 1 .. 13 : Jobs[k] = "uncovered.html" => k = 10
      /\ \A k \in 1 .. 13 : Jobs[k] = "sizes.html" => k = 11
      /\ \A k \in 1 .. 13 : Jobs[k] = "symbolSummary.html" => k = 12
      /\ \A k \in 1 .. 13 : Jobs[k] = "summary.txt" => k = 13
  BY DEF Jobs
<1>d. \A k \in 1 .. 13 : Jobs[k] \in FileNames
  BY DEF FileNames, ToSet, Jobs
<1>1. CASE WriteTextIndex
  <2>1. job = 1 /\ phase = "report" /\ job' = job + 1
        /\ UNCHANGED << reportInput, phase, files, missed >>
    BY <1>1, <1>b, <1>c DEF WriteTextIndex, JobDone, Turn, written
  <2>2. WrittenBy(job) = {}
    BY <2>1 DEF WrittenBy
  <2>3. QED
    BY <2>1, <2>2 DEF ContentStep, reportInput, loading, scanned
<1>2. CASE WriteTextAnnotated
  <2>1. /\ Turn("annotated.txt") /\ JobDone /\ Put("annotated.txt", Table(<< >>, AnnotatedLines))
        /\ UNCHANGED << reportInput, phase, missed >>
    BY <1>2 DEF WriteTextAnnotated
  <2>2. Content("annotated.txt") = Table(<< >>, AnnotatedLines)
    BY DEF Content, AnnotatedTxt
  <2>3. job \in 1 .. 13 /\ Jobs[job] = "annotated.txt" /\ job = 2 /\ "annotated.txt" \in FileNames
    BY <1>b, <1>c, <1>d, <2>1
  <2>4. WrittenBy(job) = {"annotated.txt"}
    BY <2>3 DEF WrittenBy
  <2>5. QED
    BY <1>a, <2>1, <2>2, <2>3, <2>4, PutContent
<1>3. CASE WriteTextBranch
  <2>1. /\ Turn("branch.txt") /\ JobDone /\ Put("branch.txt", BranchTxt)
        /\ UNCHANGED << reportInput, phase, missed >>
    BY <1>3 DEF WriteTextBranch, BranchTxt
  <2>2. Content("branch.txt") = BranchTxt
    BY DEF Content
  <2>3. job \in 1 .. 13 /\ Jobs[job] = "branch.txt" /\ job = 3 /\ "branch.txt" \in FileNames
    BY <1>b, <1>c, <1>d, <2>1
  <2>4. WrittenBy(job) = {"branch.txt"}
    BY <2>3 DEF WrittenBy
  <2>5. QED
    BY <1>a, <2>1, <2>2, <2>3, <2>4, PutContent
<1>4. CASE WriteTextCoverage
  <2>1. /\ Turn("uncovered.txt") /\ JobDone /\ UNCHANGED << reportInput, phase, missed >>
    BY <1>4 DEF WriteTextCoverage
  <2>2. files' = [files EXCEPT !["uncovered.txt"] = CoverageTxt, !["no_range_uncovered.txt"] = NoRangeTxt]
    BY <1>4, TextCoverageFiles
  <2>3. job \in 1 .. 13 /\ Jobs[job] = "uncovered.txt" /\ job = 4 /\ phase = "report"
    BY <1>b, <1>c, <2>1 DEF Turn
  <2>4. WrittenBy(job) = {"uncovered.txt", "no_range_uncovered.txt"} /\ WrittenBy(job) \subseteq FileNames
    BY <2>3, KeptAreFiles DEF WrittenBy
  <2>5. Content("uncovered.txt") = CoverageTxt /\ Content("no_range_uncovered.txt") = NoRangeTxt
    BY DEF Content
  <2>6. /\ \A n \in FileNames : files'[n] = files[n] \/ files'[n] = Content(n)
        /\ \A n \in WrittenBy(job) : files'[n] = Content(n)
    BY <1>a, <2>2, <2>4, <2>5
  <2>7. QED
    BY <2>1, <2>3, <2>6 DEF ContentStep, JobDone, reportInput, loading, scanned
<1>5. CASE WriteTextSize
  <2>1. /\ Turn("sizes.txt") /\ JobDone /\ Put("sizes.txt", SizesTxt)
        /\ UNCHANGED << reportInput, phase, missed >>
    BY <1>5 DEF WriteTextSize, SizesTxt
  <2>2. Content("sizes.txt") = SizesTxt
    BY DEF Content
  <2>3. job \in 1 .. 13 /\ Jobs[job] = "sizes.txt" /\ job = 5 /\ "sizes.txt" \in FileNames
    BY <1>b, <1>c, <1>d, <2>1
  <2>4. WrittenBy(job) = {"sizes.txt"}
    BY <2>3 DEF WrittenBy
  <2>5. QED
    BY <1>a, <2>1, <2>2, <2>3, <2>4, PutContent
<1>6. CASE WriteTextSymbolSummary
  <2>1. /\ Turn("symbolSummary.txt") /\ JobDone /\ Put("symbolSummary.txt", SymbolsTxt)
        /\ UNCHANGED << reportInput, phase, missed >>
    BY <1>6 DEF WriteTextSymbolSummary, SymbolsTxt
  <2>2. Content("symbolSummary.txt") = SymbolsTxt
    BY DEF Content
  <2>3. job \in 1 .. 13 /\ Jobs[job] = "symbolSummary.txt" /\ job = 6 /\ "symbolSummary.txt" \in FileNames
    BY <1>b, <1>c, <1>d, <2>1
  <2>4. WrittenBy(job) = {"symbolSummary.txt"}
    BY <2>3 DEF WrittenBy
  <2>5. QED
    BY <1>a, <2>1, <2>2, <2>3, <2>4, PutContent
<1>7. CASE WriteHtmlIndex
  <2>1. /\ Turn("index.html") /\ JobDone /\ Put("index.html", IndexHtml)
        /\ UNCHANGED << reportInput, phase, missed >>
    BY <1>7 DEF WriteHtmlIndex, IndexHtml
  <2>2. Content("index.html") = IndexHtml
    BY DEF Content
  <2>3. job \in 1 .. 13 /\ Jobs[job] = "index.html" /\ job = 7 /\ "index.html" \in FileNames
    BY <1>b, <1>c, <1>d, <2>1
  <2>4. WrittenBy(job) = {"index.html"}
    BY <2>3 DEF WrittenBy
  <2>5. QED
    BY <1>a, <2>1, <2>2, <2>3, <2>4, PutContent
<1>8. CASE WriteHtmlAnnotated
  <2>1. /\ Turn("annotated.html") /\ JobDone
        /\ Put("annotated.html", Table(<< >>, HtmlAnnotatedLines(AnnotatedLines)))
        /\ UNCHANGED << reportInput, phase, missed >>
    BY <1>8 DEF WriteHtmlAnnotated
  <2>2. Content("annotated.html") = Table(<< >>, HtmlAnnotatedLines(AnnotatedLines))
    <3>1. Reporting
      BY <1>a, <2>1, NowReporting DEF Turn
    <3>2. QED
      BY <3>1, HtmlLinesMarked DEF Content, AnnotatedHtml
  <2>3. job \in 1 .. 13 /\ Jobs[job] = "annotated.html" /\ job = 8 /\ "annotated.html" \in FileNames
    BY <1>b, <1>c, <1>d, <2>1
  <2>4. WrittenBy(job) = {"annotated.html"}
    BY <2>3 DEF WrittenBy
  <2>5. QED
    BY <1>a, <2>1, <2>2, <2>3, <2>4, PutContent
<1>9. CASE WriteHtmlBranch
  <2>1. /\ Turn("branch.html") /\ JobDone /\ Put("branch.html", BranchHtml)
        /\ UNCHANGED << reportInput, phase, missed >>
    BY <1>9 DEF WriteHtmlBranch, BranchHtml
  <2>2. Content("branch.html") = BranchHtml
    BY DEF Content
  <2>3. job \in 1 .. 13 /\ Jobs[job] = "branch.html" /\ job = 9 /\ "branch.html" \in FileNames
    BY <1>b, <1>c, <1>d, <2>1
  <2>4. WrittenBy(job) = {"branch.html"}
    BY <2>3 DEF WrittenBy
  <2>5. QED
    BY <1>a, <2>1, <2>2, <2>3, <2>4, PutContent
<1>10. CASE WriteHtmlCoverage
  <2>1. /\ Turn("uncovered.html") /\ JobDone /\ UNCHANGED << reportInput, phase, missed >>
    BY <1>10 DEF WriteHtmlCoverage
  <2> DEFINE p == IF Unreferenced = {} THEN files["NotReferenced.html"] ELSE EmptyPage
  <2>2. files' = [files EXCEPT !["uncovered.html"] = CoverageHtml, !["no_range_uncovered.html"] = NoRangeHtml,
                               !["NotReferenced.html"] = p]
    BY <1>10, HtmlCoverageFiles DEF EmptyPage
  <2>3. job \in 1 .. 13 /\ Jobs[job] = "uncovered.html" /\ job = 10 /\ phase = "report"
    BY <1>b, <1>c, <2>1 DEF Turn
  <2>4. /\ WrittenBy(job) = {"uncovered.html", "no_range_uncovered.html"}
                              \cup (IF Unreferenced = {} THEN {} ELSE {"NotReferenced.html"})
        /\ WrittenBy(job) \subseteq FileNames
    BY <2>3, KeptAreFiles DEF WrittenBy
  <2>5. /\ Content("uncovered.html") = CoverageHtml /\ Content("no_range_uncovered.html") = NoRangeHtml
        /\ Content("NotReferenced.html") = EmptyPage
    BY DEF Content
  <2>6. /\ p = files["NotReferenced.html"] \/ p = EmptyPage
        /\ Unreferenced # {} => p = EmptyPage
        /\ "NotReferenced.html" \in FileNames
    BY DEF FileNames
  <2> HIDE DEF p
  <2>7. /\ \A n \in FileNames : files'[n] = files[n] \/ files'[n] = Content(n)
        /\ \A n \in WrittenBy(job) : files'[n] = Content(n)
    BY <1>a, <2>2, <2>4, <2>5, <2>6
  <2>8. QED
    BY <2>1, <2>3, <2>7 DEF ContentStep, JobDone, reportInput, loading, scanned
<1>11. CASE WriteHtmlSize
  <2>1. /\ Turn("sizes.html") /\ JobDone /\ Put("sizes.html", SizesHtml)
        /\ UNCHANGED << reportInput, phase, missed >>
    BY <1>11 DEF WriteHtmlSize, SizesHtml
  <2>2. Content("sizes.html") = SizesHtml
    BY DEF Content
  <2>3. job \in 1 .. 13 /\ Jobs[job] = "sizes.html" /\ job = 11 /\ "sizes.html" \in FileNames
    BY <1>b, <1>c, <1>d, <2>1
  <2>4. WrittenBy(job) = {"sizes.html"}
    BY <2>3 DEF WrittenBy
  <2>5. QED
    BY <1>a, <2>1, <2>2, <2>3, <2>4, PutContent
<1>12. CASE WriteHtmlSymbolSummary
  <2>1. /\ Turn("symbolSummary.html") /\ JobDone /\ Put("symbolSummary.html", SymbolsHtml)
        /\ UNCHANGED << reportInput, phase, missed >>
    BY <1>12 DEF WriteHtmlSymbolSummary, SymbolsHtml
  <2>2. Content("symbolSummary.html") = SymbolsHtml
    BY DEF Content
  <2>3. job \in 1 .. 13 /\ Jobs[job] = "symbolSummary.html" /\ job = 12 /\ "symbolSummary.html" \in FileNames
    BY <1>b, <1>c, <1>d, <2>1
  <2>4. WrittenBy(job) = {"symbolSummary.html"}
    BY <2>3 DEF WrittenBy
  <2>5. QED
    BY <1>a, <2>1, <2>2, <2>3, <2>4, PutContent
<1>13. CASE WriteSummary
  <2>1. /\ Turn("summary.txt") /\ JobDone /\ Put("summary.txt", SummaryTxt)
        /\ UNCHANGED << reportInput, phase, missed >>
    BY <1>13 DEF WriteSummary, SummaryTxt
  <2>2. Content("summary.txt") = SummaryTxt
    BY DEF Content
  <2>3. job \in 1 .. 13 /\ Jobs[job] = "summary.txt" /\ job = 13 /\ "summary.txt" \in FileNames
    BY <1>b, <1>c, <1>d, <2>1
  <2>4. WrittenBy(job) = {"summary.txt"}
    BY <2>3 DEF WrittenBy
  <2>5. QED
    BY <1>a, <2>1, <2>2, <2>3, <2>4, PutContent
<1>14. QED
  BY <1>1, <1>2, <1>3, <1>4, <1>5, <1>6, <1>7, <1>8, <1>9, <1>10, <1>11, <1>12, <1>13

\* It does from the start.
LEMMA InitContent == ASSUME Init PROVE ContentInv
BY DEF Init, ContentInv

\* A job that writes its files.
LEMMA ContentKept ==
  ASSUME TypeInv, ContentInv, ContentStep
  PROVE  ContentInv'
<1>1. /\ phase' = phase /\ phase = "report" /\ missed' = missed
      /\ UNCHANGED << in, explanations, ranges, branches >>
      /\ job \in 1 .. 13 /\ job' = job + 1
      /\ \A n \in FileNames : files'[n] = files[n] \/ files'[n] = Content(n)
      /\ \A n \in WrittenBy(job) : files'[n] = Content(n)
  BY DEF ContentStep
<1>2. (\A n : Content(n)' = Content(n)) /\ (\A j : WrittenBy(j)' = WrittenBy(j))
  BY <1>1, SteadyContent
<1>3. ASSUME ~missed, NEW j \in 1 .. 13, job' > j, NEW n \in WrittenBy(j)
      PROVE  files'[n] = Content(n)
  <2>1. n \in FileNames
    BY KeptAreFiles
  <2>2. CASE j = job
    BY <1>1, <2>2
  <2>3. CASE j # job
    <3>1. job > j
      BY <1>1, <1>3, <2>3
    <3>2. files[n] = Content(n)
      BY <1>1, <1>3, <3>1 DEF ContentInv
    <3>3. QED
      BY <1>1, <2>1, <3>2
  <2>4. QED
    BY <2>2, <2>3
<1>4. ~missed' => \A j \in 1 .. 13 : job' > j => \A n \in WrittenBy(j)' : files'[n] = Content(n)'
  BY <1>1, <1>2, <1>3
<1>5. QED
  BY <1>1, <1>4 DEF ContentInv

\* The steps before the reports, and after them.
LEMMA NextContent == ASSUME TypeInv, ContentInv, [Next]_vars PROVE ContentInv'
<1>1. CASE UNCHANGED vars
  <2>1. UNCHANGED << in, explanations, ranges, branches, phase, files, job, missed >>
    BY <1>1 DEF vars
  <2>2. (\A n : Content(n)' = Content(n)) /\ (\A j : WrittenBy(j)' = WrittenBy(j))
    BY <2>1, SteadyContent
  <2>3. QED
    BY <2>1, <2>2 DEF ContentInv
<1>2. CASE ReadStep \/ ComputeUncovered \/ FindSourceForUncovered
  <2>1. /\ phase \in {"explain", "compute", "source"} /\ job' = job
        /\ phase' \in {"explain", "compute", "source", "report", "exited"}
    <3>1. CASE ReadStep
      BY <3>1 DEF ReadStep
    <3>2. CASE ComputeUncovered
      BY <3>2 DEF ComputeUncovered
    <3>3. CASE FindSourceForUncovered
      <4>1. PICK complete \in BOOLEAN : FindSource(complete)
        BY <3>3 DEF FindSourceForUncovered
      <4>2. phase' \in {"source", "report", "exited"}
        BY <3>3, <4>1 DEF FindSourceForUncovered, FindSource
      <4>3. QED
        BY <3>3, <4>2 DEF FindSourceForUncovered
    <3>4. QED
      BY <1>2, <3>1, <3>2, <3>3
  <2>2. job' = 1 /\ phase' # "done"
    BY <2>1 DEF ContentInv
  <2>3. \A j \in 1 .. 13 : ~(job' > j)
    BY <2>2
  <2>4. QED
    BY <2>2, <2>3 DEF ContentInv
<1>3. CASE CannotOpen \/ OnlyNoRangeOpened
  <2>1. missed' = TRUE /\ phase = "report" /\ phase' \in {"report", "crashed"}
    BY <1>3 DEF CannotOpen, OnlyNoRangeOpened, Turn
  <2>2. QED
    BY <2>1 DEF ContentInv
<1>4. CASE WriteNotFound \/ NothingAsked
  <2>1. /\ phase = "report" /\ job > Len(Jobs) /\ job' = job
        /\ (phase' = "done" /\ missed' = missed) \/ phase' = "crashed"
        /\ UNCHANGED << in, explanations, ranges, branches >>
        /\ files' = files \/ files' = [files EXCEPT ![NotFoundFile] =
             Table(<< >>, SetToSeq(DOMAIN explanations \ found))]
    BY <1>4 DEF WriteNotFound, NothingAsked, AllDone, reportInput, loading, scanned, written, Put
  <2>2. (\A n : Content(n)' = Content(n)) /\ (\A j : WrittenBy(j)' = WrittenBy(j))
    BY <2>1, SteadyContent
  <2>3. job > 13
    BY <2>1 DEF Jobs
  <2>4. \A n \in FileNames : n # NotFoundFile => files'[n] = files[n]
    <3>1. ASSUME NEW n \in FileNames, n # NotFoundFile PROVE files'[n] = files[n]
      <4>1. DOMAIN files = FileNames
        BY DEF TypeInv, TypeOK
      <4> DEFINE c == Table(<< >>, SetToSeq(DOMAIN explanations \ found))
      <4>2. files' = files \/ files' = [files EXCEPT ![NotFoundFile] = c]
        BY <2>1
      <4> HIDE DEF c
      <4>3. QED
        BY <2>1, <3>1, <4>1, <4>2
    <3>2. QED
      BY <3>1
  <2>5. \A j \in 1 .. 13 : NotFoundFile \notin WrittenBy(j)
    BY DEF WrittenBy, NotFoundFile
  <2>6. SUFFICES ASSUME phase' = "done", ~missed'
                 PROVE  \A j \in 1 .. 13 : \A n \in WrittenBy(j) : files'[n] = Content(n)
    BY <2>1, <2>2, <2>3 DEF ContentInv
  <2>7. \A j \in 1 .. 13 : \A n \in WrittenBy(j) : files[n] = Content(n)
    <3>1. \A j \in 1 .. 13 : job > j
      BY <2>3 DEF TypeInv, TypeOK, Jobs
    <3>2. QED
      BY <2>1, <2>6, <3>1 DEF ContentInv
  <2>8. QED
    BY <2>4, <2>5, <2>7, KeptAreFiles
<1>5. CASE Next /\ ~(ReadStep \/ ComputeUncovered \/ FindSourceForUncovered)
  <2>1. expect \in {"start", "classification", "explanation"}
    BY DEF TypeInv, TypeOK
  <2>2. \/ CannotOpen \/ OnlyNoRangeOpened
        \/ WriteTextIndex \/ WriteTextAnnotated \/ WriteTextBranch \/ WriteTextCoverage
        \/ WriteTextSize \/ WriteTextSymbolSummary
        \/ WriteHtmlIndex \/ WriteHtmlAnnotated \/ WriteHtmlBranch \/ WriteHtmlCoverage
        \/ WriteHtmlSize \/ WriteHtmlSymbolSummary
        \/ WriteSummary \/ WriteNotFound \/ NothingAsked
    BY <1>5, <2>1, ReadSteps DEF Next
  <2>3. QED
    BY <1>3, <1>4, <2>2, ContentSteps, ContentKept
<1>6. QED
  BY <1>1, <1>2, <1>5

\* When everything is done and nothing was missed, every file says what it should.
LEMMA DoneFiles ==
  ASSUME TypeInv, ContentInv, Complete
  PROVE  /\ Reporting
         /\ files["annotated.txt"] = AnnotatedTxt /\ files["annotated.html"] = AnnotatedHtml
         /\ files["branch.txt"] = BranchTxt /\ files["branch.html"] = BranchHtml
         /\ files["uncovered.txt"] = CoverageTxt /\ files["uncovered.html"] = CoverageHtml
         /\ files["no_range_uncovered.txt"] = NoRangeTxt
         /\ files["no_range_uncovered.html"] = NoRangeHtml
         /\ files["sizes.txt"] = SizesTxt /\ files["sizes.html"] = SizesHtml
         /\ files["symbolSummary.txt"] = SymbolsTxt /\ files["symbolSummary.html"] = SymbolsHtml
         /\ files["index.html"] = IndexHtml /\ files["summary.txt"] = SummaryTxt
         /\ Unreferenced # {} => files["NotReferenced.html"] = EmptyPage
<1>1. phase = "done" /\ ~missed /\ job > 13 /\ job \in Nat
  BY DEF Complete, ContentInv, TypeInv, TypeOK, Jobs
<1>2. \A j \in 1 .. 13 : job > j
  BY <1>1
<1>3. \A j \in 1 .. 13 : \A n \in WrittenBy(j) : files[n] = Content(n)
  BY <1>1, <1>2 DEF ContentInv
<1>4. Reporting
  BY <1>1, NowReporting DEF TypeInv
<1>5. /\ "annotated.txt" \in WrittenBy(2) /\ "branch.txt" \in WrittenBy(3)
      /\ "uncovered.txt" \in WrittenBy(4) /\ "no_range_uncovered.txt" \in WrittenBy(4)
      /\ "sizes.txt" \in WrittenBy(5) /\ "symbolSummary.txt" \in WrittenBy(6)
      /\ "index.html" \in WrittenBy(7) /\ "annotated.html" \in WrittenBy(8)
      /\ "branch.html" \in WrittenBy(9) /\ "uncovered.html" \in WrittenBy(10)
      /\ "no_range_uncovered.html" \in WrittenBy(10)
      /\ Unreferenced # {} => "NotReferenced.html" \in WrittenBy(10)
      /\ "sizes.html" \in WrittenBy(11) /\ "symbolSummary.html" \in WrittenBy(12)
      /\ "summary.txt" \in WrittenBy(13)
  BY DEF WrittenBy
<1>6. /\ Content("annotated.txt") = AnnotatedTxt /\ Content("annotated.html") = AnnotatedHtml
      /\ Content("branch.txt") = BranchTxt /\ Content("branch.html") = BranchHtml
      /\ Content("uncovered.txt") = CoverageTxt /\ Content("uncovered.html") = CoverageHtml
      /\ Content("no_range_uncovered.txt") = NoRangeTxt
      /\ Content("no_range_uncovered.html") = NoRangeHtml
      /\ Content("sizes.txt") = SizesTxt /\ Content("sizes.html") = SizesHtml
      /\ Content("symbolSummary.txt") = SymbolsTxt /\ Content("symbolSummary.html") = SymbolsHtml
      /\ Content("index.html") = IndexHtml /\ Content("summary.txt") = SummaryTxt
      /\ Content("NotReferenced.html") = EmptyPage
  BY DEF Content
<1>7. \A j : j \in 1 .. 13 =>
        \A n \in WrittenBy(j) : files[n] = Content(n)
  BY <1>3
<1>8. /\ 2 \in 1 .. 13 /\ 3 \in 1 .. 13 /\ 4 \in 1 .. 13 /\ 5 \in 1 .. 13 /\ 6 \in 1 .. 13
      /\ 7 \in 1 .. 13 /\ 8 \in 1 .. 13 /\ 9 \in 1 .. 13 /\ 10 \in 1 .. 13 /\ 11 \in 1 .. 13
      /\ 12 \in 1 .. 13 /\ 13 \in 1 .. 13
  OBVIOUS
<1>9. QED
  BY <1>4, <1>5, <1>6, <1>7, <1>8
-----------------------------------------------------------------------------
(***************************************************************************)
(* The files of explanations the HTML reports write.                       *)
(***************************************************************************)
AllPlaces == ToSet(Places(ranges)) \cup ToSet(Places(branches))

\* Each place of a list that has an explanation finds it in the file with its
\* number.
Right(P, ex) ==
  \A p \in ToSet(P) : HasExplanation(p.range) =>
    p.range.id \in DOMAIN ex /\ ex[p.range.id] = explanations[p.range.lowLine].text

\* A number belongs to one place, whatever list it is in.
LEMMA SpotOne ==
  ASSUME Reporting, NEW p \in AllPlaces, NEW q \in AllPlaces, p.range.id = q.range.id
  PROVE  p = q
<1> DEFINE ss == Symbols
<1>1. /\ AllFit(ss) /\ Kind(ss, RunsOf(ss)) /\ Kind(ss, WaysOf(ss)) /\ Len(ss) \in Nat
      /\ Places(ranges) = FlattenSeq(SpotLists(ss, RunsOf(ss)))
      /\ Places(branches) = FlattenSeq(SpotLists(ss, WaysOf(ss)))
  BY PlacesFacts DEF AllFit
<1>2. \A T : Kind(ss, T) => \A r \in ToSet(FlattenSeq(SpotLists(ss, T))) :
        \E i \in 1 .. Len(ss) : \E b \in T[i] : r = Spot(ss, i, b)
  BY <1>1, SpotSet
<1>3. \A r \in AllPlaces : \E i \in 1 .. Len(ss) : \E b \in Starts(ss[i]) : r = Spot(ss, i, b)
  <2>1. \A T : Kind(ss, T) => \A i \in 1 .. Len(ss) : T[i] \subseteq Starts(ss[i])
    BY DEF Kind
  <2> HIDE DEF ss
  <2>2. ASSUME NEW T, Kind(ss, T), NEW r \in ToSet(FlattenSeq(SpotLists(ss, T)))
        PROVE  \E i \in 1 .. Len(ss) : \E b \in Starts(ss[i]) : r = Spot(ss, i, b)
    <3>1. PICK i \in 1 .. Len(ss) : \E b \in T[i] : r = Spot(ss, i, b)
      BY <1>2, <2>2
    <3>2. PICK b \in T[i] : r = Spot(ss, i, b)
      BY <3>1
    <3>3. b \in Starts(ss[i])
      BY <2>1, <2>2
    <3>4. QED
      BY <3>2, <3>3
  <2>3. QED
    BY <1>1, <2>2 DEF AllPlaces
<1> HIDE DEF ss
<1>a. PICK i \in 1 .. Len(ss) : \E b \in Starts(ss[i]) : p = Spot(ss, i, b)
  BY <1>3
<1>4. PICK b \in Starts(ss[i]) : p = Spot(ss, i, b)
  BY <1>a
<1>b. PICK k \in 1 .. Len(ss) : \E c \in Starts(ss[k]) : q = Spot(ss, k, c)
  BY <1>3
<1>5. PICK c \in Starts(ss[k]) : q = Spot(ss, k, c)
  BY <1>b
<1>6. p.range.id = Full(ss[i], b, IdBase(ss, i)).id /\ q.range.id = Full(ss[k], c, IdBase(ss, k)).id
  BY <1>4, <1>5 DEF Spot, Place1
<1>7. i = k /\ b = c
  <2>1. Full(ss[i], b, IdBase(ss, i)).id = Full(ss[k], c, IdBase(ss, k)).id
    BY <1>6
  <2>2. AllFit(ss)
    BY <1>1
  <2>3. QED
    BY ONLY <2>1, <2>2, <1>4, <1>5, IdOne
<1>8. Spot(ss, i, b) = Spot(ss, k, c)
  BY <1>7
<1>9. p = q
  BY <1>4, <1>5, <1>8
<1>10. QED
  BY <1>9

\* Writing the files of one list leaves those of another right.
LEMMA FilesRight ==
  ASSUME Reporting, NEW P, ToSet(P) \subseteq AllPlaces, ExplanationFiles(P)
  PROVE  /\ Right(P, explained')
         /\ \A Q : ToSet(Q) \subseteq AllPlaces /\ Right(Q, explained) => Right(Q, explained')
<1> DEFINE X == ExplainedIn(P)
           ids == {p.range.id : p \in X}
           Of(id) == CHOOSE p \in X : p.range.id = id
<1>1. explained' = [id \in DOMAIN explained \cup ids |->
                      IF id \in ids THEN explanations[Of(id).range.lowLine].text ELSE explained[id]]
  BY DEF ExplanationFiles
<1>2. X \subseteq AllPlaces /\ X \subseteq ToSet(P)
      /\ \A p \in ToSet(P) : HasExplanation(p.range) => p \in X
  BY DEF ExplainedIn
<1> HIDE DEF X
<1>3. \A id \in ids : Of(id) \in X /\ Of(id).range.id = id
  OBVIOUS
<1>4. \A q \in AllPlaces : q.range.id \in ids => Of(q.range.id) = q
  <2>1. ASSUME NEW q \in AllPlaces, q.range.id \in ids PROVE Of(q.range.id) = q
    <3> DEFINE o == Of(q.range.id)
    <3>1. o \in AllPlaces /\ o.range.id = q.range.id
      BY <1>2, <1>3, <2>1
    <3> HIDE DEF o
    <3>2. o = q
      BY <3>1, SpotOne
    <3>3. QED
      BY <3>2 DEF o
  <2>2. QED
    BY <2>1
<1>5. \A p \in X : p.range.id \in ids
  OBVIOUS
<1> HIDE DEF Of, ids
<1>6. Right(P, explained')
  <2>1. ASSUME NEW p \in ToSet(P), HasExplanation(p.range)
        PROVE  p.range.id \in DOMAIN explained'
               /\ explained'[p.range.id] = explanations[p.range.lowLine].text
    <3>1. p \in X /\ p \in AllPlaces /\ p.range.id \in ids
      BY <1>2, <1>5, <2>1
    <3>2. Of(p.range.id) = p
      BY <1>4, <3>1
    <3>3. QED
      BY <1>1, <3>1, <3>2
  <2>2. QED
    BY <2>1 DEF Right
<1>7. ASSUME NEW Q, ToSet(Q) \subseteq AllPlaces, Right(Q, explained) PROVE Right(Q, explained')
  <2>1. ASSUME NEW p \in ToSet(Q), HasExplanation(p.range)
        PROVE  p.range.id \in DOMAIN explained'
               /\ explained'[p.range.id] = explanations[p.range.lowLine].text
    <3>1. /\ p \in AllPlaces /\ p.range.id \in DOMAIN explained
          /\ explained[p.range.id] = explanations[p.range.lowLine].text
      BY <1>7, <2>1 DEF Right
    <3>2. CASE p.range.id \in ids
      <4>1. Of(p.range.id) = p
        BY <1>4, <3>1, <3>2
      <4>2. QED
        BY <1>1, <3>1, <3>2, <4>1
    <3>3. CASE p.range.id \notin ids
      BY <1>1, <3>1, <3>3
    <3>4. QED
      BY <3>2, <3>3
  <2>2. QED
    BY <2>1 DEF Right
<1>8. QED
  BY <1>6, <1>7

\* The branches a report goes through are among the places.
LEMMA BranchPlacesIn == ToSet(BranchPlaces) \subseteq AllPlaces /\ ToSet(Places(ranges)) \subseteq AllPlaces
<1>1. ToSet(<< >>) = {}
  BY DEF ToSet
<1>2. QED
  BY <1>1 DEF BranchPlaces, AllPlaces

ExplainedInv ==
  (phase \in {"report", "done"} /\ ~missed) =>
    /\ job > 9 => Right(BranchPlaces, explained)
    /\ job > 10 => Right(Places(ranges), explained)

\* What is right stays so while what it speaks of does.
LEMMA SteadyRight ==
  ASSUME UNCHANGED << in, explanations, ranges, branches >>
  PROVE  /\ Right(BranchPlaces, explained)' <=> Right(BranchPlaces, explained')
         /\ Right(Places(ranges), explained)' <=> Right(Places(ranges), explained')
<1>1. BranchPlaces' = BranchPlaces /\ Places(ranges)' = Places(ranges)
  BY SteadyBranch DEF Places, Symbols
<1>2. \A P, ex : Right(P, ex)' <=> Right(P, ex)
  BY DEF Right, HasExplanation
<1>3. QED
  BY <1>1 DEF Right, HasExplanation

\* A job that writes its files.
LEMMA ExplainedKept ==
  ASSUME TypeInv, ExplainedInv, ContentStep,
         \/ explained' = explained /\ job # 9 /\ job # 10
         \/ job = 9 /\ ExplanationFiles(BranchPlaces)
         \/ job = 10 /\ ExplanationFiles(Places(ranges))
  PROVE  ExplainedInv'
<1>1. /\ phase' = phase /\ phase = "report" /\ missed' = missed
      /\ UNCHANGED << in, explanations, ranges, branches >>
      /\ job \in 1 .. 13 /\ job' = job + 1
  BY DEF ContentStep
<1>2. Reporting
  BY <1>1, NowReporting DEF TypeInv
<1>3. SUFFICES ASSUME ~missed
               PROVE  /\ job' > 9 => Right(BranchPlaces, explained')
                      /\ job' > 10 => Right(Places(ranges), explained')
  BY <1>1, SteadyRight DEF ExplainedInv
<1>4. /\ job > 9 => Right(BranchPlaces, explained)
      /\ job > 10 => Right(Places(ranges), explained)
  BY <1>1, <1>3 DEF ExplainedInv
<1>5. CASE explained' = explained /\ job # 9 /\ job # 10
  BY <1>1, <1>4, <1>5
<1>6. CASE job = 9 /\ ExplanationFiles(BranchPlaces)
  BY <1>1, <1>2, <1>6, FilesRight, BranchPlacesIn
<1>7. CASE job = 10 /\ ExplanationFiles(Places(ranges))
  BY <1>1, <1>2, <1>4, <1>7, FilesRight, BranchPlacesIn
<1>8. QED
  BY <1>5, <1>6, <1>7

\* Which jobs write explanations.
LEMMA WhoExplains ==
  ASSUME TypeOK,
         \/ WriteTextIndex \/ WriteTextAnnotated \/ WriteTextBranch \/ WriteTextCoverage
         \/ WriteTextSize \/ WriteTextSymbolSummary
         \/ WriteHtmlIndex \/ WriteHtmlAnnotated \/ WriteHtmlBranch \/ WriteHtmlCoverage
         \/ WriteHtmlSize \/ WriteHtmlSymbolSummary
         \/ WriteSummary
  PROVE  \/ explained' = explained /\ job # 9 /\ job # 10
         \/ job = 9 /\ ExplanationFiles(BranchPlaces)
         \/ job = 10 /\ ExplanationFiles(Places(ranges))
<1>1. \A name : Turn(name) => job \in 1 .. 13 /\ Jobs[job] = name
  BY JobNumbers
<1>2. /\ Jobs[9] = "branch.html" /\ Jobs[10] = "uncovered.html"
      /\ \A k \in 1 .. 13 : Jobs[k] = "branch.html" => k = 9
      /\ \A k \in 1 .. 13 : Jobs[k] = "uncovered.html" => k = 10
  BY DEF Jobs
<1>3. CASE WriteHtmlBranch
  <2>1. Turn("branch.html") /\ ExplanationFiles(BranchPlaces)
    BY <1>3 DEF WriteHtmlBranch
  <2>2. QED
    BY <1>1, <1>2, <2>1
<1>4. CASE WriteHtmlCoverage
  <2>1. Turn("uncovered.html") /\ ExplanationFiles(Places(ranges))
    BY <1>4 DEF WriteHtmlCoverage
  <2>2. QED
    BY <1>1, <1>2, <2>1
<1>5. CASE ~WriteHtmlBranch /\ ~WriteHtmlCoverage
  <2>1. explained' = explained
    BY <1>5 DEF WriteTextIndex, WriteTextAnnotated, WriteTextBranch, WriteTextCoverage,
           WriteTextSize, WriteTextSymbolSummary, WriteHtmlIndex, WriteHtmlAnnotated,
           WriteHtmlSize, WriteHtmlSymbolSummary, WriteSummary, written
  <2>2. PICK name \in {"index.txt", "annotated.txt", "branch.txt", "uncovered.txt", "sizes.txt",
                       "symbolSummary.txt", "index.html", "annotated.html", "sizes.html",
                       "symbolSummary.html", "summary.txt"} : Turn(name)
    BY <1>5 DEF WriteTextIndex, WriteTextAnnotated, WriteTextBranch, WriteTextCoverage,
           WriteTextSize, WriteTextSymbolSummary, WriteHtmlIndex, WriteHtmlAnnotated,
           WriteHtmlSize, WriteHtmlSymbolSummary, WriteSummary
  <2>3. job # 9 /\ job # 10
    BY <1>1, <1>2, <2>2
  <2>4. QED
    BY <2>1, <2>3
<1>6. QED
  BY <1>3, <1>4, <1>5

\* It holds from the start.
LEMMA InitExplained == ASSUME Init PROVE ExplainedInv
BY DEF Init, ExplainedInv

\* And every step keeps it.
LEMMA NextExplained ==
  ASSUME TypeInv, ContentInv, ExplainedInv, [Next]_vars
  PROVE  ExplainedInv'
<1>1. CASE UNCHANGED vars
  <2>1. UNCHANGED << in, explanations, ranges, branches, phase, explained, job, missed >>
    BY <1>1 DEF vars
  <2>2. QED
    BY <2>1, SteadyRight DEF ExplainedInv
<1>2. CASE ReadStep \/ ComputeUncovered \/ FindSourceForUncovered
  <2>1. phase \in {"explain", "compute", "source"} /\ job' = job
    BY <1>2 DEF ReadStep, ComputeUncovered, FindSourceForUncovered
  <2>2. job' = 1
    BY <2>1 DEF ContentInv
  <2>3. QED
    BY <2>2 DEF ExplainedInv
<1>3. CASE CannotOpen \/ OnlyNoRangeOpened
  BY <1>3 DEF CannotOpen, OnlyNoRangeOpened, ExplainedInv
<1>4. CASE WriteNotFound \/ NothingAsked
  <2>1. /\ phase = "report" /\ job' = job /\ explained' = explained
        /\ (phase' = "done" /\ missed' = missed) \/ phase' = "crashed"
        /\ UNCHANGED << in, explanations, ranges, branches >>
    BY <1>4 DEF WriteNotFound, NothingAsked, AllDone, reportInput, loading, scanned, written
  <2>2. QED
    BY <2>1, SteadyRight DEF ExplainedInv
<1>5. CASE Next /\ ~(ReadStep \/ ComputeUncovered \/ FindSourceForUncovered)
  <2>1. TypeOK /\ expect \in {"start", "classification", "explanation"}
    BY DEF TypeInv, TypeOK
  <2>2. \/ CannotOpen \/ OnlyNoRangeOpened
        \/ WriteTextIndex \/ WriteTextAnnotated \/ WriteTextBranch \/ WriteTextCoverage
        \/ WriteTextSize \/ WriteTextSymbolSummary
        \/ WriteHtmlIndex \/ WriteHtmlAnnotated \/ WriteHtmlBranch \/ WriteHtmlCoverage
        \/ WriteHtmlSize \/ WriteHtmlSymbolSummary
        \/ WriteSummary \/ WriteNotFound \/ NothingAsked
    BY <1>5, <2>1, ReadSteps DEF Next
  <2>3. SUFFICES ASSUME ~(CannotOpen \/ OnlyNoRangeOpened \/ WriteNotFound \/ NothingAsked)
                 PROVE  ExplainedInv'
    BY <1>3, <1>4
  <2>4. ContentStep
    BY <2>2, <2>3, ContentSteps
  <2>5. \/ explained' = explained /\ job # 9 /\ job # 10
        \/ job = 9 /\ ExplanationFiles(BranchPlaces)
        \/ job = 10 /\ ExplanationFiles(Places(ranges))
    BY <2>1, <2>2, <2>3, WhoExplains
  <2>6. QED
    BY <2>4, <2>5, ExplainedKept
<1>6. QED
  BY <1>1, <1>2, <1>5

ReportInv == TypeInv /\ ContentInv /\ ExplainedInv

\* The inductive invariant of the reports.
LEMMA ReportInvHolds == Spec => []ReportInv
<1>1. Init => ReportInv
  BY InitTypes, InitContent, InitExplained DEF ReportInv
<1>2. ReportInv /\ [Next]_vars => ReportInv'
  BY NextTypes, NextContent, NextExplained DEF ReportInv
<1>3. QED
  BY <1>1, <1>2, PTL DEF Spec

\* When everything is done, every explanation is found by its number.
LEMMA DoneExplained ==
  ASSUME ReportInv, Complete
  PROVE  Right(BranchPlaces, explained) /\ Right(Places(ranges), explained)
<1>1. phase = "done" /\ ~missed /\ job > 9 /\ job > 10
  BY DEF Complete, ReportInv, ContentInv, TypeInv, TypeOK, Jobs
<1>2. QED
  BY <1>1 DEF ReportInv, ExplainedInv
-----------------------------------------------------------------------------
(***************************************************************************)
(* Tables: how long they are, and what stands under a heading.             *)
(***************************************************************************)
\* A function of 1 .. n is a sequence of that length.
LEMMA LengthOf ==
  ASSUME NEW n \in Nat, NEW f, f = [k \in 1 .. n |-> f[k]]
  PROVE  Len(f) = n /\ DOMAIN f = 1 .. n
<1> DEFINE V == {f[k] : k \in 1 .. n}
<1>1. \A k \in 1 .. n : f[k] \in V
  OBVIOUS
<1> HIDE DEF V
<1>2. f \in [1 .. n -> V]
  BY <1>1
<1>3. f \in Seq(V)
  BY <1>2
<1>4. DOMAIN f = 1 .. n
  BY <1>2
<1>5. Len(f) \in Nat /\ DOMAIN f = 1 .. Len(f)
  BY <1>3
<1>6. QED
  BY <1>2, <1>3, <1>4, <1>5

\* Where a heading stands.
Column(columns, name) == CHOOSE c \in DOMAIN columns : columns[c] = name

\* There is but one such place.
LEMMA ColumnIs ==
  ASSUME NEW columns, NEW name, NEW c \in DOMAIN columns, columns[c] = name,
         \A d \in DOMAIN columns : columns[d] = name => d = c
  PROVE  Column(columns, name) = c
BY DEF Column

\* The headings of the branch report.
LEMMA BranchHeadings ==
  /\ Len(BranchColumns) = 9
  /\ Column(BranchColumns, "Symbol") = 1 /\ Column(BranchColumns, "Line") = 2
  /\ Column(BranchColumns, "Size") = 4 /\ Column(BranchColumns, "Reason") = 5
  /\ Column(BranchColumns, "Classification") = 8 /\ Column(BranchColumns, "Explanation") = 9
<1> DEFINE B == BranchColumns
<1>1. /\ Len(B) = 9 /\ DOMAIN B = 1 .. 9
      /\ B[1] = "Symbol" /\ B[2] = "Line" /\ B[3] = "File" /\ B[4] = "Size" /\ B[5] = "Reason"
      /\ B[6] = "Taken" /\ B[7] = "NotTaken" /\ B[8] = "Classification" /\ B[9] = "Explanation"
  BY DEF BranchColumns
<1> HIDE DEF B
<1>2. Column(B, "Symbol") = 1
  BY <1>1, ColumnIs
<1>3. Column(B, "Line") = 2
  BY <1>1, ColumnIs
<1>4. Column(B, "Size") = 4
  BY <1>1, ColumnIs
<1>5. Column(B, "Reason") = 5
  BY <1>1, ColumnIs
<1>6. Column(B, "Classification") = 8
  BY <1>1, ColumnIs
<1>7. Column(B, "Explanation") = 9
  BY <1>1, ColumnIs
<1>8. QED
  BY <1>1, <1>2, <1>3, <1>4, <1>5, <1>6, <1>7 DEF B

\* Those of the coverage report.
LEMMA CoverageHeadings ==
  /\ Len(CoverageColumns) = 7
  /\ Column(CoverageColumns, "Symbol") = 1 /\ Column(CoverageColumns, "Range") = 2
  /\ Column(CoverageColumns, "Size") = 4 /\ Column(CoverageColumns, "Instructions") = 5
  /\ Column(CoverageColumns, "Classification") = 6 /\ Column(CoverageColumns, "Explanation") = 7
  /\ Len(NoRangeColumns) = 1 /\ Column(NoRangeColumns, "Symbol") = 1
<1> DEFINE B == CoverageColumns
           N == NoRangeColumns
<1>1. /\ Len(B) = 7 /\ DOMAIN B = 1 .. 7
      /\ B[1] = "Symbol" /\ B[2] = "Range" /\ B[3] = "File" /\ B[4] = "Size"
      /\ B[5] = "Instructions" /\ B[6] = "Classification" /\ B[7] = "Explanation"
  BY DEF CoverageColumns
<1>2. Len(N) = 1 /\ DOMAIN N = 1 .. 1 /\ N[1] = "Symbol"
  BY DEF NoRangeColumns
<1> HIDE DEF B, N
<1>3. Column(B, "Symbol") = 1
  BY <1>1, ColumnIs
<1>4. Column(B, "Range") = 2
  BY <1>1, ColumnIs
<1>5. Column(B, "Size") = 4
  BY <1>1, ColumnIs
<1>6. Column(B, "Instructions") = 5
  BY <1>1, ColumnIs
<1>7. Column(B, "Classification") = 6
  BY <1>1, ColumnIs
<1>8. Column(B, "Explanation") = 7
  BY <1>1, ColumnIs
<1>9. Column(N, "Symbol") = 1
  BY <1>2, ColumnIs
<1>10. QED
  BY <1>1, <1>2, <1>3, <1>4, <1>5, <1>6, <1>7, <1>8, <1>9 DEF B, N

\* Those of the report of sizes.
LEMMA SizeHeadings ==
  /\ Len(SizeColumns) = 4
  /\ Column(SizeColumns, "Size") = 1 /\ Column(SizeColumns, "Symbol") = 2
  /\ Column(SizeColumns, "Line") = 3
<1> DEFINE B == SizeColumns
<1>1. /\ Len(B) = 4 /\ DOMAIN B = 1 .. 4
      /\ B[1] = "Size" /\ B[2] = "Symbol" /\ B[3] = "Line" /\ B[4] = "File"
  BY DEF SizeColumns
<1> HIDE DEF B
<1>2. Column(B, "Size") = 1
  BY <1>1, ColumnIs
<1>3. Column(B, "Symbol") = 2
  BY <1>1, ColumnIs
<1>4. Column(B, "Line") = 3
  BY <1>1, ColumnIs
<1>5. QED
  BY <1>1, <1>2, <1>3, <1>4 DEF B

\* Those of the summary of symbols.
LEMMA SymbolHeadings ==
  /\ Len(SymbolSummaryColumns) = 11
  /\ Column(SymbolSummaryColumns, "Symbol") = 1 /\ Column(SymbolSummaryColumns, "Bytes") = 2
  /\ Column(SymbolSummaryColumns, "Instr") = 3 /\ Column(SymbolSummaryColumns, "Branches") = 7
  /\ Column(SymbolSummaryColumns, "Always") = 8 /\ Column(SymbolSummaryColumns, "Never") = 9
  /\ Column(SymbolSummaryColumns, "PercentInstructions") = 10
  /\ Column(SymbolSummaryColumns, "PercentBytes") = 11
<1> DEFINE B == SymbolSummaryColumns
<1>1. /\ Len(B) = 11 /\ DOMAIN B = 1 .. 11
      /\ B[1] = "Symbol" /\ B[2] = "Bytes" /\ B[3] = "Instr" /\ B[4] = "Ranges"
      /\ B[5] = "UncoveredBytes" /\ B[6] = "UncoveredInstr" /\ B[7] = "Branches"
      /\ B[8] = "Always" /\ B[9] = "Never" /\ B[10] = "PercentInstructions" /\ B[11] = "PercentBytes"
  BY DEF SymbolSummaryColumns
<1> HIDE DEF B
<1>2. Column(B, "Symbol") = 1
  BY <1>1, ColumnIs
<1>3. Column(B, "Bytes") = 2
  BY <1>1, ColumnIs
<1>4. Column(B, "Instr") = 3
  BY <1>1, ColumnIs
<1>5. Column(B, "Branches") = 7
  BY <1>1, ColumnIs
<1>6. Column(B, "Always") = 8
  BY <1>1, ColumnIs
<1>7. Column(B, "Never") = 9
  BY <1>1, ColumnIs
<1>8. Column(B, "PercentInstructions") = 10
  BY <1>1, ColumnIs
<1>9. Column(B, "PercentBytes") = 11
  BY <1>1, ColumnIs
<1>10. QED
  BY <1>1, <1>2, <1>3, <1>4, <1>5, <1>6, <1>7, <1>8, <1>9 DEF B

\* What stands in a cell of a table.
LEMMA CellIs ==
  ASSUME NEW name, NEW k, NEW column
  PROVE  Cell(name, k, column) = files[name].rows[k][Column(files[name].columns, column)]
BY DEF Cell, Column
-----------------------------------------------------------------------------
(***************************************************************************)
(* The entries of the coverage report.                                     *)
(***************************************************************************)
EntryLists ==
  [i \in DOMAIN Symbols |->
     IF i \in Unreferenced
       THEN << [symbol |-> Symbols[i], listed |-> FALSE] >>
       ELSE [k \in DOMAIN ranges[i] |->
               [symbol |-> Symbols[i], listed |-> TRUE, range |-> ranges[i][k]]]]
RunCount(i)   == Cardinality(RunStarts(Symbols[i]))
EntryCount(i) == IF i \in Unreferenced THEN 1 ELSE RunCount(i)
RunAt(i, j)   == Place1(Symbols, i, Ranked(RunStarts(Symbols[i]), j))
Entry(i, j) ==
  IF i \in Unreferenced THEN [symbol |-> Symbols[i], listed |-> FALSE]
  ELSE [symbol |-> Symbols[i], listed |-> TRUE, range |-> RunAt(i, j)]
EntryAt(i, j) == At(Lens(EntryLists), i, j)

\* The ranges of one symbol while reports are written.
LEMMA RunFacts ==
  ASSUME Reporting, NEW i \in 1 .. Len(Symbols)
  PROVE  /\ i \in DOMAIN Symbols /\ Fit(Symbols[i]) /\ IdBase(Symbols, i) \in Nat
         /\ RunCount(i) \in Nat /\ Len(ranges[i]) = RunCount(i) /\ DOMAIN ranges[i] = 1 .. RunCount(i)
         /\ \A j \in 1 .. RunCount(i) : /\ Ranked(RunStarts(Symbols[i]), j) \in RunStarts(Symbols[i])
                                        /\ ranges[i][j] = RunAt(i, j)
         /\ \A b \in RunStarts(Symbols[i]) : \E j \in 1 .. RunCount(i) :
              Ranked(RunStarts(Symbols[i]), j) = b
<1> DEFINE T == RunsOf(Symbols)
<1>1. AllFit(Symbols) /\ Kind(Symbols, T) /\ ranges = Recs(Symbols, T) /\ DOMAIN Symbols = 1 .. Len(Symbols)
  BY PlacesFacts DEF Reporting, AllFit
<1>2. T[i] = RunStarts(Symbols[i])
  BY <1>1 DEF RunsOf
<1> HIDE DEF T
<1>3. /\ i \in DOMAIN Symbols /\ Fit(Symbols[i]) /\ IdBase(Symbols, i) \in Nat
      /\ Cardinality(T[i]) \in Nat
      /\ Len(ranges[i]) = Cardinality(T[i])
      /\ DOMAIN ranges[i] = 1 .. Cardinality(T[i])
      /\ \A j \in 1 .. Cardinality(T[i]) : /\ Ranked(T[i], j) \in T[i]
                                           /\ ranges[i][j] = Place1(Symbols, i, Ranked(T[i], j))
      /\ \A b \in T[i] : \E j \in 1 .. Cardinality(T[i]) : Ranked(T[i], j) = b
  BY <1>1, RecsFacts
<1>4. QED
  BY <1>2, <1>3 DEF RunCount, RunAt

\* Symbol by symbol, and by rank, or one entry for a symbol without a map.
LEMMA EntriesFacts ==
  ASSUME Reporting
  PROVE  LET n == Len(Symbols) IN
         /\ Len(Entries) \in Nat /\ DOMAIN Entries = 1 .. Len(Entries)
         /\ Sized(n, Lens(EntryLists)) /\ Len(Entries) = Before(Lens(EntryLists), n + 1)
         /\ \A i \in 1 .. n : EntryCount(i) \in Nat /\ Lens(EntryLists)[i] = EntryCount(i)
         /\ \A i \in 1 .. n : \A j \in 1 .. EntryCount(i) :
              EntryAt(i, j) \in 1 .. Len(Entries) /\ Entries[EntryAt(i, j)] = Entry(i, j)
         /\ \A x \in 1 .. Len(Entries) :
              \E i \in 1 .. n : \E j \in 1 .. EntryCount(i) : x = EntryAt(i, j)
<1> DEFINE n == Len(Symbols)
           ss == EntryLists
           V == UNION {{Entry(i, j) : j \in 1 .. EntryCount(i)} : i \in 1 .. n}
<1>1. n \in Nat \ {0} /\ DOMAIN Symbols = 1 .. n
  BY DEF Reporting, AllFit
<1>2. ASSUME NEW i \in 1 .. n
      PROVE  /\ ss[i] \in Seq(V) /\ Len(ss[i]) = EntryCount(i) /\ EntryCount(i) \in Nat
             /\ \A j \in 1 .. EntryCount(i) : ss[i][j] = Entry(i, j)
  <2> DEFINE m == EntryCount(i)
             F == [j \in 1 .. m |-> Entry(i, j)]
  <2>1. m \in Nat
    BY RunFacts DEF EntryCount
  <2>2. ss[i] = F
    <3>1. ss[i] = IF i \in Unreferenced
                    THEN << [symbol |-> Symbols[i], listed |-> FALSE] >>
                    ELSE [k \in DOMAIN ranges[i] |->
                            [symbol |-> Symbols[i], listed |-> TRUE, range |-> ranges[i][k]]]
      BY <1>1 DEF EntryLists
    <3>2. CASE i \in Unreferenced
      <4> DEFINE e == [symbol |-> Symbols[i], listed |-> FALSE]
      <4>1. m = 1 /\ \A j : Entry(i, j) = e
        BY <3>2 DEF EntryCount, Entry
      <4>2. ss[i] = << e >>
        BY <3>1, <3>2
      <4> HIDE DEF e, m, ss
      <4>3. << e >> = [j \in 1 .. 1 |-> e]
        OBVIOUS
      <4>4. QED
        BY <4>1, <4>2, <4>3
    <3>3. CASE i \notin Unreferenced
      <4>1. DOMAIN ranges[i] = 1 .. m /\ \A j \in 1 .. m : ranges[i][j] = RunAt(i, j)
        BY <3>3, RunFacts DEF EntryCount
      <4>2. ss[i] = [k \in DOMAIN ranges[i] |->
                       [symbol |-> Symbols[i], listed |-> TRUE, range |-> ranges[i][k]]]
        BY <3>1, <3>3
      <4>3. \A j : Entry(i, j) = [symbol |-> Symbols[i], listed |-> TRUE, range |-> RunAt(i, j)]
        BY <3>3 DEF Entry
      <4> HIDE DEF m, ss
      <4>4. QED
        BY <4>1, <4>2, <4>3
    <3>4. QED
      BY <3>2, <3>3
  <2>3. \A j \in 1 .. m : Entry(i, j) \in V
    OBVIOUS
  <2> HIDE DEF V, m, ss
  <2>4. F \in [1 .. m -> V]
    BY <2>3
  <2>5. F = [j \in 1 .. m |-> F[j]]
    OBVIOUS
  <2> HIDE DEF F
  <2>6. F \in Seq(V) /\ Len(F) = m
    BY <2>1, <2>4, <2>5, LengthOf
  <2>7. QED
    BY <2>1, <2>2, <2>6 DEF F, m
<1>3. Lists(n, ss, V)
  <2>1. ss = [i \in 1 .. n |-> ss[i]]
    BY <1>1 DEF EntryLists
  <2> HIDE DEF ss, V
  <2>2. QED
    BY <1>1, <1>2, <2>1 DEF Lists
<1>4. Entries = FlattenSeq(ss)
  BY DEF Entries, EntryLists
<1> HIDE DEF V, ss
<1>5. LET F == FlattenSeq(ss)
          len == Lens(ss)
      IN  /\ Len(F) = Before(len, n + 1) /\ Len(F) \in Nat /\ DOMAIN F = 1 .. Len(F)
          /\ \A i \in 1 .. n : \A j \in 1 .. Len(ss[i]) :
               At(len, i, j) \in 1 .. Len(F) /\ F[At(len, i, j)] = ss[i][j]
          /\ \A k \in 1 .. Len(F) :
               \E i \in 1 .. n : \E j \in 1 .. Len(ss[i]) : k = At(len, i, j)
  BY <1>3, FlattenFacts
<1>6. Sized(n, Lens(ss)) /\ \A i \in 1 .. n : Lens(ss)[i] = Len(ss[i])
  BY <1>3, ListsFacts
<1>7. \A i, j : EntryAt(i, j) = At(Lens(ss), i, j)
  BY DEF EntryAt, ss
<1>8. \A i \in 1 .. n : \A j \in 1 .. EntryCount(i) :
        EntryAt(i, j) \in 1 .. Len(Entries) /\ Entries[EntryAt(i, j)] = Entry(i, j)
  BY <1>2, <1>4, <1>5, <1>7
<1>9. \A x \in 1 .. Len(Entries) :
        \E i \in 1 .. n : \E j \in 1 .. EntryCount(i) : x = EntryAt(i, j)
  BY <1>2, <1>4, <1>5, <1>7
<1>10. \A i \in 1 .. n : EntryCount(i) \in Nat /\ Lens(EntryLists)[i] = EntryCount(i)
  BY <1>2, <1>6 DEF ss
<1>11. /\ Len(Entries) \in Nat /\ DOMAIN Entries = 1 .. Len(Entries)
       /\ Sized(n, Lens(EntryLists)) /\ Len(Entries) = Before(Lens(EntryLists), n + 1)
  BY <1>4, <1>5, <1>6 DEF ss
<1>12. QED
  BY <1>8, <1>9, <1>10, <1>11

\* Each is one of a place, or of no place at all.
LEMMA EntryKinds ==
  ASSUME Reporting, NEW k \in DOMAIN Entries
  PROVE  \E i \in 1 .. Len(Symbols) :
           /\ Entries[k].symbol = Symbols[i]
           /\ \/ i \in Unreferenced /\ Entries[k].listed = FALSE
              \/ /\ i \notin Unreferenced /\ Entries[k].listed = TRUE
                 /\ \E b \in RunStarts(Symbols[i]) : /\ Entries[k].range = Place1(Symbols, i, b)
                                                     /\ Spot(Symbols, i, b) \in ToSet(Places(ranges))
<1>1. k \in 1 .. Len(Entries)
  BY EntriesFacts
<1>2. PICK i \in 1 .. Len(Symbols) : \E j \in 1 .. EntryCount(i) : k = EntryAt(i, j)
  BY <1>1, EntriesFacts
<1>3. PICK j \in 1 .. EntryCount(i) : k = EntryAt(i, j)
  BY <1>2
<1>4. Entries[k] = Entry(i, j)
  BY <1>3, EntriesFacts
<1>5. CASE i \in Unreferenced
  BY <1>4, <1>5 DEF Entry
<1>6. CASE i \notin Unreferenced
  <2> DEFINE b == Ranked(RunStarts(Symbols[i]), j)
  <2>1. j \in 1 .. RunCount(i)
    BY <1>6 DEF EntryCount
  <2>2. b \in RunStarts(Symbols[i])
    BY <2>1, RunFacts
  <2>3. Spot(Symbols, i, b) \in ToSet(Places(ranges))
    <3>1. /\ AllFit(Symbols) /\ Kind(Symbols, RunsOf(Symbols)) /\ i \in DOMAIN Symbols
          /\ Places(ranges) = FlattenSeq(SpotLists(Symbols, RunsOf(Symbols)))
      BY PlacesFacts, RunFacts
    <3>2. b \in RunsOf(Symbols)[i]
      BY <2>2, <3>1 DEF RunsOf
    <3> HIDE DEF b
    <3>3. QED
      BY <3>1, <3>2, SpotSet
  <2>4. /\ Entries[k].symbol = Symbols[i] /\ Entries[k].listed = TRUE
        /\ Entries[k].range = Place1(Symbols, i, b)
    BY <1>4, <1>6 DEF Entry, RunAt
  <2> HIDE DEF b
  <2>5. QED
    BY <1>6, <2>2, <2>3, <2>4
<1>7. QED
  BY <1>5, <1>6
-----------------------------------------------------------------------------
(***************************************************************************)
(* The two editions of each report.                                        *)
(***************************************************************************)
\* Numbers start at 1.
LEMMA IdsPositive ==
  ASSUME NEW ss, AllFit(ss), NEW i \in 1 .. Len(ss), NEW b \in Starts(ss[i])
  PROVE  Place1(ss, i, b).id \in Nat /\ Place1(ss, i, b).id # 0
<1>1. Fit(ss[i]) /\ IdBase(ss, i) \in Nat
  BY BasesFacts DEF AllFit
<1>2. Rank(Starts(ss[i]), b) \in 1 .. IdsOf(ss[i]) /\ IdsOf(ss[i]) \in Nat
  BY <1>1, StartsFacts, RankFacts, FS_CardinalityType DEF IdsOf
<1>3. Place1(ss, i, b).id = IdBase(ss, i) + Rank(Starts(ss[i]), b)
  BY <1>1, FullFacts DEF Place1
<1>4. QED
  BY <1>1, <1>2, <1>3

\* The branches the report goes through.
LEMMA BranchPlacesFacts ==
  ASSUME Reporting
  PROVE  /\ Len(BranchPlaces) \in Nat /\ DOMAIN BranchPlaces = 1 .. Len(BranchPlaces)
         /\ \A k \in DOMAIN BranchPlaces :
              /\ HasBranches
              /\ BranchPlaces[k] \in ToSet(BranchPlaces)
              /\ \E i \in 1 .. Len(Symbols) : \E b \in OneWay(Symbols[i]) :
                   BranchPlaces[k] = Spot(Symbols, i, b)
<1> DEFINE ss == Symbols
           T == WaysOf(ss)
           P == FlattenSeq(SpotLists(ss, T))
<1>1. /\ AllFit(ss) /\ Kind(ss, T) /\ DOMAIN ss = 1 .. Len(ss) /\ Places(branches) = P
  BY PlacesFacts DEF AllFit
<1>2. CASE ~HasBranches
  BY <1>2 DEF BranchPlaces
<1>3. CASE HasBranches
  <2>1. BranchPlaces = P
    BY <1>1, <1>3 DEF BranchPlaces
  <2> HIDE DEF T
  <2>2. Len(P) \in Nat /\ DOMAIN P = 1 .. Len(P)
    BY <1>1, SpotFacts
  <2>3. \A p \in ToSet(P) : \E i \in 1 .. Len(ss) : \E b \in T[i] : p = Spot(ss, i, b)
    BY <1>1, SpotSet
  <2>4. \A i \in 1 .. Len(ss) : T[i] = OneWay(ss[i])
    BY <1>1 DEF T, WaysOf
  <2>5. \A k \in DOMAIN P : P[k] \in ToSet(P)
    BY DEF ToSet
  <2> HIDE DEF P, ss
  <2>6. \A k \in DOMAIN P : \E i \in 1 .. Len(ss) : \E b \in OneWay(ss[i]) : P[k] = Spot(ss, i, b)
    BY <2>3, <2>4, <2>5
  <2>7. QED
    BY <1>3, <2>1, <2>2, <2>5, <2>6 DEF ss
<1>4. QED
  BY <1>2, <1>3

\* The ranges the report of sizes goes through.
LEMMA RangePlacesFacts ==
  ASSUME Reporting
  PROVE  Len(Places(ranges)) \in Nat /\ DOMAIN Places(ranges) = 1 .. Len(Places(ranges))
<1> DEFINE T == RunsOf(Symbols)
<1>1. AllFit(Symbols) /\ Kind(Symbols, T) /\ Places(ranges) = FlattenSeq(SpotLists(Symbols, T))
  BY PlacesFacts
<1> HIDE DEF T
<1>2. QED
  BY <1>1, SpotFacts

\* An explanation read through its link.
LEMMA LinkedText ==
  ASSUME Reporting, NEW P, Right(P, explained), NEW p \in ToSet(P),
         p.range.id # 0
  PROVE  Explained(ExplanationLink(p.range)) = ExplanationText(p.range)
BY DEF Right, Explained, ExplanationLink, ExplanationText

\* A table of as many rows as another.
LEMMA SameRows ==
  ASSUME NEW n \in Nat, NEW f, f = [k \in 1 .. n |-> f[k]], NEW g, g = [k \in 1 .. n |-> g[k]],
         NEW m, \A k \in 1 .. n : Len(g[k]) = m
  PROVE  Len(f) = Len(g) /\ DOMAIN f = 1 .. n /\ \A k \in DOMAIN f : Len(g[k]) = m
BY LengthOf

\* The branch report.
LEMMA BranchEditions ==
  ASSUME ReportInv, Complete
  PROVE  /\ SameTable("branch.txt", "branch.html")
         /\ \A k \in DOMAIN Rows("branch.txt") : BranchAgrees(k)
<1> DEFINE P == BranchPlaces
           n == Len(P)
           f == files["branch.txt"].rows
           g == files["branch.html"].rows
<1>1. /\ Reporting /\ files["branch.txt"] = BranchTxt /\ files["branch.html"] = BranchHtml
  BY DoneFiles DEF ReportInv
<1>2. Right(P, explained)
  BY DoneExplained
<1>3. n \in Nat /\ DOMAIN P = 1 .. n
  BY <1>1, BranchPlacesFacts
<1>4. /\ f = [k \in 1 .. n |-> TextBranchEntry(P[k])]
      /\ g = [k \in 1 .. n |-> HtmlBranchEntry(P[k])]
      /\ files["branch.txt"].remark = files["branch.html"].remark
      /\ HasBranches => files["branch.html"].columns = BranchColumns
  BY <1>1, <1>3 DEF BranchTxt, BranchHtml
<1>5. ASSUME NEW k \in 1 .. n
      PROVE  /\ Len(g[k]) = 9
             /\ HasBranches
             /\ f[k] = [symbol |-> g[k][1], line |-> g[k][2][2], size |-> g[k][4],
                        reason |-> g[k][5], class |-> g[k][8], text |-> Explained(g[k][9])]
  <2> DEFINE p == P[k]
             r == p.range
             w == p.symbol.went[r.low - p.symbol.base]
  <2>1. /\ HasBranches /\ p \in ToSet(P)
        /\ \E i \in 1 .. Len(Symbols) : \E b \in OneWay(Symbols[i]) : p = Spot(Symbols, i, b)
    BY <1>1, <1>3, BranchPlacesFacts
  <2>2. PICK i \in 1 .. Len(Symbols) : \E b \in OneWay(Symbols[i]) : p = Spot(Symbols, i, b)
    BY <2>1
  <2>3. PICK b \in OneWay(Symbols[i]) : p = Spot(Symbols, i, b)
    BY <2>2
  <2>4. r.id # 0 /\ r.reason # "notExecuted"
    <3>1. AllFit(Symbols) /\ Fit(Symbols[i]) /\ b \in Starts(Symbols[i])
      BY <1>1 DEF Reporting, AllFit, Starts
    <3>2. IdBase(Symbols, i) \in Nat
      BY <3>1, BasesFacts
    <3>3. Place1(Symbols, i, b).id # 0
      BY <3>1, IdsPositive
    <3>4. Place1(Symbols, i, b).reason # "notExecuted"
      BY <3>1, <3>2, FullFacts DEF Place1
    <3>5. r = Place1(Symbols, i, b)
      BY <2>3 DEF Spot
    <3>6. QED
      BY <3>3, <3>4, <3>5
  <2>5. Explained(ExplanationLink(r)) = ExplanationText(r)
    BY <1>1, <1>2, <2>1, <2>4, LinkedText
  <2>6. g[k] = << p.symbol.name, Link(r), FileOf[r.lowLine], SizeOf(r), r.reason,
                  w.taken, w.notTaken, Classification(r), ExplanationLink(r) >>
    BY <1>4, <2>4 DEF HtmlBranchEntry
  <2>7. f[k] = [symbol |-> p.symbol.name, line |-> r.lowLine, size |-> SizeOf(r),
                reason |-> r.reason, class |-> Classification(r), text |-> ExplanationText(r)]
    BY <1>4 DEF TextBranchEntry
  <2>8. Link(r)[2] = r.lowLine
    BY DEF Link
  <2> HIDE DEF p, r, w, f, g
  <2>9. Len(g[k]) = 9 /\ g[k][1] = p.symbol.name /\ g[k][2] = Link(r) /\ g[k][4] = SizeOf(r)
        /\ g[k][5] = r.reason /\ g[k][8] = Classification(r) /\ g[k][9] = ExplanationLink(r)
    BY <2>6
  <2>10. QED
    BY <2>1, <2>5, <2>7, <2>8, <2>9
<1> HIDE DEF f, g, n, P
<1>6. f = [k \in 1 .. n |-> f[k]] /\ g = [k \in 1 .. n |-> g[k]]
  BY <1>4
<1>7. Len(f) = Len(g) /\ DOMAIN f = 1 .. n /\ \A k \in DOMAIN f : Len(g[k]) = 9
  BY <1>3, <1>5, <1>6, SameRows
<1>8. SameTable("branch.txt", "branch.html")
  <2>1. Rows("branch.txt") = f /\ Rows("branch.html") = g
    BY DEF Rows, f, g
  <2>2. \A k \in DOMAIN f : Len(files["branch.html"].columns) = 9
    BY <1>4, <1>5, <1>7, BranchHeadings
  <2>3. QED
    BY <1>4, <1>7, <2>1, <2>2 DEF SameTable
<1>9. ASSUME NEW k \in DOMAIN f PROVE BranchAgrees(k)
  <2>1. /\ HasBranches
        /\ f[k] = [symbol |-> g[k][1], line |-> g[k][2][2], size |-> g[k][4],
                   reason |-> g[k][5], class |-> g[k][8], text |-> Explained(g[k][9])]
    BY <1>5, <1>7, <1>9
  <2>2. files["branch.html"].columns = BranchColumns
    BY <1>4, <2>1
  <2>3. \A c : Cell("branch.html", k, c) = g[k][Column(BranchColumns, c)]
    BY <2>2, CellIs DEF g
  <2>4. /\ Cell("branch.html", k, "Symbol") = g[k][1] /\ Cell("branch.html", k, "Line") = g[k][2]
        /\ Cell("branch.html", k, "Size") = g[k][4] /\ Cell("branch.html", k, "Reason") = g[k][5]
        /\ Cell("branch.html", k, "Classification") = g[k][8]
        /\ Cell("branch.html", k, "Explanation") = g[k][9]
    BY <2>3, BranchHeadings
  <2>5. Rows("branch.txt")[k] = f[k]
    BY DEF Rows, f
  <2>6. QED
    BY <2>1, <2>4, <2>5 DEF BranchAgrees
<1>10. QED
  BY <1>8, <1>9 DEF Rows, f

\* The coverage report.
LEMMA CoverageEditions ==
  ASSUME ReportInv, Complete
  PROVE  /\ SameTable("uncovered.txt", "uncovered.html")
         /\ \A k \in DOMAIN Rows("uncovered.txt") : CoverageAgrees(k)
<1> DEFINE P == Entries
           n == Len(P)
           f == files["uncovered.txt"].rows
           g == files["uncovered.html"].rows
<1>1. /\ Reporting /\ files["uncovered.txt"] = CoverageTxt /\ files["uncovered.html"] = CoverageHtml
  BY DoneFiles DEF ReportInv
<1>2. Right(Places(ranges), explained)
  BY DoneExplained
<1>3. n \in Nat /\ DOMAIN P = 1 .. n
  BY <1>1, EntriesFacts
<1>4. /\ f = [k \in 1 .. n |-> TextCoverageLine(P[k])]
      /\ g = [k \in 1 .. n |-> HtmlCoverageLine(P[k])]
      /\ files["uncovered.txt"].remark = files["uncovered.html"].remark
      /\ files["uncovered.html"].columns = CoverageColumns
  BY <1>1, <1>3 DEF CoverageTxt, CoverageHtml, Table
<1>5. ASSUME NEW k \in 1 .. n
      PROVE  /\ Len(g[k]) = 7
             /\ IF f[k].index = 0
                  THEN f[k].symbol = g[k][1] /\ g[k][2][1] = 0
                  ELSE f[k] = [symbol |-> g[k][1], index |-> g[k][2][1], low |-> g[k][2][2],
                               high |-> g[k][2][3], size |-> g[k][4], count |-> g[k][5],
                               class |-> g[k][6], text |-> Explained(g[k][7])]
  <2> DEFINE e == P[k]
             r == e.range
  <2>1. f[k] = TextCoverageLine(e) /\ g[k] = HtmlCoverageLine(e)
    BY <1>4
  <2>2. PICK i \in 1 .. Len(Symbols) :
          /\ e.symbol = Symbols[i]
          /\ \/ i \in Unreferenced /\ e.listed = FALSE
             \/ /\ i \notin Unreferenced /\ e.listed = TRUE
                /\ \E b \in RunStarts(Symbols[i]) : /\ r = Place1(Symbols, i, b)
                                                    /\ Spot(Symbols, i, b) \in ToSet(Places(ranges))
    BY <1>1, <1>3, EntryKinds
  <2>3. CASE e.listed = FALSE
    <3> DEFINE u == << 0, "unknown" >>
    <3>1. /\ f[k] = [symbol |-> e.symbol.name, index |-> 0]
          /\ g[k] = << e.symbol.name, u, "unknown", "unknown", "unknown", "Unknown", 0 >>
      BY <2>1, <2>3 DEF TextCoverageLine, HtmlCoverageLine, TextNoRange
    <3>2. u[1] = 0
      OBVIOUS
    <3> HIDE DEF e, f, g, u
    <3>3. Len(g[k]) = 7 /\ g[k][1] = e.symbol.name /\ g[k][2] = u
      BY <3>1
    <3>4. f[k].index = 0 /\ f[k].symbol = e.symbol.name
      BY <3>1
    <3>5. QED
      BY <3>2, <3>3, <3>4
  <2>4. CASE e.listed = TRUE
    <3>1. PICK b \in RunStarts(Symbols[i]) : /\ r = Place1(Symbols, i, b)
                                             /\ Spot(Symbols, i, b) \in ToSet(Places(ranges))
      BY <2>2, <2>4
    <3>2. r.id # 0
      <4>1. AllFit(Symbols) /\ b \in Starts(Symbols[i])
        BY <1>1 DEF Reporting, Starts
      <4>2. Place1(Symbols, i, b).id # 0
        BY <4>1, IdsPositive
      <4>3. QED
        BY <3>1, <4>2
    <3>3. Explained(ExplanationLink(r)) = ExplanationText(r)
      <4> DEFINE p == Spot(Symbols, i, b)
      <4>1. p.range = r /\ p \in ToSet(Places(ranges))
        BY <3>1 DEF Spot
      <4> HIDE DEF p, r
      <4>2. Explained(ExplanationLink(p.range)) = ExplanationText(p.range)
        BY <1>1, <1>2, <3>2, <4>1, LinkedText
      <4>3. QED
        BY <4>1, <4>2
    <3> DEFINE u == << r.id, r.lowLine, r.highLine >>
    <3>4. /\ f[k] = [symbol |-> e.symbol.name, index |-> r.id, low |-> r.lowLine,
                     high |-> r.highLine, size |-> SizeOf(r), count |-> r.count,
                     class |-> Classification(r), text |-> ExplanationText(r)]
          /\ g[k] = << e.symbol.name, u, FileOf[r.lowLine], SizeOf(r), r.count,
                       Classification(r), ExplanationLink(r) >>
      BY <2>1, <2>4 DEF TextCoverageLine, HtmlCoverageLine
    <3>5. u[1] = r.id /\ u[2] = r.lowLine /\ u[3] = r.highLine
      OBVIOUS
    <3> HIDE DEF e, r, f, g, u
    <3>6. /\ Len(g[k]) = 7 /\ g[k][1] = e.symbol.name /\ g[k][2] = u /\ g[k][4] = SizeOf(r)
          /\ g[k][5] = r.count /\ g[k][6] = Classification(r) /\ g[k][7] = ExplanationLink(r)
      BY <3>4
    <3>7. f[k].index = r.id
      BY <3>4
    <3>8. QED
      BY <3>2, <3>3, <3>4, <3>5, <3>6, <3>7
  <2>5. QED
    BY <2>2, <2>3, <2>4
<1> HIDE DEF f, g, n, P
<1>6. f = [k \in 1 .. n |-> f[k]] /\ g = [k \in 1 .. n |-> g[k]]
  BY <1>4
<1>7. Len(f) = Len(g) /\ DOMAIN f = 1 .. n /\ \A k \in DOMAIN f : Len(g[k]) = 7
  BY <1>3, <1>5, <1>6, SameRows
<1>8. SameTable("uncovered.txt", "uncovered.html")
  <2>1. Rows("uncovered.txt") = f /\ Rows("uncovered.html") = g
    BY DEF Rows, f, g
  <2>2. QED
    BY <1>4, <1>7, <2>1, CoverageHeadings DEF SameTable
<1>9. ASSUME NEW k \in DOMAIN f PROVE CoverageAgrees(k)
  <2>1. IF f[k].index = 0
          THEN f[k].symbol = g[k][1] /\ g[k][2][1] = 0
          ELSE f[k] = [symbol |-> g[k][1], index |-> g[k][2][1], low |-> g[k][2][2],
                       high |-> g[k][2][3], size |-> g[k][4], count |-> g[k][5],
                       class |-> g[k][6], text |-> Explained(g[k][7])]
    BY <1>5, <1>7, <1>9
  <2>2. \A c : Cell("uncovered.html", k, c) = g[k][Column(CoverageColumns, c)]
    BY <1>4, CellIs DEF g
  <2>3. /\ Cell("uncovered.html", k, "Symbol") = g[k][1] /\ Cell("uncovered.html", k, "Range") = g[k][2]
        /\ Cell("uncovered.html", k, "Size") = g[k][4]
        /\ Cell("uncovered.html", k, "Instructions") = g[k][5]
        /\ Cell("uncovered.html", k, "Classification") = g[k][6]
        /\ Cell("uncovered.html", k, "Explanation") = g[k][7]
    BY <2>2, CoverageHeadings
  <2>4. Rows("uncovered.txt")[k] = f[k]
    BY DEF Rows, f
  <2>5. QED
    BY <2>1, <2>3, <2>4 DEF CoverageAgrees
<1>10. QED
  BY <1>8, <1>9 DEF Rows, f

\* The list of symbols no executable held.
LEMMA NoRangeEditions ==
  ASSUME ReportInv, Complete
  PROVE  /\ SameTable("no_range_uncovered.txt", "no_range_uncovered.html")
         /\ \A k \in DOMAIN Rows("no_range_uncovered.txt") : NoRangeAgrees(k)
<1> DEFINE N == NoRangeNames
           n == Cardinality(Unreferenced)
           f == files["no_range_uncovered.txt"].rows
           g == files["no_range_uncovered.html"].rows
<1>1. /\ Reporting /\ files["no_range_uncovered.txt"] = NoRangeTxt
      /\ files["no_range_uncovered.html"] = NoRangeHtml
  BY DoneFiles DEF ReportInv
<1>2. n \in Nat /\ DOMAIN N = 1 .. n
  <2>1. DOMAIN Symbols = 1 .. Len(Symbols) /\ Len(Symbols) \in Int
    BY <1>1 DEF Reporting, AllFit
  <2>2. IsFiniteSet(DOMAIN Symbols)
    <3>1. 1 \in Int
      OBVIOUS
    <3>2. IsFiniteSet(1 .. Len(Symbols))
      BY <2>1, <3>1, FS_Interval
    <3>3. QED
      BY <2>1, <3>2
  <2>3. IsFiniteSet(Unreferenced)
    BY <2>2, FS_Subset DEF Unreferenced
  <2>4. n \in Nat
    BY <2>3, FS_CardinalityType
  <2>5. QED
    BY <2>4 DEF NoRangeNames
<1>3. /\ f = [k \in 1 .. n |-> TextNoRange(N[k])] /\ g = [k \in 1 .. n |-> << N[k] >>]
      /\ files["no_range_uncovered.txt"].remark = files["no_range_uncovered.html"].remark
      /\ files["no_range_uncovered.html"].columns = NoRangeColumns
  BY <1>1, <1>2 DEF NoRangeTxt, NoRangeHtml, Table
<1> HIDE DEF N, n, f, g
<1>4. ASSUME NEW k \in 1 .. n PROVE Len(g[k]) = 1 /\ g[k][1] = N[k] /\ f[k].symbol = N[k]
  BY <1>3 DEF TextNoRange
<1>5. f = [k \in 1 .. n |-> f[k]] /\ g = [k \in 1 .. n |-> g[k]]
  BY <1>3
<1>6. Len(f) = Len(g) /\ DOMAIN f = 1 .. n /\ \A k \in DOMAIN f : Len(g[k]) = 1
  BY <1>2, <1>4, <1>5, SameRows
<1>7. SameTable("no_range_uncovered.txt", "no_range_uncovered.html")
  <2>1. Rows("no_range_uncovered.txt") = f /\ Rows("no_range_uncovered.html") = g
    BY DEF Rows, f, g
  <2>2. QED
    BY <1>3, <1>6, <2>1, CoverageHeadings DEF SameTable
<1>8. ASSUME NEW k \in DOMAIN f PROVE NoRangeAgrees(k)
  <2>1. Cell("no_range_uncovered.html", k, "Symbol") = g[k][1]
    BY <1>3, CellIs, CoverageHeadings DEF g
  <2>2. Rows("no_range_uncovered.txt")[k] = f[k]
    BY DEF Rows, f
  <2>3. QED
    BY <1>4, <1>6, <1>8, <2>1, <2>2 DEF NoRangeAgrees
<1>9. QED
  BY <1>7, <1>8 DEF Rows, f

\* The report of sizes.
LEMMA SizeEditions ==
  ASSUME ReportInv, Complete
  PROVE  /\ SameTable("sizes.txt", "sizes.html")
         /\ \A k \in DOMAIN Rows("sizes.txt") : SizesAgree(k)
<1> DEFINE P == Places(ranges)
           n == Len(P)
           f == files["sizes.txt"].rows
           g == files["sizes.html"].rows
<1>1. /\ Reporting /\ files["sizes.txt"] = SizesTxt /\ files["sizes.html"] = SizesHtml
  BY DoneFiles DEF ReportInv
<1>2. n \in Nat /\ DOMAIN P = 1 .. n
  BY <1>1, RangePlacesFacts
<1>3. /\ f = [k \in 1 .. n |-> TextSizeLine(P[k])] /\ g = [k \in 1 .. n |-> HtmlSizeLine(P[k])]
      /\ files["sizes.txt"].remark = files["sizes.html"].remark
      /\ files["sizes.html"].columns = SizeColumns
  BY <1>1, <1>2 DEF SizesTxt, SizesHtml, Table
<1> HIDE DEF P, n, f, g
<1>4. ASSUME NEW k \in 1 .. n PROVE Len(g[k]) = 4 /\ f[k] = << g[k][1], g[k][2], g[k][3][2] >>
  <2>1. Link(P[k].range)[2] = P[k].range.lowLine
    BY DEF Link
  <2>2. /\ f[k] = << SizeOf(P[k].range), P[k].symbol.name, P[k].range.lowLine >>
        /\ g[k] = << SizeOf(P[k].range), P[k].symbol.name, Link(P[k].range),
                     FileOf[P[k].range.lowLine] >>
    BY <1>3 DEF TextSizeLine, HtmlSizeLine
  <2>3. Len(g[k]) = 4 /\ g[k][1] = SizeOf(P[k].range) /\ g[k][2] = P[k].symbol.name
        /\ g[k][3] = Link(P[k].range)
    BY <2>2
  <2>4. QED
    BY <2>1, <2>2, <2>3
<1>5. f = [k \in 1 .. n |-> f[k]] /\ g = [k \in 1 .. n |-> g[k]]
  BY <1>3
<1>6. Len(f) = Len(g) /\ DOMAIN f = 1 .. n /\ \A k \in DOMAIN f : Len(g[k]) = 4
  BY <1>2, <1>4, <1>5, SameRows
<1>7. SameTable("sizes.txt", "sizes.html")
  <2>1. Rows("sizes.txt") = f /\ Rows("sizes.html") = g
    BY DEF Rows, f, g
  <2>2. QED
    BY <1>3, <1>6, <2>1, SizeHeadings DEF SameTable
<1>8. ASSUME NEW k \in DOMAIN f PROVE SizesAgree(k)
  <2>1. \A c : Cell("sizes.html", k, c) = g[k][Column(SizeColumns, c)]
    BY <1>3, CellIs DEF g
  <2>2. /\ Cell("sizes.html", k, "Size") = g[k][1] /\ Cell("sizes.html", k, "Symbol") = g[k][2]
        /\ Cell("sizes.html", k, "Line") = g[k][3]
    BY <2>1, SizeHeadings
  <2>3. Rows("sizes.txt")[k] = f[k]
    BY DEF Rows, f
  <2>4. QED
    BY <1>4, <1>6, <1>8, <2>2, <2>3 DEF SizesAgree
<1>9. QED
  BY <1>7, <1>8 DEF Rows, f

\* The percentages of one symbol, which both editions take of the same numbers.
LEMMA PercentsAgree ==
  ASSUME NEW s, Fit(s), NEW u, NEW v
  PROVE  LET d == Cardinality(s.start)
             Of(p) == IF s.size = 0 THEN 0 ELSE p
         IN  /\ Percent(u, d, 0) = Of(Percent(u, d, 100))
             /\ Percent(v, s.size, 0) = Of(Percent(v, s.size, 100))
<1> DEFINE d == Cardinality(s.start)
<1>1. s.size \in Nat /\ s.start \subseteq Bytes(s) /\ IsFiniteSet(s.start)
  BY SymbolFacts
<1>2. CASE s.size = 0
  <2>1. Bytes(s) = {}
    BY <1>2 DEF Bytes
  <2>2. d = 0
    BY <1>1, <2>1, FS_EmptySet
  <2>3. QED
    BY <1>2, <2>2 DEF Percent
<1>3. CASE s.size # 0
  <2>1. 0 \in s.start
    BY <1>1, <1>3 DEF Fit, SameCode
  <2>2. d # 0
    BY <1>1, <2>1, FS_EmptySet
  <2>3. QED
    BY <1>3, <2>2 DEF Percent
<1>4. QED
  BY <1>2, <1>3

\* The summary of symbols.
LEMMA SymbolEditions ==
  ASSUME ReportInv, Complete
  PROVE  /\ SameTable("symbolSummary.txt", "symbolSummary.html")
         /\ \A k \in DOMAIN Rows("symbolSummary.txt") : SymbolsAgree(k)
<1> DEFINE n == Len(Symbols)
           f == files["symbolSummary.txt"].rows
           g == files["symbolSummary.html"].rows
<1>1. /\ Reporting /\ files["symbolSummary.txt"] = SymbolsTxt
      /\ files["symbolSummary.html"] = SymbolsHtml
  BY DoneFiles DEF ReportInv
<1>2. n \in Nat /\ DOMAIN Symbols = 1 .. n /\ \A k \in 1 .. n : Fit(Symbols[k])
  BY <1>1 DEF Reporting, AllFit
<1>3. /\ f = [k \in 1 .. n |-> TextSymbolSummaryLine(k)]
      /\ g = [k \in 1 .. n |-> HtmlSymbolSummaryLine(k)]
      /\ files["symbolSummary.txt"].remark = files["symbolSummary.html"].remark
      /\ files["symbolSummary.html"].columns = SymbolSummaryColumns
  BY <1>1, <1>2 DEF SymbolsTxt, SymbolsHtml, Table
<1> HIDE DEF f, g
<1>4. ASSUME NEW k \in 1 .. n
      PROVE  LET Of(p) == IF f[k].bytes = 0 THEN 0 ELSE p IN
             /\ Len(g[k]) = 11
             /\ f[k] = [symbol |-> g[k][1], bytes |-> g[k][2], instructions |-> g[k][3],
                        branches |-> g[k][7], always |-> g[k][8], never |-> g[k][9],
                        perInstructions |-> Of(g[k][10]), perBytes |-> Of(g[k][11])]
  <2> DEFINE t == Statistics(k)
             Of(p) == IF f[k].bytes = 0 THEN 0 ELSE p
  <2>1. t.bytes = Symbols[k].size /\ t.instructions = Cardinality(Symbols[k].start)
    BY DEF Statistics
  <2> HIDE DEF t
  <2>2. /\ f[k] = [symbol |-> Symbols[k].name, bytes |-> t.bytes, instructions |-> t.instructions,
                   branches |-> t.branches, always |-> t.always, never |-> t.never,
                   perInstructions |-> Percent(t.uncoveredInstructions, t.instructions, 0),
                   perBytes |-> Percent(t.uncoveredBytes, t.bytes, 0)]
        /\ g[k] = << Symbols[k].name, t.bytes, t.instructions, t.ranges, t.uncoveredBytes,
                     t.uncoveredInstructions, t.branches, t.always, t.never,
                     Percent(t.uncoveredInstructions, t.instructions, 100),
                     Percent(t.uncoveredBytes, t.bytes, 100) >>
    BY <1>3 DEF TextSymbolSummaryLine, HtmlSymbolSummaryLine, t
  <2> DEFINE P0 == Percent(t.uncoveredInstructions, t.instructions, 0)
             P1 == Percent(t.uncoveredInstructions, t.instructions, 100)
             Q0 == Percent(t.uncoveredBytes, t.bytes, 0)
             Q1 == Percent(t.uncoveredBytes, t.bytes, 100)
  <2>3. f[k].bytes = t.bytes
    BY <2>2
  <2>4. P0 = Of(P1) /\ Q0 = Of(Q1)
    BY <1>2, <2>1, <2>3, PercentsAgree, SMTT(30)
  <2> HIDE DEF P0, P1, Q0, Q1
  <2>5. /\ f[k] = [symbol |-> Symbols[k].name, bytes |-> t.bytes, instructions |-> t.instructions,
                   branches |-> t.branches, always |-> t.always, never |-> t.never,
                   perInstructions |-> P0, perBytes |-> Q0]
        /\ g[k] = << Symbols[k].name, t.bytes, t.instructions, t.ranges, t.uncoveredBytes,
                     t.uncoveredInstructions, t.branches, t.always, t.never, P1, Q1 >>
    BY <2>2 DEF P0, P1, Q0, Q1
  <2>6. /\ Len(g[k]) = 11 /\ g[k][1] = Symbols[k].name /\ g[k][2] = t.bytes
        /\ g[k][3] = t.instructions /\ g[k][7] = t.branches /\ g[k][8] = t.always
        /\ g[k][9] = t.never /\ g[k][10] = P1 /\ g[k][11] = Q1
    BY <2>5
  <2>7. QED
    BY <2>4, <2>5, <2>6
<1>5. f = [k \in 1 .. n |-> f[k]] /\ g = [k \in 1 .. n |-> g[k]]
  BY <1>3
<1>6. Len(f) = Len(g) /\ DOMAIN f = 1 .. n /\ \A k \in DOMAIN f : Len(g[k]) = 11
  BY <1>2, <1>4, <1>5, SameRows
<1>7. SameTable("symbolSummary.txt", "symbolSummary.html")
  <2>1. Rows("symbolSummary.txt") = f /\ Rows("symbolSummary.html") = g
    BY DEF Rows, f, g
  <2>2. QED
    BY <1>3, <1>6, <2>1, SymbolHeadings DEF SameTable
<1>8. ASSUME NEW k \in DOMAIN f PROVE SymbolsAgree(k)
  <2>1. \A c : Cell("symbolSummary.html", k, c) = g[k][Column(SymbolSummaryColumns, c)]
    BY <1>3, CellIs DEF g
  <2>2. /\ Cell("symbolSummary.html", k, "Symbol") = g[k][1]
        /\ Cell("symbolSummary.html", k, "Bytes") = g[k][2]
        /\ Cell("symbolSummary.html", k, "Instr") = g[k][3]
        /\ Cell("symbolSummary.html", k, "Branches") = g[k][7]
        /\ Cell("symbolSummary.html", k, "Always") = g[k][8]
        /\ Cell("symbolSummary.html", k, "Never") = g[k][9]
        /\ Cell("symbolSummary.html", k, "PercentInstructions") = g[k][10]
        /\ Cell("symbolSummary.html", k, "PercentBytes") = g[k][11]
    BY <2>1, SymbolHeadings
  <2>3. Rows("symbolSummary.txt")[k] = f[k]
    BY DEF Rows, f
  <2>4. LET Of(p) == IF f[k].bytes = 0 THEN 0 ELSE p IN
        f[k] = [symbol |-> g[k][1], bytes |-> g[k][2], instructions |-> g[k][3],
                branches |-> g[k][7], always |-> g[k][8], never |-> g[k][9],
                perInstructions |-> Of(g[k][10]), perBytes |-> Of(g[k][11])]
    BY <1>4, <1>6, <1>8
  <2>5. QED
    BY <2>2, <2>3, <2>4 DEF SymbolsAgree
<1>9. QED
  BY <1>7, <1>8 DEF Rows, f

(***************************************************************************)
(* EditionsAgree, for every program, every map and every file of           *)
(* explanations: whatever one edition of a report says under a heading,    *)
(* the other says, in as many rows and in the same order.                  *)
(***************************************************************************)
THEOREM EditionsTellTheSame == Spec => []EditionsAgree
<1>1. ReportInv => EditionsAgree
  BY BranchEditions, CoverageEditions, NoRangeEditions, SizeEditions, SymbolEditions
     DEF EditionsAgree
<1>2. QED
  BY <1>1, ReportInvHolds, PTL
-----------------------------------------------------------------------------
(***************************************************************************)
(* From a number to the line of the annotated assembly it stands for.      *)
(***************************************************************************)
\* No two records of a symbol start at the same address, so getId finds the
\* number of the one that does.
LEMMA GetIdFacts ==
  ASSUME NEW ss, AllFit(ss), NEW T, Kind(ss, T), NEW i \in 1 .. Len(ss)
  PROVE  /\ \A b \in T[i] : GetId(Recs(ss, T)[i], ss[i].base + b) = Place1(ss, i, b).id
         /\ \A x : GetId(Recs(ss, T)[i], x) # 0 => \E b \in T[i] : x = ss[i].base + b
<1> DEFINE rs == Recs(ss, T)[i]
           s == ss[i]
           n == Cardinality(T[i])
<1>1. /\ Fit(s) /\ T[i] \subseteq Starts(s) /\ IdBase(ss, i) \in Nat
      /\ n \in Nat /\ DOMAIN rs = 1 .. n
      /\ \A j \in 1 .. n : Ranked(T[i], j) \in T[i] /\ rs[j] = Place1(ss, i, Ranked(T[i], j))
      /\ \A b \in T[i] : \E j \in 1 .. n : Ranked(T[i], j) = b
  BY RecsFacts
<1>2. s.base \in Nat /\ Starts(s) \subseteq Nat /\ IsFiniteSet(Starts(s))
  BY <1>1, SymbolFacts, StartsFacts
<1>3. \A b \in T[i] : Place1(ss, i, b).low = s.base + b
  BY <1>1, FullFacts DEF Place1
<1>4. \A j, k \in 1 .. n : Ranked(T[i], j) = Ranked(T[i], k) => j = k
  <2>1. IsFiniteSet(T[i]) /\ T[i] \subseteq Nat
    BY <1>1, <1>2, FS_Subset
  <2>2. \A j \in 1 .. n : Rank(T[i], Ranked(T[i], j)) = j
    BY <2>1, RankedFacts
  <2>3. QED
    BY <2>2
<1> HIDE DEF rs, s, n
<1>5. \A j, k \in 1 .. n : rs[j].low = rs[k].low => j = k
  <2>1. ASSUME NEW j \in 1 .. n, NEW k \in 1 .. n, rs[j].low = rs[k].low PROVE j = k
    <3> DEFINE b == Ranked(T[i], j)
               c == Ranked(T[i], k)
    <3>1. b \in T[i] /\ c \in T[i] /\ b \in Nat /\ c \in Nat
      BY <1>1, <1>2
    <3>2. rs[j].low = s.base + b /\ rs[k].low = s.base + c
      BY <1>1, <1>3
    <3> HIDE DEF b, c
    <3>3. b = c
      <4>1. s.base + b = s.base + c
        BY <2>1, <3>2
      <4> DEFINE z == s.base
      <4>2. z \in Nat /\ z + b = z + c
        BY <1>2, <4>1
      <4> HIDE DEF z
      <4>3. QED
        BY ONLY <3>1, <4>2
    <3>4. QED
      BY <1>4, <3>3 DEF b, c
  <2>2. QED
    BY <2>1
<1>6. ASSUME NEW j \in 1 .. n PROVE GetId(rs, rs[j].low) = rs[j].id
  <2> DEFINE a == rs[j].low
             Is(h) == rs[h].low = a /\ \A k \in 1 .. h - 1 : rs[k].low # a
             o == CHOOSE h \in DOMAIN rs : Is(h)
  <2>1. GetId(rs, a) = rs[o].id
    BY <1>1 DEF GetId
  <2>2. Is(j)
    <3>1. \A k \in 1 .. j - 1 : k \in 1 .. n /\ k # j
      BY <1>1
    <3>2. QED
      BY <1>5, <3>1
  <2>3. \A h \in 1 .. n : Is(h) => h = j
    BY <1>5
  <2> HIDE DEF Is
  <2>4. o = j
    BY <1>1, <2>2, <2>3
  <2>5. QED
    BY <2>1, <2>4
<1>7. ASSUME NEW b \in T[i] PROVE GetId(rs, s.base + b) = Place1(ss, i, b).id
  <2>1. PICK j \in 1 .. n : Ranked(T[i], j) = b
    BY <1>1
  <2>2. rs[j] = Place1(ss, i, b) /\ rs[j].low = s.base + b
    BY <1>1, <1>3, <2>1
  <2>3. QED
    BY <1>6, <2>2
<1>8. ASSUME NEW x, GetId(rs, x) # 0 PROVE \E b \in T[i] : x = s.base + b
  <2>1. PICK j \in DOMAIN rs : rs[j].low = x
    BY <1>8 DEF GetId
  <2>2. Ranked(T[i], j) \in T[i] /\ x = s.base + Ranked(T[i], j)
    BY <1>1, <1>3, <2>1
  <2>3. QED
    BY <2>2
<1>9. QED
  BY <1>7, <1>8 DEF rs, s

\* Between two instructions in order there is no start of one.
LEMMA LinesInOrder ==
  ASSUME NEW s, Fit(s), NEW k \in Insns(s), k - 1 \in Insns(s)
  PROVE  /\ s.lines[k - 1].offset \in Nat /\ s.lines[k].offset \in Nat
         /\ s.lines[k - 1].offset < s.lines[k].offset
         /\ \A x \in s.lines[k - 1].offset + 1 .. s.lines[k].offset - 1 : x \notin s.start
<1> DEFINE c == s.lines[k - 1].offset
           b == s.lines[k].offset
<1>1. /\ \A j \in Insns(s) : s.lines[j].offset \in s.start
      /\ s.start \subseteq Nat /\ Insns(s) \subseteq Nat
      /\ \A j, m \in Insns(s) : j < m => s.lines[j].offset < s.lines[m].offset
      /\ \A x \in s.start : \E j \in Insns(s) : s.lines[j].offset = x
  <2>1. s.start \subseteq Bytes(s) /\ Bytes(s) \subseteq Nat
    BY SymbolFacts
  <2>2. Insns(s) \subseteq 1 .. Len(s.lines)
    BY LineFacts
  <2>3. QED
    BY <2>1, <2>2, LineFacts
<1>2. b \in Nat /\ c \in Nat /\ c < b
  <2>1. k \in Nat /\ k - 1 < k
    BY <1>1
  <2>2. QED
    BY <1>1, <2>1
<1>3. ASSUME NEW x \in c + 1 .. b - 1, x \in s.start PROVE FALSE
  <2>1. PICK j \in Insns(s) : s.lines[j].offset = x
    BY <1>1, <1>3
  <2>2. c < x /\ x < b /\ x \in Nat
    BY <1>2, <1>3
  <2>3. j \in Nat /\ k \in Nat
    BY <1>1
  <2>4. ~(j < k - 1) /\ j # k - 1 /\ j # k /\ ~(k < j)
    <3>1. j < k - 1 => x < c
      BY <1>1, <2>1
    <3>2. k < j => b < x
      BY <1>1, <2>1
    <3> HIDE DEF b, c
    <3>3. ~(j < k - 1) /\ ~(k < j)
      BY <1>2, <2>2, <3>1, <3>2
    <3>4. j # k - 1 /\ j # k
      <4>1. x # c /\ x # b
        BY <1>2, <2>2
      <4>2. QED
        BY <2>1, <4>1 DEF b, c
    <3>5. QED
      BY <3>3, <3>4
  <2>5. QED
    BY <2>3, <2>4
<1>4. QED
  BY <1>2, <1>3

\* What holds an instruction's first byte holds all of it: the last byte before
\* the next instruction was executed just as its first.
LEMMA WholeInstruction ==
  ASSUME NEW s, Fit(s), NEW c \in Nat, NEW b \in Nat, c < b, b <= s.size,
         \A x \in c + 1 .. b - 1 : x \notin s.start, b - 1 \in s.exec
  PROVE  c \in s.exec
<1>1. s.size \in Nat /\ \A x \in 1 .. s.size - 1 : x \in s.start \/ (x \in s.exec <=> x - 1 \in s.exec)
  BY SymbolFacts DEF Fit, SameCode
<1>2. SUFFICES ASSUME c \notin s.exec PROVE FALSE
  OBVIOUS
<1> DEFINE D == {h \in c .. b - 1 : \A x \in c .. h : x \notin s.exec}
<1>3. c \in D /\ D \subseteq Int /\ \A h \in D : h <= b - 1
  BY <1>2
<1>4. b - 1 \in Int
  OBVIOUS
<1>5. PICK h \in D : \A y \in D : h >= y
  <2> HIDE DEF D
  <2>1. QED
    BY <1>3, <1>4, GreatestInteger
<1>6. h \in c .. b - 1 /\ h \in Nat /\ \A x \in c .. h : x \notin s.exec
  BY <1>5
<1>7. h # b - 1
  BY <1>6
<1>8. h + 1 \in c + 1 .. b - 1 /\ h + 1 \in 1 .. s.size - 1
  BY <1>1, <1>6, <1>7
<1>9. h + 1 \notin s.exec
  <2>1. h + 1 \notin s.start
    BY <1>8
  <2>2. h + 1 \in s.exec <=> (h + 1) - 1 \in s.exec
    BY <1>1, <1>8, <2>1
  <2>3. (h + 1) - 1 = h /\ h \in c .. h
    BY <1>6
  <2>4. QED
    BY <1>6, <2>2, <2>3
<1>10. h + 1 \in D
  <2>1. \A x \in c .. h + 1 : x \in c .. h \/ x = h + 1
    BY <1>6
  <2>2. h + 1 \in c .. b - 1
    BY <1>6, <1>8
  <2>3. QED
    BY <1>6, <1>9, <2>1, <2>2
<1>11. QED
  BY <1>5, <1>6, <1>10

\* How the line of an instruction is annotated.
LEMMA InsnAnnotated ==
  ASSUME NEW i, NEW l, l.insn
  PROVE  LET s == Symbols[i] IN
         /\ l.offset \notin s.exec =>
              /\ Annotated(i, l).state = "neverExecuted"
              /\ Annotated(i, l).id = GetId(ranges[i], s.base + l.offset)
         /\ l.offset \in s.exec /\ l.offset \in DOMAIN s.went =>
              /\ Annotated(i, l).state = BranchState(s, l.offset)
              /\ Annotated(i, l).id = GetId(branches[i], s.base + l.offset)
         /\ l.offset \in s.exec /\ l.offset \notin DOMAIN s.went =>
              /\ Annotated(i, l).state = "executed" /\ Annotated(i, l).id = 0
  BY DEF Annotated, Executed, IsBranch

\* The line of an uncovered place has its number, and shows its reason.
LEMMA PlaceAnnotated ==
  ASSUME Reporting, NEW i \in 1 .. Len(Symbols), NEW b \in Starts(Symbols[i]),
         NEW l, l.insn, l.offset = b
  PROVE  /\ Annotated(i, l).id = Place1(Symbols, i, b).id
         /\ b \in RunStarts(Symbols[i]) => Annotated(i, l).state = "neverExecuted"
         /\ b \in OneWay(Symbols[i]) =>
              Annotated(i, l).state \in {"branchTaken", "branchNotTaken"}
<1> DEFINE s == Symbols[i]
<1>1. /\ AllFit(Symbols) /\ Kind(Symbols, RunsOf(Symbols)) /\ Kind(Symbols, WaysOf(Symbols))
      /\ ranges = Recs(Symbols, RunsOf(Symbols)) /\ branches = Recs(Symbols, WaysOf(Symbols))
  BY PlacesFacts DEF Reporting
<1>2. RunsOf(Symbols)[i] = RunStarts(s) /\ WaysOf(Symbols)[i] = OneWay(s)
  BY <1>1 DEF RunsOf, WaysOf, AllFit
<1>3. CASE b \in RunStarts(s)
  <2>1. b \notin s.exec
    BY <1>1, <1>3, StartsFacts DEF AllFit
  <2>2. GetId(ranges[i], s.base + b) = Place1(Symbols, i, b).id
    <3>1. \A c \in RunsOf(Symbols)[i] :
            GetId(Recs(Symbols, RunsOf(Symbols))[i], Symbols[i].base + c) = Place1(Symbols, i, c).id
      BY <1>1, GetIdFacts
    <3>2. QED
      BY <1>1, <1>2, <1>3, <3>1
  <2>3. b \notin OneWay(s)
    BY <2>1 DEF OneWay
  <2>4. QED
    BY <2>1, <2>2, <2>3, InsnAnnotated
<1>4. CASE b \in OneWay(s)
  <2>1. b \in s.exec /\ b \in DOMAIN s.went /\ (Always(s, b) \/ Never(s, b))
    BY <1>4 DEF OneWay, Always, Never, IsBranch
  <2>2. GetId(branches[i], s.base + b) = Place1(Symbols, i, b).id
    <3>1. \A c \in WaysOf(Symbols)[i] :
            GetId(Recs(Symbols, WaysOf(Symbols))[i], Symbols[i].base + c) = Place1(Symbols, i, c).id
      BY <1>1, GetIdFacts
    <3>2. QED
      BY <1>1, <1>2, <1>4, <3>1
  <2>3. BranchState(s, b) \in {"branchTaken", "branchNotTaken"}
    BY <2>1 DEF BranchState
  <2>4. b \notin RunStarts(s)
    BY <2>1 DEF RunStarts, Executed
  <2>5. QED
    BY <2>1, <2>2, <2>3, <2>4, InsnAnnotated
<1>5. QED
  BY <1>3, <1>4 DEF Starts

\* A line with a number is the line of an uncovered place.
LEMMA NumberedPlace ==
  ASSUME Reporting, NEW i \in 1 .. Len(Symbols), NEW k \in DOMAIN Symbols[i].lines,
         Annotated(i, Symbols[i].lines[k]).id # 0
  PROVE  LET l == Symbols[i].lines[k] IN
         /\ k \in Insns(Symbols[i]) /\ l.offset \in Starts(Symbols[i])
         /\ Annotated(i, l).id = Place1(Symbols, i, l.offset).id
<1> DEFINE s == Symbols[i]
           l == s.lines[k]
<1>1. /\ AllFit(Symbols) /\ Kind(Symbols, RunsOf(Symbols)) /\ Kind(Symbols, WaysOf(Symbols))
      /\ ranges = Recs(Symbols, RunsOf(Symbols)) /\ branches = Recs(Symbols, WaysOf(Symbols))
  BY PlacesFacts DEF Reporting
<1>2. RunsOf(Symbols)[i] = RunStarts(s) /\ WaysOf(Symbols)[i] = OneWay(s)
  BY <1>1 DEF RunsOf, WaysOf, AllFit
<1>3. Fit(s)
  BY <1>1 DEF AllFit
<1>4. l.insn
  BY DEF Annotated
<1>5. k \in Insns(s)
  BY <1>4 DEF Insns
<1>6. s.base \in Nat /\ l.offset \in Nat /\ Starts(s) \subseteq Nat
  <2>1. l.offset \in s.start
    BY <1>3, <1>5, LineFacts
  <2>2. s.start \subseteq Nat /\ s.base \in Nat /\ Starts(s) \subseteq Nat
    BY <1>3, SymbolFacts, StartsFacts
  <2>3. QED
    BY <2>1, <2>2
<1>7. l.offset \in Starts(s)
  <2>1. CASE l.offset \notin s.exec
    <3>1. GetId(ranges[i], s.base + l.offset) # 0
      BY <1>4, <2>1, InsnAnnotated
    <3>2. \A x : GetId(Recs(Symbols, RunsOf(Symbols))[i], x) # 0 =>
                   \E b \in RunsOf(Symbols)[i] : x = Symbols[i].base + b
      BY <1>1, GetIdFacts
    <3>3. PICK b \in RunStarts(s) : s.base + l.offset = s.base + b
      BY <1>1, <1>2, <3>1, <3>2
    <3>4. b \in Starts(s) /\ b \in Nat
      BY <1>6 DEF Starts
    <3>5. l.offset = b
      <4> DEFINE z == s.base
                 y == l.offset
      <4>1. z \in Nat /\ y \in Nat /\ z + y = z + b
        BY <1>6, <3>3
      <4> HIDE DEF z, y
      <4>2. y = b
        BY ONLY <3>4, <4>1
      <4>3. QED
        BY <4>2 DEF y
    <3>6. QED
      BY <3>4, <3>5
  <2>2. CASE l.offset \in s.exec
    <3>1. GetId(branches[i], s.base + l.offset) # 0
      BY <1>4, <2>2, InsnAnnotated
    <3>2. \A x : GetId(Recs(Symbols, WaysOf(Symbols))[i], x) # 0 =>
                   \E b \in WaysOf(Symbols)[i] : x = Symbols[i].base + b
      BY <1>1, GetIdFacts
    <3>3. PICK b \in OneWay(s) : s.base + l.offset = s.base + b
      BY <1>1, <1>2, <3>1, <3>2
    <3>4. b \in Starts(s) /\ b \in Nat
      BY <1>6 DEF Starts
    <3>5. l.offset = b
      <4> DEFINE z == s.base
                 y == l.offset
      <4>1. z \in Nat /\ y \in Nat /\ z + y = z + b
        BY <1>6, <3>3
      <4> HIDE DEF z, y
      <4>2. y = b
        BY ONLY <3>4, <4>1
      <4>3. QED
        BY <4>2 DEF y
    <3>6. QED
      BY <3>4, <3>5
  <2>3. QED
    BY <2>1, <2>2
<1>8. Annotated(i, l).id = Place1(Symbols, i, l.offset).id
  BY <1>4, <1>7, PlaceAnnotated
<1>9. QED
  BY <1>5, <1>7, <1>8

\* The line of an uncovered place is listed, and some line stands before it in
\* its symbol.
LEMMA PlaceLine ==
  ASSUME Reporting, NEW i \in 1 .. Len(Symbols), NEW b \in Starts(Symbols[i])
  PROVE  \E k \in Insns(Symbols[i]) :
           /\ Symbols[i].lines[k].offset = b
           /\ k \in 1 .. LineCount(i) /\ k - 1 \in 1 .. LineCount(i)
           /\ LineCount(i) = Len(Symbols[i].lines)
<1> DEFINE s == Symbols[i]
<1>1. /\ AllFit(Symbols) /\ Kind(Symbols, RunsOf(Symbols)) /\ Kind(Symbols, WaysOf(Symbols))
      /\ ranges = Recs(Symbols, RunsOf(Symbols)) /\ branches = Recs(Symbols, WaysOf(Symbols))
  BY PlacesFacts DEF Reporting
<1>2. RunsOf(Symbols)[i] = RunStarts(s) /\ WaysOf(Symbols)[i] = OneWay(s)
  BY <1>1 DEF RunsOf, WaysOf, AllFit
<1>3. Fit(s)
  BY <1>1 DEF AllFit
<1>4. ~WhollyCovered(i)
  <2>1. /\ Cardinality(RunStarts(s)) \in Nat /\ Len(ranges[i]) = Cardinality(RunStarts(s))
        /\ \A c \in RunStarts(s) : \E j \in 1 .. Cardinality(RunStarts(s)) : Ranked(RunStarts(s), j) = c
    <3> DEFINE T == RunsOf(Symbols)
    <3>1. T[i] = RunStarts(s) /\ ranges[i] = Recs(Symbols, T)[i] /\ Kind(Symbols, T)
      BY <1>1, <1>2
    <3> HIDE DEF T
    <3>2. /\ Cardinality(T[i]) \in Nat /\ Len(Recs(Symbols, T)[i]) = Cardinality(T[i])
          /\ \A c \in T[i] : \E j \in 1 .. Cardinality(T[i]) : Ranked(T[i], j) = c
      BY <1>1, <3>1, RecsFacts
    <3>3. QED
      BY <3>1, <3>2
  <2>2. /\ Cardinality(OneWay(s)) \in Nat /\ Len(branches[i]) = Cardinality(OneWay(s))
        /\ \A c \in OneWay(s) : \E j \in 1 .. Cardinality(OneWay(s)) : Ranked(OneWay(s), j) = c
    <3> DEFINE T == WaysOf(Symbols)
    <3>1. T[i] = OneWay(s) /\ branches[i] = Recs(Symbols, T)[i] /\ Kind(Symbols, T)
      BY <1>1, <1>2
    <3> HIDE DEF T
    <3>2. /\ Cardinality(T[i]) \in Nat /\ Len(Recs(Symbols, T)[i]) = Cardinality(T[i])
          /\ \A c \in T[i] : \E j \in 1 .. Cardinality(T[i]) : Ranked(T[i], j) = c
      BY <1>1, <3>1, RecsFacts
    <3>3. QED
      BY <3>1, <3>2
  <2>3. Cardinality(RunStarts(s)) # 0 \/ Cardinality(OneWay(s)) # 0
    <3>1. CASE b \in RunStarts(s)
      <4>1. PICK j \in 1 .. Cardinality(RunStarts(s)) : Ranked(RunStarts(s), j) = b
        BY <2>1, <3>1
      <4>2. QED
        BY <2>1, <4>1
    <3>2. CASE b \in OneWay(s)
      <4>1. PICK j \in 1 .. Cardinality(OneWay(s)) : Ranked(OneWay(s), j) = b
        BY <2>2, <3>2
      <4>2. QED
        BY <2>2, <4>1
    <3>3. QED
      BY <3>1, <3>2 DEF Starts
  <2>4. QED
    BY <2>1, <2>2, <2>3 DEF WhollyCovered
<1>5. LineCount(i) = Len(s.lines) /\ Len(s.lines) \in Nat /\ DOMAIN s.lines = 1 .. Len(s.lines)
  BY <1>3, <1>4, LineFacts DEF LineCount
<1>6. b \in s.start /\ b \in Bytes(s)
  BY <1>3, StartsFacts
<1>7. PICK k \in Insns(s) : s.lines[k].offset = b
  BY <1>3, <1>6, LineFacts
<1>8. k \in 1 .. Len(s.lines)
  <2>1. Insns(s) \subseteq DOMAIN s.lines
    BY <1>3, LineFacts
  <2>2. QED
    BY <1>5, <1>7, <2>1
<1>9. k # 1
  <2>1. s.size \in Nat /\ s.size > 0
    BY <1>3, <1>6, SymbolFacts DEF Bytes
  <2>2. ~s.lines[1].insn
    BY <1>3, <2>1 DEF Fit, SameCode
  <2>3. s.lines[k].insn
    BY <1>7 DEF Insns
  <2>4. QED
    BY <2>2, <2>3
<1>10. k - 1 \in 1 .. Len(s.lines)
  BY <1>5, <1>8, <1>9
<1>11. QED
  BY <1>5, <1>7, <1>8, <1>10

\* A number stands on one line of the annotated assembly.
LEMMA OneLine ==
  ASSUME Reporting, NEW x \in DOMAIN AnnotatedLines, NEW y \in DOMAIN AnnotatedLines,
         AnnotatedLines[x].id = AnnotatedLines[y].id, AnnotatedLines[x].id # 0
  PROVE  x = y
<1> DEFINE n == Len(Symbols)
<1>1. /\ DOMAIN AnnotatedLines = 1 .. Len(AnnotatedLines)
      /\ \A i \in 1 .. n : \A k \in 1 .. LineCount(i) :
           AnnotatedLines[LineAt(i, k)] = Annotated(i, Symbols[i].lines[k])
      /\ \A z \in 1 .. Len(AnnotatedLines) :
           \E i \in 1 .. n : \E k \in 1 .. LineCount(i) : z = LineAt(i, k)
  BY AnnotatedFacts
<1>2. AllFit(Symbols) /\ \A i \in 1 .. n : Fit(Symbols[i])
  BY DEF Reporting, AllFit
<1>3. \A i \in 1 .. n : \A k \in 1 .. LineCount(i) : k \in DOMAIN Symbols[i].lines
  BY <1>2, LineFacts DEF LineCount
<1>4. PICK i \in 1 .. n : \E k \in 1 .. LineCount(i) : x = LineAt(i, k)
  BY <1>1
<1>5. PICK k \in 1 .. LineCount(i) : x = LineAt(i, k)
  BY <1>4
<1>6. PICK j \in 1 .. n : \E m \in 1 .. LineCount(j) : y = LineAt(j, m)
  BY <1>1
<1>7. PICK m \in 1 .. LineCount(j) : y = LineAt(j, m)
  BY <1>6
<1> DEFINE b == Symbols[i].lines[k].offset
           c == Symbols[j].lines[m].offset
<1>8. /\ AnnotatedLines[x] = Annotated(i, Symbols[i].lines[k])
      /\ AnnotatedLines[y] = Annotated(j, Symbols[j].lines[m])
  BY <1>1, <1>5, <1>7
<1>9. k \in Insns(Symbols[i]) /\ b \in Starts(Symbols[i]) /\ AnnotatedLines[x].id = Place1(Symbols, i, b).id
  BY <1>3, <1>8, NumberedPlace
<1>10. m \in Insns(Symbols[j]) /\ c \in Starts(Symbols[j]) /\ AnnotatedLines[y].id = Place1(Symbols, j, c).id
  BY <1>3, <1>8, NumberedPlace
<1>11. Full(Symbols[i], b, IdBase(Symbols, i)).id = Full(Symbols[j], c, IdBase(Symbols, j)).id
  BY <1>9, <1>10 DEF Place1
<1> HIDE DEF b, c
<1>12. i = j /\ b = c
  BY ONLY <1>2, <1>9, <1>10, <1>11, IdOne, ZenonT(60), i \in 1 .. Len(Symbols), j \in 1 .. Len(Symbols)
<1>13. k = m
  BY <1>2, <1>9, <1>10, <1>12, LineFacts DEF b, c
<1>14. QED
  BY <1>5, <1>7, <1>12, <1>13

\* What the links of the HTML report find there.
LEMMA AnchorFacts ==
  ASSUME Reporting, files["annotated.html"] = AnnotatedHtml,
         NEW x \in DOMAIN AnnotatedLines, AnnotatedLines[x].id # 0
  PROVE  LET L == AnnotatedLines IN
         /\ Mark(L, x) = L[x].id =>
              /\ AnchorOf(L[x].id) = {x}
              /\ LeadsTo(L[x].id, L[x].symbol, {L[x].state})
         /\ Mark(L, x) # L[x].id => AnchorOf(L[x].id) = {}
<1> DEFINE L == AnnotatedLines
           id == L[x].id
           R == Rows("annotated.html")
<1>1. R = MarkedLines(L)
  BY DEF Rows, AnnotatedHtml, Table
<1>2. DOMAIN R = DOMAIN L /\ \A k \in DOMAIN L : R[k] = << L[k].symbol, L[k].state, Mark(L, k) >>
  BY <1>1 DEF MarkedLines
<1>3. \A k \in DOMAIN L : Mark(L, k) = id => k = x
  <2>1. ASSUME NEW k \in DOMAIN L, Mark(L, k) = id PROVE k = x
    <3>1. L[k].id = id
      BY <2>1 DEF Mark
    <3>2. L[k].id = L[x].id /\ L[k].id # 0
      BY <3>1
    <3> HIDE DEF L
    <3>3. QED
      BY <3>2, OneLine DEF L
  <2>2. QED
    BY <2>1
<1>4. AnchorOf(id) = {k \in DOMAIN R : R[k][3] = id}
  BY DEF AnchorOf
<1>5. \A k \in DOMAIN L : R[k][1] = L[k].symbol /\ R[k][2] = L[k].state /\ R[k][3] = Mark(L, k)
  BY <1>2
<1> HIDE DEF L, R
<1>6. ASSUME Mark(L, x) = id PROVE AnchorOf(id) = {x}
  BY <1>2, <1>3, <1>4, <1>5, <1>6 DEF L
<1>7. ASSUME Mark(L, x) = id PROVE LeadsTo(id, L[x].symbol, {L[x].state})
  <2>1. x \in DOMAIN R /\ R[x][1] = L[x].symbol /\ R[x][2] \in {L[x].state}
    BY <1>2, <1>5 DEF L
  <2>2. AnchorOf(id) = {x}
    BY <1>6, <1>7
  <2>3. QED
    BY <2>1, <2>2 DEF LeadsTo, R
<1>8. ASSUME Mark(L, x) # id PROVE AnchorOf(id) = {}
  BY <1>2, <1>3, <1>4, <1>5, <1>8
<1>9. QED
  BY <1>6, <1>7, <1>8 DEF L

\* The line of an uncovered place among all annotated lines, and the line
\* before it.
LEMMA PlaceListed ==
  ASSUME Reporting, NEW i \in 1 .. Len(Symbols), NEW b \in Starts(Symbols[i])
  PROVE  \E x \in DOMAIN AnnotatedLines : \E k \in Insns(Symbols[i]) :
           /\ Symbols[i].lines[k].offset = b
           /\ k - 1 \in DOMAIN Symbols[i].lines /\ x - 1 \in DOMAIN AnnotatedLines
           /\ x \in Nat /\ x > 1
           /\ AnnotatedLines[x] = Annotated(i, Symbols[i].lines[k])
           /\ AnnotatedLines[x - 1] = Annotated(i, Symbols[i].lines[k - 1])
<1> DEFINE n == Len(Symbols)
           len == Lens(LineLists)
<1>1. /\ DOMAIN AnnotatedLines = 1 .. Len(AnnotatedLines) /\ Sized(n, len)
      /\ \A k \in 1 .. LineCount(i) :
           /\ LineAt(i, k) \in 1 .. Len(AnnotatedLines)
           /\ AnnotatedLines[LineAt(i, k)] = Annotated(i, Symbols[i].lines[k])
  BY AnnotatedFacts
<1>2. PICK k \in Insns(Symbols[i]) :
        /\ Symbols[i].lines[k].offset = b
        /\ k \in 1 .. LineCount(i) /\ k - 1 \in 1 .. LineCount(i)
        /\ LineCount(i) = Len(Symbols[i].lines)
  BY PlaceLine
<1>3. Before(len, i) \in Nat
  <2>1. n \in Nat /\ i \in 1 .. n + 1
    BY DEF Reporting, AllFit
  <2> HIDE DEF n, len
  <2>2. QED
    BY <1>1, <2>1, BeforeFacts
<1>4. LineAt(i, k) = Before(len, i) + k /\ LineAt(i, k - 1) = Before(len, i) + (k - 1)
  BY DEF LineAt, At
<1> HIDE DEF len
<1>5. LineAt(i, k - 1) = LineAt(i, k) - 1 /\ LineAt(i, k) \in Nat /\ LineAt(i, k) > 1
  BY <1>2, <1>3, <1>4
<1>6. k - 1 \in DOMAIN Symbols[i].lines
  <2>1. Fit(Symbols[i])
    BY DEF Reporting, AllFit
  <2>2. QED
    BY <1>2, <2>1, LineFacts
<1>7. /\ LineAt(i, k) \in DOMAIN AnnotatedLines /\ LineAt(i, k - 1) \in DOMAIN AnnotatedLines
      /\ AnnotatedLines[LineAt(i, k)] = Annotated(i, Symbols[i].lines[k])
      /\ AnnotatedLines[LineAt(i, k - 1)] = Annotated(i, Symbols[i].lines[k - 1])
  BY <1>1, <1>2
<1>8. QED
  BY <1>2, <1>5, <1>6, <1>7

\* The line before an unexecuted range does not look like one of it.
LEMMA RunBegins ==
  ASSUME Reporting, NEW i \in 1 .. Len(Symbols), NEW b \in RunStarts(Symbols[i]),
         NEW k \in Insns(Symbols[i]), Symbols[i].lines[k].offset = b,
         k - 1 \in DOMAIN Symbols[i].lines
  PROVE  Annotated(i, Symbols[i].lines[k - 1]).state # "neverExecuted"
<1> DEFINE s == Symbols[i]
           l == s.lines[k - 1]
           c == l.offset
<1>1. Fit(s)
  BY DEF Reporting, AllFit
<1>2. CASE ~l.insn
  BY <1>2 DEF Annotated
<1>3. CASE l.insn
  <2>1. k - 1 \in Insns(s)
    BY <1>3 DEF Insns
  <2>2. /\ c \in Nat /\ b \in Nat /\ c < b
        /\ \A x \in c + 1 .. b - 1 : x \notin s.start
    BY <1>1, <2>1, LinesInOrder
  <2>3. b - 1 \in s.exec
    BY <2>2 DEF RunStarts, Executed
  <2>4. b <= s.size
    <3>1. s.size \in Nat /\ b \in 0 .. s.size - 1
      BY <1>1, SymbolFacts DEF RunStarts
    <3>2. QED
      BY <3>1
  <2>5. c \in s.exec
    <3> HIDE DEF c, s
    <3>1. QED
      BY <1>1, <2>2, <2>3, <2>4, WholeInstruction
  <2>6. BranchState(s, c) # "neverExecuted"
    BY DEF BranchState
  <2>7. QED
    BY <1>3, <2>5, <2>6, InsnAnnotated
<1>4. QED
  BY <1>2, <1>3

\* Every unexecuted range has its anchor, on its first line only.
LEMMA RunAnchored ==
  ASSUME Reporting, files["annotated.html"] = AnnotatedHtml,
         NEW i \in 1 .. Len(Symbols), NEW b \in RunStarts(Symbols[i])
  PROVE  LeadsTo(Place1(Symbols, i, b).id, Symbols[i].name, {"neverExecuted"})
<1> DEFINE L == AnnotatedLines
           id == Place1(Symbols, i, b).id
<1>1. b \in Starts(Symbols[i])
  BY DEF Starts
<1>2. PICK x \in DOMAIN L : \E k \in Insns(Symbols[i]) :
        /\ Symbols[i].lines[k].offset = b
        /\ k - 1 \in DOMAIN Symbols[i].lines /\ x - 1 \in DOMAIN L
        /\ x \in Nat /\ x > 1
        /\ L[x] = Annotated(i, Symbols[i].lines[k])
        /\ L[x - 1] = Annotated(i, Symbols[i].lines[k - 1])
  BY <1>1, PlaceListed
<1>3. PICK k \in Insns(Symbols[i]) :
        /\ Symbols[i].lines[k].offset = b
        /\ k - 1 \in DOMAIN Symbols[i].lines /\ x - 1 \in DOMAIN L
        /\ x \in Nat /\ x > 1
        /\ L[x] = Annotated(i, Symbols[i].lines[k])
        /\ L[x - 1] = Annotated(i, Symbols[i].lines[k - 1])
  BY <1>2
<1>4. Symbols[i].lines[k].insn
  BY DEF Insns
<1>5. L[x].id = id /\ L[x].state = "neverExecuted"
  <2>1. Symbols[i].lines[k].offset = b /\ L[x] = Annotated(i, Symbols[i].lines[k])
    BY <1>3
  <2> HIDE DEF L
  <2>2. /\ Annotated(i, Symbols[i].lines[k]).id = id
        /\ Annotated(i, Symbols[i].lines[k]).state = "neverExecuted"
    BY <1>1, <1>4, <2>1, PlaceAnnotated
  <2>3. QED
    BY <2>1, <2>2
<1>6. L[x].symbol = Symbols[i].name
  BY <1>3, AnnotatedStates
<1>7. id # 0
  <2>1. AllFit(Symbols)
    BY DEF Reporting
  <2>2. QED
    BY <1>1, <2>1, IdsPositive
<1>8. L[x - 1].state # "neverExecuted"
  BY <1>3, RunBegins
<1>9. Mark(L, x) = L[x].id
  BY <1>3, <1>5, <1>8 DEF Mark, Marked
<1>10. LeadsTo(L[x].id, L[x].symbol, {L[x].state})
  BY <1>5, <1>7, <1>9, AnchorFacts
<1>11. QED
  BY <1>5, <1>6, <1>10

\* A one-way branch has it, too, unless it follows one of the same verdict.
LEMMA BranchAnchored ==
  ASSUME Reporting, files["annotated.html"] = AnnotatedHtml, files["annotated.txt"] = AnnotatedTxt,
         NEW i \in 1 .. Len(Symbols), NEW b \in OneWay(Symbols[i])
  PROVE  \/ LeadsTo(Place1(Symbols, i, b).id, Symbols[i].name, {"branchTaken", "branchNotTaken"})
         \/ Hidden(Place1(Symbols, i, b).id)
<1> DEFINE L == AnnotatedLines
           id == Place1(Symbols, i, b).id
           verdicts == {"branchTaken", "branchNotTaken"}
<1>1. b \in Starts(Symbols[i])
  BY DEF Starts
<1>2. PICK x \in DOMAIN L : \E k \in Insns(Symbols[i]) :
        /\ Symbols[i].lines[k].offset = b
        /\ k - 1 \in DOMAIN Symbols[i].lines /\ x - 1 \in DOMAIN L
        /\ x \in Nat /\ x > 1
        /\ L[x] = Annotated(i, Symbols[i].lines[k])
        /\ L[x - 1] = Annotated(i, Symbols[i].lines[k - 1])
  BY <1>1, PlaceListed
<1>3. PICK k \in Insns(Symbols[i]) :
        /\ Symbols[i].lines[k].offset = b
        /\ x \in Nat /\ x > 1
        /\ L[x] = Annotated(i, Symbols[i].lines[k])
  BY <1>2
<1>4. Symbols[i].lines[k].insn
  BY DEF Insns
<1>5. L[x].id = id /\ L[x].state \in verdicts
  <2> DEFINE l == Symbols[i].lines[k]
  <2>1. l.insn /\ l.offset = b /\ L[x] = Annotated(i, l)
    BY <1>3, <1>4
  <2> HIDE DEF l
  <2>2. Annotated(i, l).id = id /\ Annotated(i, l).state \in verdicts
    BY <1>1, <2>1, PlaceAnnotated
  <2>3. QED
    BY <2>1, <2>2
<1>6. L[x].symbol = Symbols[i].name
  BY <1>3, AnnotatedStates
<1>7. id # 0
  <2>1. AllFit(Symbols)
    BY DEF Reporting
  <2>2. QED
    BY <1>1, <2>1, IdsPositive
<1>8. CASE Mark(L, x) = id
  <2>1. LeadsTo(L[x].id, L[x].symbol, {L[x].state})
    BY <1>5, <1>7, <1>8, AnchorFacts
  <2>2. LeadsTo(id, Symbols[i].name, {L[x].state})
    BY <1>5, <1>6, <2>1
  <2> HIDE DEF L, id
  <2>3. LeadsTo(id, Symbols[i].name, verdicts)
    BY <1>5, <2>2 DEF LeadsTo
  <2>4. QED
    BY <2>3 DEF id
<1>9. CASE Mark(L, x) # id
  <2>1. AnchorOf(id) = {}
    BY <1>5, <1>7, <1>9, AnchorFacts
  <2>2. L[x].state = L[x - 1].state
    BY <1>3, <1>5, <1>9 DEF Mark, Marked
  <2>3. Rows("annotated.txt") = L
    BY DEF Rows, AnnotatedTxt, Table
  <2>4. x \in 2 .. Len(L)
    BY <1>3, AnnotatedFacts
  <2> HIDE DEF L, id
  <2>5. Hidden(id)
    BY <1>5, <2>1, <2>2, <2>3, <2>4 DEF Hidden
  <2>6. QED
    BY <2>5 DEF id
<1>10. QED
  BY <1>8, <1>9

\* The links of the index lead to reports that were written.
LEMMA IndexResolves ==
  ASSUME ReportInv, Complete
  PROVE  \A n \in ToSet(Rows("index.html")) \ {NotFoundFile} : Exists(n)
<1> DEFINE here == {"summary.txt", "uncovered.html", "uncovered.txt", "branch.html", "branch.txt",
                    "annotated.html", "annotated.txt", "symbolSummary.html", "symbolSummary.txt",
                    "sizes.html", "sizes.txt"}
<1>1. Rows("index.html") = IndexLinks
  BY DoneFiles DEF ReportInv, Rows, IndexHtml, Table
<1>2. \A k \in DOMAIN IndexLinks : IndexLinks[k] \in here \/ IndexLinks[k] = NotFoundFile
  BY DEF IndexLinks, NotFoundFile
<1>3. ToSet(IndexLinks) \subseteq here \cup {NotFoundFile}
  <2> HIDE DEF here
  <2>1. QED
    BY <1>2 DEF ToSet
<1>4. /\ files["annotated.txt"] = AnnotatedTxt /\ files["annotated.html"] = AnnotatedHtml
      /\ files["branch.txt"] = BranchTxt /\ files["branch.html"] = BranchHtml
      /\ files["uncovered.txt"] = CoverageTxt /\ files["uncovered.html"] = CoverageHtml
      /\ files["sizes.txt"] = SizesTxt /\ files["sizes.html"] = SizesHtml
      /\ files["symbolSummary.txt"] = SymbolsTxt /\ files["symbolSummary.html"] = SymbolsHtml
      /\ files["summary.txt"] = SummaryTxt
  BY DoneFiles DEF ReportInv
<1>5. \A c, r : Table(c, r).remark = "none"
  BY DEF Table
<1>6. BranchRemark # "absent"
  BY DEF BranchRemark
<1>7. BranchTxt.remark = BranchRemark /\ BranchHtml.remark = BranchRemark
  BY DEF BranchTxt, BranchHtml
<1>8. /\ AnnotatedTxt.remark = "none" /\ AnnotatedHtml.remark = "none"
      /\ CoverageTxt.remark = "none" /\ CoverageHtml.remark = "none"
      /\ SizesTxt.remark = "none" /\ SizesHtml.remark = "none"
      /\ SymbolsTxt.remark = "none" /\ SymbolsHtml.remark = "none"
      /\ SummaryTxt.remark = "none"
  BY <1>5 DEF AnnotatedTxt, AnnotatedHtml, CoverageTxt, CoverageHtml, SizesTxt, SizesHtml,
              SymbolsTxt, SymbolsHtml, SummaryTxt
<1>9. Absent.remark = "absent"
  BY DEF Absent
<1>10. \A n \in here : files[n].remark # "absent"
  BY <1>4, <1>6, <1>7, <1>8
<1> HIDE DEF here
<1>11. \A n \in here : Exists(n)
  BY <1>9, <1>10 DEF Exists
<1>12. QED
  BY <1>1, <1>3, <1>11

\* The explanation a link leads to is that of the line in its row.
LEMMA LinkExplains ==
  ASSUME NEW P, Right(P, explained), NEW p \in ToSet(P)
  PROVE  Explains(ExplanationLink(p.range), p.range.lowLine)
BY DEF Right, Explains, ExplanationLink

\* The links of the coverage report.
LEMMA CoverageResolves ==
  ASSUME ReportInv, Complete
  PROVE  LET U == Rows("uncovered.html") IN
         \A k \in DOMAIN U :
           IF U[k][2][1] = 0 THEN Exists("NotReferenced.html")
                             ELSE /\ LeadsTo(U[k][2][1], U[k][1], {"neverExecuted"})
                                  /\ Explains(U[k][7], U[k][2][2])
<1> DEFINE U == Rows("uncovered.html")
<1>1. /\ Reporting /\ files["annotated.html"] = AnnotatedHtml
      /\ files["uncovered.html"] = CoverageHtml
      /\ Unreferenced # {} => files["NotReferenced.html"] = EmptyPage
      /\ Right(Places(ranges), explained)
  BY DoneFiles, DoneExplained DEF ReportInv
<1>2. U = [k \in DOMAIN Entries |-> HtmlCoverageLine(Entries[k])]
  BY <1>1 DEF Rows, CoverageHtml, Table
<1>3. AllFit(Symbols)
  BY <1>1 DEF Reporting
<1>4. ASSUME NEW k \in DOMAIN Entries
      PROVE  IF U[k][2][1] = 0 THEN Exists("NotReferenced.html")
                               ELSE /\ LeadsTo(U[k][2][1], U[k][1], {"neverExecuted"})
                                    /\ Explains(U[k][7], U[k][2][2])
  <2> DEFINE e == Entries[k]
             u == U[k]
  <2>1. PICK i \in 1 .. Len(Symbols) :
           /\ e.symbol = Symbols[i]
           /\ \/ i \in Unreferenced /\ e.listed = FALSE
              \/ /\ i \notin Unreferenced /\ e.listed = TRUE
                 /\ \E b \in RunStarts(Symbols[i]) : /\ e.range = Place1(Symbols, i, b)
                                                     /\ Spot(Symbols, i, b) \in ToSet(Places(ranges))
    BY <1>1, EntryKinds
  <2>2. u = HtmlCoverageLine(e)
    BY <1>2
  <2>3. CASE i \in Unreferenced /\ e.listed = FALSE
    <3>1. u[2][1] = 0
      BY <2>2, <2>3 DEF HtmlCoverageLine
    <3>2. files["NotReferenced.html"].remark = "none" /\ Absent.remark = "absent"
      BY <1>1, <2>3 DEF EmptyPage, Table, Absent
    <3>3. Exists("NotReferenced.html")
      BY <3>2 DEF Exists
    <3>4. QED
      BY <3>1, <3>3
  <2>4. CASE e.listed = TRUE /\ \E b \in RunStarts(Symbols[i]) :
                /\ e.range = Place1(Symbols, i, b)
                /\ Spot(Symbols, i, b) \in ToSet(Places(ranges))
    <3>1. PICK b \in RunStarts(Symbols[i]) : /\ e.range = Place1(Symbols, i, b)
                                             /\ Spot(Symbols, i, b) \in ToSet(Places(ranges))
      BY <2>4
    <3> DEFINE r == Place1(Symbols, i, b)
               p == Spot(Symbols, i, b)
    <3>2. /\ u[1] = Symbols[i].name /\ u[2][1] = r.id /\ u[2][2] = r.lowLine
          /\ u[7] = ExplanationLink(r)
      BY <2>1, <2>2, <2>4, <3>1 DEF HtmlCoverageLine
    <3>3. r.id # 0
      BY <1>3, IdsPositive DEF Starts
    <3>4. LeadsTo(r.id, Symbols[i].name, {"neverExecuted"})
      BY <1>1, RunAnchored
    <3>5. p.range = r
      BY DEF Spot
    <3>6. Explains(ExplanationLink(r), r.lowLine)
      <4>1. p \in ToSet(Places(ranges))
        BY <3>1
      <4> HIDE DEF p, r
      <4>2. Explains(ExplanationLink(p.range), p.range.lowLine)
        BY <1>1, <4>1, LinkExplains
      <4>3. QED
        BY <3>5, <4>2
    <3> HIDE DEF r
    <3>7. QED
      BY <3>2, <3>3, <3>4, <3>6
  <2>5. QED
    BY <2>1, <2>3, <2>4
<1>5. QED
  BY <1>2, <1>4

\* Those of the report of sizes.
LEMMA SizesResolve ==
  ASSUME ReportInv, Complete
  PROVE  LET S == Rows("sizes.html") IN
         \A k \in DOMAIN S : LeadsTo(S[k][3][1], S[k][2], {"neverExecuted"})
<1> DEFINE S == Rows("sizes.html")
           P == Places(ranges)
<1>1. /\ Reporting /\ files["annotated.html"] = AnnotatedHtml /\ files["sizes.html"] = SizesHtml
  BY DoneFiles DEF ReportInv
<1>2. S = [k \in DOMAIN P |-> HtmlSizeLine(P[k])]
  BY <1>1 DEF Rows, SizesHtml, Table
<1>3. \A p \in ToSet(P) : \E i \in 1 .. Len(Symbols) : \E b \in RunStarts(Symbols[i]) :
        p = Spot(Symbols, i, b)
  <2>1. /\ AllFit(Symbols) /\ Kind(Symbols, RunsOf(Symbols)) /\ DOMAIN Symbols = 1 .. Len(Symbols)
        /\ P = FlattenSeq(SpotLists(Symbols, RunsOf(Symbols)))
    BY <1>1, PlacesFacts DEF AllFit
  <2> HIDE DEF P
  <2>2. \A p \in ToSet(P) : \E i \in 1 .. Len(Symbols) : \E b \in RunsOf(Symbols)[i] :
          p = Spot(Symbols, i, b)
    BY <2>1, SpotSet
  <2>3. \A i \in 1 .. Len(Symbols) : RunsOf(Symbols)[i] = RunStarts(Symbols[i])
    BY <2>1 DEF RunsOf
  <2>4. QED
    BY <2>2, <2>3
<1>4. ASSUME NEW k \in DOMAIN P PROVE LeadsTo(S[k][3][1], S[k][2], {"neverExecuted"})
  <2> DEFINE p == P[k]
             u == S[k]
  <2>1. p \in ToSet(P)
    BY DEF ToSet
  <2>2. PICK i \in 1 .. Len(Symbols) : \E b \in RunStarts(Symbols[i]) : p = Spot(Symbols, i, b)
    BY <1>3, <2>1
  <2>3. PICK b \in RunStarts(Symbols[i]) : p = Spot(Symbols, i, b)
    BY <2>2
  <2>4. u = HtmlSizeLine(p)
    BY <1>2
  <2>5. p.symbol = Symbols[i] /\ p.range = Place1(Symbols, i, b)
    BY <2>3 DEF Spot
  <2> HIDE DEF u, p
  <2>6. u[3][1] = Place1(Symbols, i, b).id /\ u[2] = Symbols[i].name
    BY <2>4, <2>5 DEF HtmlSizeLine, Link
  <2>7. LeadsTo(Place1(Symbols, i, b).id, Symbols[i].name, {"neverExecuted"})
    BY <1>1, RunAnchored
  <2>8. LeadsTo(u[3][1], u[2], {"neverExecuted"})
    BY <2>6, <2>7
  <2>9. QED
    BY <2>8 DEF u
<1>5. QED
  BY <1>2, <1>4

\* Those of the branch report.
LEMMA BranchesResolve ==
  ASSUME ReportInv, Complete
  PROVE  LET B == Rows("branch.html") IN
         \A k \in DOMAIN B :
           /\ \/ LeadsTo(B[k][2][1], B[k][1], {"branchTaken", "branchNotTaken"})
              \/ Hidden(B[k][2][1])
           /\ Explains(B[k][9], B[k][2][2])
<1> DEFINE B == Rows("branch.html")
           P == BranchPlaces
<1>1. /\ Reporting /\ files["annotated.html"] = AnnotatedHtml /\ files["annotated.txt"] = AnnotatedTxt
      /\ files["branch.html"] = BranchHtml
      /\ Right(P, explained)
  BY DoneFiles, DoneExplained DEF ReportInv
<1>2. B = [k \in DOMAIN P |-> HtmlBranchEntry(P[k])]
  BY <1>1 DEF Rows, BranchHtml
<1>3. ASSUME NEW k \in DOMAIN P
      PROVE  /\ \/ LeadsTo(B[k][2][1], B[k][1], {"branchTaken", "branchNotTaken"})
                \/ Hidden(B[k][2][1])
             /\ Explains(B[k][9], B[k][2][2])
  <2> DEFINE p == P[k]
             u == B[k]
  <2>1. /\ p \in ToSet(P)
        /\ \E i \in 1 .. Len(Symbols) : \E b \in OneWay(Symbols[i]) : p = Spot(Symbols, i, b)
    BY <1>1, BranchPlacesFacts
  <2>2. PICK i \in 1 .. Len(Symbols) : \E b \in OneWay(Symbols[i]) : p = Spot(Symbols, i, b)
    BY <2>1
  <2>3. PICK b \in OneWay(Symbols[i]) : p = Spot(Symbols, i, b)
    BY <2>2
  <2> DEFINE r == Place1(Symbols, i, b)
  <2>4. u = HtmlBranchEntry(p)
    BY <1>2
  <2>5. p.symbol = Symbols[i] /\ p.range = r
    BY <2>3 DEF Spot
  <2>6. r.reason # "notExecuted"
    <3>1. Fit(Symbols[i]) /\ IdBase(Symbols, i) \in Nat /\ b \in Starts(Symbols[i])
      BY <1>1, BasesFacts DEF Reporting, AllFit, Starts
    <3>2. QED
      BY <3>1, FullFacts DEF Place1
  <2> HIDE DEF u, p, r
  <2>7. /\ u[1] = Symbols[i].name /\ u[2][1] = r.id /\ u[2][2] = r.lowLine
        /\ u[9] = ExplanationLink(r)
    BY <2>4, <2>5, <2>6 DEF HtmlBranchEntry, Link
  <2>8. \/ LeadsTo(r.id, Symbols[i].name, {"branchTaken", "branchNotTaken"})
        \/ Hidden(r.id)
    BY <1>1, BranchAnchored DEF r
  <2>9. Explains(ExplanationLink(r), r.lowLine)
    <3>1. Explains(ExplanationLink(p.range), p.range.lowLine)
      BY <1>1, <2>1, LinkExplains
    <3>2. QED
      BY <2>5, <3>1
  <2>10. /\ LeadsTo(u[2][1], u[1], {"branchTaken", "branchNotTaken"}) \/ Hidden(u[2][1])
         /\ Explains(u[9], u[2][2])
    BY <2>7, <2>8, <2>9
  <2>11. QED
    BY <2>10 DEF u
<1>4. QED
  BY <1>2, <1>3

(***************************************************************************)
(* LinksResolve, for every program: an anchor stands on the first line of  *)
(* its range and on no other, because numbers are given once in the whole  *)
(* program, because the line before an unexecuted range always shows       *)
(* something else, and because the instructions of a map are executed as a *)
(* whole; and no explanation file is written twice for different lines.    *)
(***************************************************************************)
THEOREM LinksLeadWhereTheySay == Spec => []LinksResolve
<1>1. ReportInv => LinksResolve
  BY IndexResolves, CoverageResolves, SizesResolve, BranchesResolve DEF LinksResolve
<1>2. QED
  BY <1>1, ReportInvHolds, PTL
-----------------------------------------------------------------------------
(***************************************************************************)
(* Counting.  A sum over all positions of a flattened list of lists is the *)
(* sum of the sums over each list.                                         *)
(***************************************************************************)
\* The values f has at the positions of the ith list are those of g[i], and add
\* up to h[i].
Splits(n, len, f, g, h) ==
  /\ \A i \in 1 .. n : \A j \in 1 .. len[i] : g[i][j] \in Nat /\ f[At(len, i, j)] = g[i][j]
  /\ \A i \in 1 .. n : h[i] = SumFunctionOnSet(g[i], 1 .. len[i])

\* So all of them add up to the sum over h.
LEMMA SumFlat ==
  ASSUME NEW n, NEW len, Sized(n, len), NEW f, NEW g, NEW h, Splits(n, len, f, g, h)
  PROVE  SumFunctionOnSet(f, 1 .. Before(len, n + 1)) = SumFunctionOnSet(h, 1 .. n)
<1> DEFINE Spots(i) == [j \in 1 .. len[i] |-> At(len, i, j)]
           c == [i \in 1 .. n |-> {Spots(i)[j] : j \in 1 .. len[i]}]
           S == 1 .. n
           e == [i \in S |-> SumFunctionOnSet(f, c[i])]
<1>0. /\ \A i \in 1 .. n : \A j \in 1 .. len[i] : g[i][j] \in Nat /\ f[At(len, i, j)] = g[i][j]
      /\ \A i \in 1 .. n : h[i] = SumFunctionOnSet(g[i], 1 .. len[i])
  BY DEF Splits
<1>1. n \in Nat /\ IsFiniteSet(S) /\ \A i \in S : len[i] \in Nat
  BY FS_Interval DEF Sized
<1>2. \A i \in S : IsFiniteSet(1 .. len[i])
  <2>1. \A x \in Nat : IsFiniteSet(1 .. x)
    BY FS_Interval
  <2>2. QED
    BY <1>1, <2>1
<1>3. \A i \in S : \A j, k \in 1 .. len[i] : Spots(i)[j] = Spots(i)[k] => j = k
  BY AtOne
<1>4. UNION {c[i] : i \in S} = 1 .. Before(len, n + 1)
  <2>1. /\ \A i \in S : \A j \in 1 .. len[i] : At(len, i, j) \in 1 .. Before(len, n + 1)
        /\ \A k \in 1 .. Before(len, n + 1) : \E i \in S : \E j \in 1 .. len[i] : k = At(len, i, j)
    BY AtFacts
  <2>2. \A i \in S : \A k : k \in c[i] <=> \E j \in 1 .. len[i] : k = At(len, i, j)
    OBVIOUS
  <2> HIDE DEF c
  <2>3. QED
    BY <2>1, <2>2
<1>5. \A i, k \in S : i # k => c[i] \cap c[k] = {}
  <2>1. ASSUME NEW i \in S, NEW k \in S, NEW z, z \in c[i], z \in c[k] PROVE i = k
    <3>1. PICK j \in 1 .. len[i] : z = At(len, i, j)
      BY <2>1
    <3>2. PICK m \in 1 .. len[k] : z = At(len, k, m)
      BY <2>1
    <3>3. At(len, i, j) = At(len, k, m)
      BY <3>1, <3>2
    <3>4. QED
      BY <3>3, AtOne
  <2> HIDE DEF c
  <2>2. QED
    BY <2>1
<1>6. ASSUME NEW i \in S
      PROVE  /\ IsFiniteSet(c[i]) /\ \A z \in c[i] : f[z] \in Nat
             /\ SumFunctionOnSet(f, c[i]) = h[i]
  <2> DEFINE p == Spots(i)
             T == 1 .. len[i]
             q == [j \in T |-> f[p[j]]]
  <2>1. c[i] = {p[j] : j \in T}
    OBVIOUS
  <2>2. \A j \in T : p[j] = At(len, i, j)
    OBVIOUS
  <2>3. \A j \in T : f[p[j]] = g[i][j] /\ f[p[j]] \in Nat
    BY <1>0, <2>2
  <2>4. \A j, k \in T : p[j] = p[k] => j = k
    BY <1>3
  <2>5. IsFiniteSet(T)
    BY <1>2
  <2> HIDE DEF p, c, T
  <2>6. IsFiniteSet(c[i]) /\ \A z \in c[i] : f[z] \in Nat
    <3>1. IsFiniteSet({p[j] : j \in T})
      BY <2>5, ImageFinite
    <3>2. QED
      BY <2>1, <2>3, <3>1
  <2>7. SumFunctionOnSet(q, T) = SumFunctionOnSet(f, c[i])
    <3>1. SumFunctionOnSet([j \in T |-> f[p[j]]], T) = SumFunctionOnSet(f, {p[j] : j \in T})
      BY ONLY <2>3, <2>4, <2>5, SumMapped
    <3>2. QED
      BY <2>1, <3>1
  <2>8. \A j \in T : q[j] = g[i][j]
    BY <2>3
  <2> HIDE DEF q
  <2>9. SumFunctionOnSet(q, T) = SumFunctionOnSet(g[i], T)
    BY <2>5, <2>8, SumEqual
  <2>10. QED
    <3>1. h[i] = SumFunctionOnSet(g[i], T)
      BY <1>0 DEF T
    <3>2. QED
      BY <2>6, <2>7, <2>9, <3>1
<1> HIDE DEF c, S, Spots
<1>7. SumFunctionOnSet(f, UNION {c[i] : i \in S}) = SumFunctionOnSet([i \in S |-> SumFunctionOnSet(f, c[i])], S)
  BY <1>1, <1>5, <1>6, SumUnion
<1>8. SumFunctionOnSet(e, S) = SumFunctionOnSet(h, S)
  <2>1. \A i \in S : e[i] = h[i]
    BY <1>6
  <2> HIDE DEF e
  <2>2. QED
    BY <1>1, <2>1, SumEqual
<1>9. QED
  BY <1>4, <1>7, <1>8 DEF S

\* A sum over the elements of a set of numbers by rank is one over the set.
LEMMA SumRanked ==
  ASSUME NEW T, IsFiniteSet(T), T \subseteq Nat, NEW f, NEW g,
         \A b \in T : g[b] \in Nat,
         \A j \in 1 .. Cardinality(T) : f[j] = g[Ranked(T, j)]
  PROVE  SumFunctionOnSet(f, 1 .. Cardinality(T)) = SumFunctionOnSet(g, T)
<1> DEFINE J == 1 .. Cardinality(T)
           p == [j \in J |-> Ranked(T, j)]
           q == [j \in J |-> g[p[j]]]
<1>1. Cardinality(T) \in Nat
  BY FS_CardinalityType
<1>2. IsFiniteSet(J)
  BY <1>1, FS_Interval
<1>3. \A j \in J : p[j] \in T /\ Rank(T, p[j]) = j
  BY RankedFacts
<1>4. {p[j] : j \in J} = T
  <2>1. \A b \in T : Rank(T, b) \in J /\ p[Rank(T, b)] = b
    BY RankFacts
  <2> HIDE DEF p, J
  <2>2. QED
    BY <1>3, <2>1
<1>5. \A j \in J : q[j] = f[j]
  OBVIOUS
<1> HIDE DEF p, J
<1>6. SumFunctionOnSet(q, J) = SumFunctionOnSet(g, {p[j] : j \in J})
  <2>1. \A j, k \in J : p[j] = p[k] => j = k
    BY <1>3
  <2>2. \A j \in J : g[p[j]] \in Nat
    BY <1>3
  <2>3. QED
    BY <1>2, <2>1, <2>2, SumMapped
<1> HIDE DEF q
<1>7. SumFunctionOnSet(q, J) = SumFunctionOnSet(f, J)
  BY <1>2, <1>5, SumEqual
<1>8. QED
  BY <1>4, <1>6, <1>7 DEF J

\* Where nothing counts outside the symbols some executable holds, all count.
LEMMA OverAll ==
  ASSUME Reporting, NEW f, \A i \in 1 .. Len(Symbols) : f[i] \in Nat,
         \A i \in 1 .. Len(Symbols) : Symbols[i].size = 0 => f[i] = 0
  PROVE  OverReferenced(f) = SumFunctionOnSet(f, 1 .. Len(Symbols))
<1> DEFINE S == 1 .. Len(Symbols)
<1>1. DOMAIN Symbols = S /\ Len(Symbols) \in Nat /\ \A i \in S : Fit(Symbols[i])
  BY DEF Reporting, AllFit
<1>2. IsFiniteSet(S)
  BY <1>1, FS_Interval
<1>3. Referenced \subseteq S /\ \A i \in S \ Referenced : Symbols[i].size = 0
  BY <1>1, SymbolFacts DEF Referenced
<1> HIDE DEF S
<1>4. SumFunctionOnSet(f, Referenced) = SumFunctionOnSet(f, S)
  <2>1. \A i \in Referenced : f[i] \in Nat
    BY <1>3 DEF S
  <2>2. \A i \in S \ Referenced : f[i] = 0
    BY <1>3 DEF S
  <2>3. QED
    BY <1>2, <1>3, <2>1, <2>2, SumRest
<1>5. QED
  BY <1>4 DEF OverReferenced, S

\* A symbol no executable holds has nothing to count.
LEMMA NothingThere ==
  ASSUME NEW s, Fit(s), s.size = 0
  PROVE  /\ Bytes(s) = {} /\ s.start = {} /\ s.exec = {} /\ DOMAIN s.went = {}
         /\ RunStarts(s) = {} /\ OneWay(s) = {} /\ NotExecuted(s) = 0
<1>1. Bytes(s) = {}
  BY DEF Bytes
<1>2. s.start = {} /\ s.exec = {} /\ DOMAIN s.went = {}
  BY <1>1, SymbolFacts
<1>3. RunStarts(s) = {} /\ OneWay(s) = {}
  BY <1>1, <1>2, StartsFacts
<1>4. NotExecuted(s) = 0
  <2>1. {b \in 0 .. s.size - 1 : ~Executed(s, b)} = {}
    BY <1>1 DEF Bytes
  <2>2. QED
    BY <2>1, FS_EmptySet DEF NotExecuted
<1>5. QED
  BY <1>1, <1>2, <1>3, <1>4

\* Every byte that was not executed is one of a range.
LEMMA RunsCover ==
  ASSUME NEW s, Fit(s), NEW x \in Bytes(s), x \notin s.exec
  PROVE  \E b \in RunStarts(s) : x \in b .. RunEnd(s, b)
<1> DEFINE D == {b \in 0 .. x : \A y \in b .. x : y \notin s.exec}
<1>1. s.size \in Nat /\ x \in Nat /\ x \in 0 .. s.size - 1
  BY SymbolFacts DEF Bytes
<1>2. x \in D /\ D \subseteq Nat
  BY <1>1
<1>3. PICK b \in D : \A y \in D : b <= y
  <2> HIDE DEF D
  <2>1. QED
    BY <1>2, LeastNatural
<1>4. b \in 0 .. x /\ b \in Nat /\ \A y \in b .. x : y \notin s.exec
  BY <1>1, <1>3
<1>5. b \notin s.exec /\ b \in Bytes(s)
  BY <1>1, <1>4 DEF Bytes
<1>6. b = 0 \/ b - 1 \in s.exec
  <2>1. SUFFICES ASSUME b # 0, b - 1 \notin s.exec PROVE FALSE
    OBVIOUS
  <2>2. b - 1 \in 0 .. x
    BY <1>1, <1>4, <2>1
  <2>3. \A y \in b - 1 .. x : y = b - 1 \/ y \in b .. x
    BY <1>1, <1>4
  <2>4. b - 1 \in D
    BY <1>4, <2>1, <2>2, <2>3
  <2> HIDE DEF D
  <2>5. b <= b - 1
    BY <1>3, <2>4
  <2>6. QED
    BY <1>4, <2>5
<1>7. b \in RunStarts(s)
  BY <1>5, <1>6 DEF RunStarts, Executed, Bytes
<1>8. /\ RunEnd(s, b) \in b .. s.size - 1
      /\ RunEnd(s, b) = s.size - 1 \/ RunEnd(s, b) + 1 \in s.exec
  BY <1>5, RunEndFacts
<1> DEFINE h == RunEnd(s, b)
<1> HIDE DEF h, D
<1>9. x <= h
  <2>1. h \in b .. s.size - 1 /\ (h = s.size - 1 \/ h + 1 \in s.exec)
    BY <1>8 DEF h
  <2>2. SUFFICES ASSUME h < x PROVE FALSE
    BY <1>1, <1>4, <2>1
  <2>3. h + 1 \in b .. x /\ h # s.size - 1
    BY <1>1, <1>4, <2>1, <2>2
  <2>4. QED
    BY <1>4, <2>1, <2>3
<1>10. x \in b .. h
  BY <1>1, <1>4, <1>8, <1>9 DEF h
<1>11. QED
  BY <1>7, <1>10 DEF h

\* ... and of only one.
LEMMA RunsApart ==
  ASSUME NEW s, Fit(s), NEW b \in RunStarts(s), NEW c \in RunStarts(s),
         NEW x, x \in b .. RunEnd(s, b), x \in c .. RunEnd(s, c)
  PROVE  b = c
<1>1. \A a \in RunStarts(s) : /\ a \in Nat /\ a \in Bytes(s) /\ a \notin s.exec
                              /\ a = 0 \/ a - 1 \in s.exec
  BY SymbolFacts DEF RunStarts, Executed, Bytes
<1>2. \A a \in RunStarts(s) : /\ RunEnd(s, a) \in a .. s.size - 1
                              /\ \A y \in a .. RunEnd(s, a) : y \notin s.exec
  BY <1>1, RunEndFacts
<1>3. s.size \in Nat
  BY SymbolFacts
<1>4. \A a, d \in RunStarts(s) : x \in a .. RunEnd(s, a) /\ x \in d .. RunEnd(s, d) => ~(a < d)
  <2>1. ASSUME NEW a \in RunStarts(s), NEW d \in RunStarts(s),
               x \in a .. RunEnd(s, a), x \in d .. RunEnd(s, d), a < d
        PROVE  FALSE
    <3> DEFINE h == RunEnd(s, a)
               k == RunEnd(s, d)
    <3>1. a \in Nat /\ d \in Nat /\ h \in a .. s.size - 1 /\ k \in d .. s.size - 1
      BY <1>1, <1>2
    <3>2. (d = 0 \/ d - 1 \in s.exec) /\ \A y \in a .. h : y \notin s.exec
      BY <1>1, <1>2
    <3>3. x \in a .. h /\ x \in d .. k
      BY <2>1
    <3> HIDE DEF h, k
    <3>4. d # 0 /\ d - 1 \in a .. h
      BY <1>3, <2>1, <3>1, <3>3
    <3>5. QED
      BY <3>2, <3>4
  <2>2. QED
    BY <2>1
<1>5. ~(b < c) /\ ~(c < b)
  BY <1>4
<1>6. b \in Nat /\ c \in Nat
  BY <1>1
<1>7. QED
  BY <1>5, <1>6

\* What the ranges hold of any set of bytes is what of it was not executed.
LEMMA RunsSplit ==
  ASSUME NEW s, Fit(s), NEW X, X \subseteq Bytes(s)
  PROVE  Cardinality(X \ s.exec)
           = SumFunctionOnSet([b \in RunStarts(s) |-> Cardinality(X \cap b .. RunEnd(s, b))],
                              RunStarts(s))
<1> DEFINE S == RunStarts(s)
           c == [b \in S |-> X \cap b .. RunEnd(s, b)]
<1>1. IsFiniteSet(S) /\ IsFiniteSet(X)
  <2>1. IsFiniteSet(Bytes(s)) /\ IsFiniteSet(RunStarts(s))
    BY SymbolFacts, StartsFacts
  <2>2. QED
    BY <2>1, FS_Subset
<1>2. \A b \in S : IsFiniteSet(c[b])
  <2>1. \A b \in S : c[b] \subseteq X
    OBVIOUS
  <2> HIDE DEF c
  <2>2. QED
    BY <1>1, <2>1, FS_Subset
<1>3. \A b, d \in S : b # d => c[b] \cap c[d] = {}
  BY RunsApart
<1>4. UNION {c[b] : b \in S} = X \ s.exec
  <2>1. ASSUME NEW x \in X, x \notin s.exec PROVE \E b \in S : x \in c[b]
    BY <2>1, RunsCover
  <2>2. ASSUME NEW b \in S, NEW x \in c[b] PROVE x \in X /\ x \notin s.exec
    <3>1. b \in Bytes(s) /\ b \notin s.exec
      BY DEF RunStarts, Bytes, Executed
    <3>2. \A y \in b .. RunEnd(s, b) : y \notin s.exec
      BY <3>1, RunEndFacts
    <3>3. QED
      BY <3>2
  <2> HIDE DEF c, S
  <2>3. QED
    BY <2>1, <2>2
<1>5. [b \in S |-> Cardinality(c[b])] = [b \in S |-> Cardinality(X \cap b .. RunEnd(s, b))]
  OBVIOUS
<1> HIDE DEF c, S
<1>6. Cardinality(UNION {c[b] : b \in S}) = SumFunctionOnSet([b \in S |-> Cardinality(c[b])], S)
  BY <1>1, <1>2, <1>3, CardUnion
<1>7. QED
  BY <1>4, <1>5, <1>6 DEF S

\* The sizes of the ranges add up to the bytes that were not executed.
LEMMA RunSizes ==
  ASSUME NEW s, Fit(s), NEW g, \A b \in RunStarts(s) : g[b] = RunEnd(s, b) - b + 1
  PROVE  /\ NotExecuted(s) = SumFunctionOnSet(g, RunStarts(s)) /\ NotExecuted(s) \in Nat
         /\ \A b \in RunStarts(s) : g[b] \in Nat
<1> DEFINE S == RunStarts(s)
           f == [b \in S |-> Cardinality(Bytes(s) \cap b .. RunEnd(s, b))]
<1>1. NotExecuted(s) = Cardinality(Bytes(s) \ s.exec)
  <2>1. {b \in 0 .. s.size - 1 : ~Executed(s, b)} = Bytes(s) \ s.exec
    BY DEF Bytes, Executed
  <2>2. QED
    BY <2>1 DEF NotExecuted
<1>2. IsFiniteSet(S) /\ IsFiniteSet(Bytes(s)) /\ s.size \in Nat
  BY SymbolFacts, StartsFacts
<1>3. Cardinality(Bytes(s) \ s.exec) \in Nat
  <2>1. IsFiniteSet(Bytes(s) \ s.exec)
    BY <1>2, FS_Subset
  <2>2. QED
    BY <2>1, FS_CardinalityType
<1>4. ASSUME NEW b \in S PROVE f[b] = g[b] /\ g[b] \in Nat
  <2> DEFINE h == RunEnd(s, b)
  <2>1. b \in Nat /\ b \in Bytes(s) /\ b \notin s.exec
    BY SymbolFacts DEF RunStarts, Bytes, Executed
  <2>2. h \in b .. s.size - 1
    BY <2>1, RunEndFacts
  <2> HIDE DEF h
  <2>3. Bytes(s) \cap b .. h = b .. h
    BY <1>2, <2>1, <2>2 DEF Bytes
  <2>4. b \in Int /\ h \in Int
    BY <1>2, <2>1, <2>2
  <2>5. Cardinality(b .. h) = h - b + 1
    BY <1>2, <2>1, <2>2, <2>4, FS_Interval
  <2>6. h - b + 1 \in Nat
    BY <1>2, <2>1, <2>2
  <2>7. f[b] = Cardinality(Bytes(s) \cap b .. h) /\ g[b] = h - b + 1
    BY DEF h
  <2>8. QED
    BY <2>3, <2>5, <2>6, <2>7
<1>5. Cardinality(Bytes(s) \ s.exec) = SumFunctionOnSet(f, S)
  BY RunsSplit
<1> HIDE DEF f, S
<1>6. SumFunctionOnSet(f, S) = SumFunctionOnSet(g, S)
  BY <1>2, <1>4, SumEqual
<1>7. QED
  BY <1>1, <1>3, <1>4, <1>5, <1>6 DEF S

\* How many lines of one symbol are annotated in some way: as many as
\* instructions are to be.
LEMMA LinesCounted ==
  ASSUME Reporting, NEW states, "source" \notin states, NEW i \in 1 .. Len(Symbols),
         NEW T, T \subseteq Symbols[i].start,
         \A k \in Insns(Symbols[i]) :
           Annotated(i, Symbols[i].lines[k]).state \in states <=> Symbols[i].lines[k].offset \in T,
         WhollyCovered(i) => T = {}
  PROVE  Cardinality({k \in 1 .. LineCount(i) : Annotated(i, Symbols[i].lines[k]).state \in states})
           = Cardinality(T)
<1> DEFINE s == Symbols[i]
           K == {k \in 1 .. LineCount(i) : Annotated(i, s.lines[k]).state \in states}
           p == [k \in K |-> s.lines[k].offset]
<1>1. Fit(s)
  BY DEF Reporting, AllFit
<1>2. CASE WhollyCovered(i)
  <2>1. LineCount(i) = 0
    BY <1>2 DEF LineCount
  <2>2. K = {}
    BY <2>1
  <2>3. QED
    BY <1>2, <2>2
<1>3. CASE ~WhollyCovered(i)
  <2>1. 1 .. LineCount(i) = DOMAIN s.lines /\ LineCount(i) \in Nat
    BY <1>1, <1>3, LineFacts DEF LineCount
  <2>2. \A l : ~l.insn => Annotated(i, l).state = "source"
    BY DEF Annotated
  <2>3. \A k \in K : k \in Insns(s) /\ s.lines[k].offset \in T
    BY <2>1, <2>2 DEF Insns
  <2>4. IsFiniteSet(K)
    <3>1. IsFiniteSet(1 .. LineCount(i)) /\ K \subseteq 1 .. LineCount(i)
      BY <2>1, FS_Interval
    <3> HIDE DEF K
    <3>2. QED
      BY <3>1, FS_Subset
  <2>5. \A b \in T : \E k \in K : s.lines[k].offset = b
    <3>1. ASSUME NEW b \in T PROVE \E k \in K : s.lines[k].offset = b
      <4>1. PICK k \in Insns(s) : s.lines[k].offset = b
        BY <1>1, LineFacts
      <4>2. k \in 1 .. LineCount(i)
        BY <2>1 DEF Insns
      <4>3. k \in K
        BY <4>1, <4>2
      <4>4. QED
        BY <4>1, <4>3
    <3>2. QED
      BY <3>1
  <2>6. \A j, k \in K : p[j] = p[k] => j = k
    <3>1. \A j, k \in Insns(s) : s.lines[j].offset = s.lines[k].offset => j = k
      BY <1>1, LineFacts
    <3> HIDE DEF K
    <3>2. QED
      BY <2>3, <3>1
  <2>7. {p[k] : k \in K} = T
    <3>1. \A k \in K : p[k] \in T
      BY <2>3
    <3>2. \A b \in T : \E k \in K : p[k] = b
      BY <2>5
    <3> HIDE DEF K, p
    <3>3. QED
      BY <3>1, <3>2
  <2> HIDE DEF K, p
  <2>8. Cardinality({p[k] : k \in K}) = Cardinality(K)
    BY <2>4, <2>6, ImageSize
  <2>9. QED
    BY <2>7, <2>8 DEF K
<1>4. QED
  BY <1>2, <1>3

\* The lines of all symbols annotated in some way.
LEMMA AnnotatedCounted ==
  ASSUME Reporting, files["annotated.txt"] = AnnotatedTxt,
         NEW states, "source" \notin states, NEW T,
         \A i \in 1 .. Len(Symbols) : T[i] \subseteq Symbols[i].start,
         \A i \in 1 .. Len(Symbols) : \A k \in Insns(Symbols[i]) :
           Annotated(i, Symbols[i].lines[k]).state \in states <=> Symbols[i].lines[k].offset \in T[i],
         \A i \in 1 .. Len(Symbols) : WhollyCovered(i) => T[i] = {},
         NEW h, \A i \in 1 .. Len(Symbols) : h[i] = Cardinality(T[i])
  PROVE  AnnotatedAs(states) = SumFunctionOnSet(h, 1 .. Len(Symbols))
<1> DEFINE n == Len(Symbols)
           len == Lens(LineLists)
           L == AnnotatedLines
           D == 1 .. Len(L)
           One(l) == IF l.state \in states THEN 1 ELSE 0
           f == [x \in D |-> One(L[x])]
           g == [i \in 1 .. n |-> [k \in 1 .. LineCount(i) |-> One(Annotated(i, Symbols[i].lines[k]))]]
<1>1. /\ Len(L) \in Nat /\ DOMAIN L = D
      /\ Sized(n, len) /\ Len(L) = Before(len, n + 1)
      /\ \A i \in 1 .. n : LineCount(i) \in Nat /\ len[i] = LineCount(i)
      /\ \A i \in 1 .. n : \A k \in 1 .. LineCount(i) :
           LineAt(i, k) \in D /\ L[LineAt(i, k)] = Annotated(i, Symbols[i].lines[k])
  BY AnnotatedFacts
<1>2. Rows("annotated.txt") = L
  BY DEF Rows, AnnotatedTxt, Table
<1>3. AnnotatedAs(states) = Cardinality({x \in D : L[x].state \in states})
  BY <1>1, <1>2 DEF AnnotatedAs
<1>4. Cardinality({x \in D : L[x].state \in states}) = SumFunctionOnSet(f, D)
  <2> DEFINE X == {x \in D : L[x].state \in states}
  <2>1. IsFiniteSet(D)
    BY <1>1, FS_Interval
  <2>2. X \subseteq D /\ \A x \in D : f[x] = IF x \in X THEN 1 ELSE 0
    OBVIOUS
  <2> HIDE DEF X, f, D
  <2>3. QED
    BY <2>1, <2>2, CountAsSum DEF X
<1>5. \A i \in 1 .. n : \A k \in 1 .. len[i] : g[i][k] \in Nat /\ f[At(len, i, k)] = g[i][k]
  <2>1. ASSUME NEW i \in 1 .. n, NEW k \in 1 .. LineCount(i)
        PROVE  g[i][k] \in Nat /\ f[LineAt(i, k)] = g[i][k]
    <3>1. LineAt(i, k) \in D /\ L[LineAt(i, k)] = Annotated(i, Symbols[i].lines[k])
      BY <1>1
    <3>2. f[LineAt(i, k)] = One(L[LineAt(i, k)])
      BY <3>1
    <3>3. g[i][k] = One(Annotated(i, Symbols[i].lines[k]))
      OBVIOUS
    <3>4. g[i][k] \in Nat
      BY <3>3
    <3>5. QED
      BY <3>1, <3>2, <3>3, <3>4
  <2>2. \A i, k : LineAt(i, k) = At(len, i, k)
    BY DEF LineAt
  <2>3. \A i \in 1 .. n : len[i] = LineCount(i)
    BY <1>1
  <2> HIDE DEF f, g, len
  <2>4. QED
    BY <2>1, <2>2, <2>3
<1>6. ASSUME NEW i \in 1 .. n PROVE h[i] = SumFunctionOnSet(g[i], 1 .. len[i])
  <2> DEFINE J == 1 .. LineCount(i)
             K == {k \in J : Annotated(i, Symbols[i].lines[k]).state \in states}
  <2>1. IsFiniteSet(J)
    BY <1>1, FS_Interval
  <2>2. K \subseteq J /\ \A k \in J : g[i][k] = IF k \in K THEN 1 ELSE 0
    OBVIOUS
  <2>3. Cardinality(K) = Cardinality(T[i])
    BY LinesCounted
  <2>4. len[i] = LineCount(i)
    BY <1>1
  <2> HIDE DEF K, g, len
  <2>5. Cardinality(K) = SumFunctionOnSet(g[i], J)
    BY <2>1, <2>2, CountAsSum
  <2>6. QED
    BY <2>3, <2>4, <2>5
<1>7. SumFunctionOnSet(f, 1 .. Before(len, n + 1)) = SumFunctionOnSet(h, 1 .. n)
  <2>1. Sized(n, len)
    BY <1>1
  <2>2. \A i \in 1 .. n : h[i] = SumFunctionOnSet(g[i], 1 .. len[i])
    BY <1>6
  <2>3. \A i \in 1 .. n : \A k \in 1 .. len[i] : g[i][k] \in Nat /\ f[At(len, i, k)] = g[i][k]
    BY <1>5
  <2>4. Splits(n, len, f, g, h)
    BY <2>2, <2>3 DEF Splits
  <2> HIDE DEF f, g, n, len
  <2>5. QED
    BY ONLY <2>1, <2>4, SumFlat
<1>8. QED
  BY <1>1, <1>3, <1>4, <1>7

\* What is left out of the annotated assembly has nothing to show.
LEMMA LeftOut ==
  ASSUME Reporting, NEW i \in 1 .. Len(Symbols), WhollyCovered(i)
  PROVE  /\ RunStarts(Symbols[i]) = {} /\ OneWay(Symbols[i]) = {}
         /\ Symbols[i].start \ Symbols[i].exec = {}
<1>1. Starts(Symbols[i]) = {}
  <2>1. SUFFICES ASSUME NEW b \in Starts(Symbols[i]) PROVE FALSE
    OBVIOUS
  <2>2. PICK k \in Insns(Symbols[i]) : k \in 1 .. LineCount(i)
    BY PlaceLine
  <2>3. QED
    BY <2>2 DEF LineCount
<1>2. RunStarts(Symbols[i]) = {} /\ OneWay(Symbols[i]) = {}
  BY <1>1 DEF Starts
<1>3. ASSUME NEW x \in Symbols[i].start, x \notin Symbols[i].exec PROVE FALSE
  <2>1. Fit(Symbols[i])
    BY DEF Reporting, AllFit
  <2>2. x \in Bytes(Symbols[i])
    BY <2>1, SymbolFacts
  <2>3. QED
    BY <1>2, <1>3, <2>1, <2>2, RunsCover
<1>4. QED
  BY <1>2, <1>3

\* Instructions never executed, and branches of one verdict, are annotated so.
LEMMA AnnotatedTwice ==
  ASSUME Reporting, files["annotated.txt"] = AnnotatedTxt,
         NEW u, \A i \in 1 .. Len(Symbols) : u[i] = Cardinality(Symbols[i].start \ Symbols[i].exec),
         NEW v, \A i \in 1 .. Len(Symbols) : v[i] = Cardinality(OneWay(Symbols[i]))
  PROVE  /\ AnnotatedAs({"neverExecuted"}) = SumFunctionOnSet(u, 1 .. Len(Symbols))
         /\ AnnotatedAs({"branchTaken", "branchNotTaken"}) = SumFunctionOnSet(v, 1 .. Len(Symbols))
<1> DEFINE n == Len(Symbols)
           T == [i \in 1 .. n |-> Symbols[i].start \ Symbols[i].exec]
           W == [i \in 1 .. n |-> OneWay(Symbols[i])]
<1>1. \A i \in 1 .. n : T[i] \subseteq Symbols[i].start /\ W[i] \subseteq Symbols[i].start
  BY StartsFacts DEF Reporting, AllFit
<1>2. \A i \in 1 .. n : WhollyCovered(i) => T[i] = {} /\ W[i] = {}
  BY LeftOut
<1>3. ASSUME NEW i \in 1 .. n, NEW k \in Insns(Symbols[i])
      PROVE  LET l == Symbols[i].lines[k] IN
             /\ Annotated(i, l).state \in {"neverExecuted"} <=> l.offset \in T[i]
             /\ Annotated(i, l).state \in {"branchTaken", "branchNotTaken"} <=> l.offset \in W[i]
  <2> DEFINE s == Symbols[i]
             l == s.lines[k]
             b == l.offset
  <2>1. l.insn /\ b \in s.start
    BY LineFacts DEF Reporting, AllFit
  <2>2. T[i] = s.start \ s.exec /\ W[i] = OneWay(s)
    OBVIOUS
  <2>3. CASE b \notin s.exec
    <3>1. Annotated(i, l).state = "neverExecuted"
      BY <2>1, <2>3, InsnAnnotated
    <3>2. b \notin OneWay(s)
      BY <2>3 DEF OneWay
    <3>3. QED
      BY <2>1, <2>2, <2>3, <3>1, <3>2
  <2>4. CASE b \in s.exec /\ b \in DOMAIN s.went
    <3>1. Annotated(i, l).state = BranchState(s, b)
      BY <2>1, <2>4, InsnAnnotated
    <3>2. BranchState(s, b) # "neverExecuted"
      BY DEF BranchState
    <3>3. BranchState(s, b) \in {"branchTaken", "branchNotTaken"} <=> b \in OneWay(s)
      BY <2>4 DEF BranchState, OneWay
    <3> HIDE DEF b, l
    <3>4. QED
      BY <2>2, <2>4, <3>1, <3>2, <3>3 DEF b, l
  <2>5. CASE b \in s.exec /\ b \notin DOMAIN s.went
    <3>1. Annotated(i, l).state = "executed"
      BY <2>1, <2>5, InsnAnnotated
    <3>2. b \notin OneWay(s)
      BY <2>5 DEF OneWay, Always, Never, IsBranch
    <3>3. QED
      BY <2>2, <2>5, <3>1, <3>2
  <2>6. QED
    BY <2>3, <2>4, <2>5
<1>4. \A i \in 1 .. n : u[i] = Cardinality(T[i]) /\ v[i] = Cardinality(W[i])
  OBVIOUS
<1> HIDE DEF T, W
<1>5. AnnotatedAs({"neverExecuted"}) = SumFunctionOnSet(u, 1 .. n)
  <2>1. "source" \notin {"neverExecuted"}
    OBVIOUS
  <2>2. \A i \in 1 .. n : \A k \in Insns(Symbols[i]) :
          Annotated(i, Symbols[i].lines[k]).state \in {"neverExecuted"}
            <=> Symbols[i].lines[k].offset \in T[i]
    BY <1>3
  <2>3. QED
    BY <1>1, <1>2, <1>4, <2>1, <2>2, AnnotatedCounted
<1>6. AnnotatedAs({"branchTaken", "branchNotTaken"}) = SumFunctionOnSet(v, 1 .. n)
  <2>1. "source" \notin {"branchTaken", "branchNotTaken"}
    OBVIOUS
  <2>2. \A i \in 1 .. n : \A k \in Insns(Symbols[i]) :
          Annotated(i, Symbols[i].lines[k]).state \in {"branchTaken", "branchNotTaken"}
            <=> Symbols[i].lines[k].offset \in W[i]
    BY <1>3
  <2>3. QED
    BY <1>1, <1>2, <1>4, <2>1, <2>2, AnnotatedCounted
<1>7. QED
  BY <1>5, <1>6

\* A sum over a whole program.
LEMMA SumOfAll ==
  ASSUME NEW n \in Nat, NEW len, Sized(n, len)
  PROVE  Before(len, n + 1) = SumFunctionOnSet(len, 1 .. n)
<1>1. 1 .. (n + 1) - 1 = 1 .. n
  OBVIOUS
<1>2. QED
  BY <1>1 DEF Before

\* The number of places of either kind.
LEMMA PlacesCounted ==
  ASSUME Reporting,
         NEW u, \A i \in 1 .. Len(Symbols) : u[i] = Cardinality(RunStarts(Symbols[i])),
         NEW v, \A i \in 1 .. Len(Symbols) : v[i] = Cardinality(OneWay(Symbols[i]))
  PROVE  /\ Len(Places(ranges)) = SumFunctionOnSet(u, 1 .. Len(Symbols))
         /\ Len(Places(branches)) = SumFunctionOnSet(v, 1 .. Len(Symbols))
<1> DEFINE n == Len(Symbols)
<1>1. /\ AllFit(Symbols) /\ Kind(Symbols, RunsOf(Symbols)) /\ Kind(Symbols, WaysOf(Symbols))
      /\ Places(ranges) = FlattenSeq(SpotLists(Symbols, RunsOf(Symbols)))
      /\ Places(branches) = FlattenSeq(SpotLists(Symbols, WaysOf(Symbols)))
      /\ n \in Nat /\ DOMAIN Symbols = 1 .. n
  BY PlacesFacts DEF AllFit
<1>2. IsFiniteSet(1 .. n)
  BY <1>1, FS_Interval
<1>3. ASSUME NEW T, Kind(Symbols, T), NEW w, \A i \in 1 .. n : w[i] = Cardinality(T[i])
      PROVE  Len(FlattenSeq(SpotLists(Symbols, T))) = SumFunctionOnSet(w, 1 .. n)
  <2> DEFINE len == Sizes(T)
  <2>1. Sized(n, len) /\ Len(FlattenSeq(SpotLists(Symbols, T))) = Before(len, n + 1)
    BY <1>1, <1>3, SpotFacts
  <2>2. \A i \in 1 .. n : len[i] = w[i]
    BY <1>3 DEF Kind, Sizes
  <2> HIDE DEF len, n
  <2>3. Before(len, n + 1) = SumFunctionOnSet(len, 1 .. n)
    BY <1>1, <2>1, SumOfAll
  <2>4. SumFunctionOnSet(len, 1 .. n) = SumFunctionOnSet(w, 1 .. n)
    BY <1>2, <2>2, SumEqual
  <2>5. QED
    BY <2>1, <2>3, <2>4
<1>4. \A i \in 1 .. n : u[i] = Cardinality(RunsOf(Symbols)[i]) /\ v[i] = Cardinality(WaysOf(Symbols)[i])
  BY <1>1 DEF RunsOf, WaysOf
<1>5. Len(Places(ranges)) = SumFunctionOnSet(u, 1 .. n)
  BY <1>1, <1>3, <1>4
<1>6. Len(Places(branches)) = SumFunctionOnSet(v, 1 .. n)
  BY <1>1, <1>3, <1>4
<1>7. QED
  BY <1>5, <1>6

\* The sizes of all ranges add up to the bytes that were not executed.
LEMMA SizesCounted ==
  ASSUME Reporting, NEW f,
         \A k \in 1 .. Len(Places(ranges)) : f[k] = SizeOf(Places(ranges)[k].range),
         NEW h, \A i \in 1 .. Len(Symbols) : h[i] = NotExecuted(Symbols[i])
  PROVE  SumFunctionOnSet(f, 1 .. Len(Places(ranges))) = SumFunctionOnSet(h, 1 .. Len(Symbols))
<1> DEFINE n == Len(Symbols)
           T == RunsOf(Symbols)
           P == Places(ranges)
           len == Sizes(T)
           g == [i \in 1 .. n |-> [j \in 1 .. len[i] |-> SizeOf(Place1(Symbols, i, Ranked(T[i], j)))]]
<1>1. AllFit(Symbols) /\ Kind(Symbols, T) /\ n \in Nat /\ DOMAIN Symbols = 1 .. n
  BY PlacesFacts DEF AllFit
<1>2. /\ Sized(n, len) /\ Len(P) = Before(len, n + 1)
      /\ \A i \in 1 .. n : \A j \in 1 .. Cardinality(T[i]) :
           At(len, i, j) \in 1 .. Len(P) /\ P[At(len, i, j)] = Spot(Symbols, i, Ranked(T[i], j))
  <2>1. P = FlattenSeq(SpotLists(Symbols, T))
    BY PlacesFacts
  <2> HIDE DEF P, T
  <2>2. QED
    BY <1>1, <2>1, SpotFacts
<1>3. \A i \in 1 .. n : T[i] = RunStarts(Symbols[i]) /\ len[i] = Cardinality(T[i]) /\ Fit(Symbols[i])
  BY <1>1 DEF RunsOf, Sizes, Kind, AllFit
<1>4. ASSUME NEW i \in 1 .. n, NEW b \in RunStarts(Symbols[i])
      PROVE  SizeOf(Place1(Symbols, i, b)) = RunEnd(Symbols[i], b) - b + 1
  <2> DEFINE s == Symbols[i]
             r == Place1(Symbols, i, b)
             e == RunEnd(s, b)
             z == s.base
  <2>1. Fit(s) /\ b \in Starts(s) /\ IdBase(Symbols, i) \in Nat /\ z \in Nat
    BY <1>1, <1>3, BasesFacts, SymbolFacts DEF Starts
  <2>2. End(s, b) = e
    BY DEF End, RunStarts
  <2>3. r.low = z + b /\ r.high = z + e
    <3>1. /\ Full(s, b, IdBase(Symbols, i)).low = s.base + b
          /\ Full(s, b, IdBase(Symbols, i)).high = s.base + End(s, b)
      BY <2>1, FullFacts
    <3>2. r = Full(s, b, IdBase(Symbols, i))
      BY DEF Place1
    <3>3. QED
      BY <2>2, <3>1, <3>2
  <2>4. b \in Nat /\ e \in Nat
    BY <2>1, <2>2, EndFacts
  <2>5. SizeOf(r) = r.high - r.low + 1
    BY DEF SizeOf
  <2> HIDE DEF r, e, z
  <2>6. SizeOf(r) = e - b + 1
    BY <2>1, <2>3, <2>4, <2>5
  <2>7. QED
    BY <2>6 DEF r, e
<1>5. ASSUME NEW i \in 1 .. n
      PROVE  /\ \A j \in 1 .. len[i] : g[i][j] \in Nat
             /\ h[i] = SumFunctionOnSet(g[i], 1 .. len[i])
  <2> DEFINE s == Symbols[i]
             R == RunStarts(s)
             v == [b \in R |-> RunEnd(s, b) - b + 1]
             m == Cardinality(R)
             q == g[i]
  <2>1. Fit(s) /\ T[i] = R /\ len[i] = m
    BY <1>3
  <2>2. NotExecuted(s) = SumFunctionOnSet(v, R) /\ \A b \in R : v[b] \in Nat
    <3>1. \A b \in R : v[b] = RunEnd(s, b) - b + 1
      OBVIOUS
    <3> HIDE DEF v
    <3>2. QED
      BY <2>1, <3>1, RunSizes
  <2>3. IsFiniteSet(R) /\ R \subseteq Nat
    BY <2>1, SymbolFacts, StartsFacts
  <2>4. \A j \in 1 .. m : Ranked(R, j) \in R
    BY <2>3, RankedFacts
  <2>5. \A j \in 1 .. m : q[j] = v[Ranked(R, j)]
    <3>1. ASSUME NEW j \in 1 .. m PROVE q[j] = v[Ranked(R, j)]
      <4>1. q[j] = SizeOf(Place1(Symbols, i, Ranked(R, j)))
        BY <2>1
      <4>2. Ranked(R, j) \in RunStarts(Symbols[i])
        BY <2>4
      <4>3. SizeOf(Place1(Symbols, i, Ranked(R, j))) = RunEnd(s, Ranked(R, j)) - Ranked(R, j) + 1
        BY <1>4, <4>2
      <4>4. QED
        BY <2>4, <4>1, <4>3
    <3>2. QED
      BY <3>1
  <2>6. h[i] = NotExecuted(s)
    OBVIOUS
  <2> HIDE DEF v, R, q, g, len, m, s
  <2>7. SumFunctionOnSet(q, 1 .. m) = SumFunctionOnSet(v, R)
    <3>1. \A j \in 1 .. Cardinality(R) : q[j] = v[Ranked(R, j)]
      BY <2>5 DEF m
    <3>2. SumFunctionOnSet(q, 1 .. Cardinality(R)) = SumFunctionOnSet(v, R)
      BY ONLY <2>2, <2>3, <3>1, SumRanked
    <3>3. QED
      BY <3>2 DEF m
  <2>8. \A j \in 1 .. m : q[j] \in Nat
    BY <2>2, <2>4, <2>5
  <2>9. QED
    BY <2>1, <2>2, <2>6, <2>7, <2>8 DEF q
<1>6. \A i \in 1 .. n : \A j \in 1 .. len[i] : f[At(len, i, j)] = g[i][j]
  <2>1. ASSUME NEW i \in 1 .. n, NEW j \in 1 .. len[i] PROVE f[At(len, i, j)] = g[i][j]
    <3>1. j \in 1 .. Cardinality(T[i])
      BY <1>3
    <3>2. At(len, i, j) \in 1 .. Len(P) /\ P[At(len, i, j)] = Spot(Symbols, i, Ranked(T[i], j))
      BY <1>2, <3>1
    <3>3. f[At(len, i, j)] = SizeOf(P[At(len, i, j)].range)
      BY <3>2
    <3>4. g[i][j] = SizeOf(Place1(Symbols, i, Ranked(T[i], j)))
      OBVIOUS
    <3>5. Spot(Symbols, i, Ranked(T[i], j)).range = Place1(Symbols, i, Ranked(T[i], j))
      BY DEF Spot
    <3> HIDE DEF g, P, len, T
    <3>6. QED
      BY <3>2, <3>3, <3>4, <3>5
  <2>2. QED
    BY <2>1
<1>7. Splits(n, len, f, g, h)
  <2> HIDE DEF n, len, g
  <2>1. QED
    BY <1>5, <1>6 DEF Splits
<1>8. SumFunctionOnSet(f, 1 .. Before(len, n + 1)) = SumFunctionOnSet(h, 1 .. n)
  <2>1. Sized(n, len)
    BY <1>2
  <2> HIDE DEF n, len, g
  <2>2. QED
    BY ONLY <1>7, <2>1, SumFlat
<1>9. QED
  BY <1>2, <1>8

\* A sum over the entries of the coverage report that stand for a range.
LEMMA EntriesCounted ==
  ASSUME Reporting, NEW f, NEW v,
         \A i \in 1 .. Len(Symbols) : \A b \in RunStarts(Symbols[i]) : v[i][b] \in Nat,
         \A i \in 1 .. Len(Symbols) : \A j \in 1 .. EntryCount(i) :
           f[EntryAt(i, j)] = IF i \in Unreferenced THEN 0
                              ELSE v[i][Ranked(RunStarts(Symbols[i]), j)],
         NEW h,
         \A i \in 1 .. Len(Symbols) : h[i] = SumFunctionOnSet(v[i], RunStarts(Symbols[i]))
  PROVE  SumFunctionOnSet(f, 1 .. Len(Entries)) = SumFunctionOnSet(h, 1 .. Len(Symbols))
<1> DEFINE n == Len(Symbols)
           len == Lens(EntryLists)
           g == [i \in 1 .. n |-> [j \in 1 .. EntryCount(i) |-> f[EntryAt(i, j)]]]
<1>1. /\ Sized(n, len) /\ Len(Entries) = Before(len, n + 1)
      /\ \A i \in 1 .. n : EntryCount(i) \in Nat /\ len[i] = EntryCount(i)
  BY EntriesFacts
<1>2. \A i \in 1 .. n : Fit(Symbols[i]) /\ i \in DOMAIN Symbols
  BY DEF Reporting, AllFit
<1>3. ASSUME NEW i \in 1 .. n
      PROVE  /\ \A j \in 1 .. EntryCount(i) : g[i][j] \in Nat
             /\ h[i] = SumFunctionOnSet(g[i], 1 .. EntryCount(i))
  <2> DEFINE R == RunStarts(Symbols[i])
             q == g[i]
             w == v[i]
  <2>1. IsFiniteSet(R) /\ R \subseteq Nat
    BY <1>2, SymbolFacts, StartsFacts
  <2>2. h[i] = SumFunctionOnSet(w, R) /\ \A b \in R : w[b] \in Nat
    OBVIOUS
  <2>3. CASE i \in Unreferenced
    <3>1. EntryCount(i) = 1
      BY <2>3 DEF EntryCount
    <3>2. \A j \in 1 .. 1 : q[j] = 0
      BY <2>3, <3>1
    <3>3. R = {}
      BY <1>2, <2>3, NothingThere DEF Unreferenced
    <3> HIDE DEF q, R, w
    <3>4. IsFiniteSet(1 .. 1)
      <4>1. \A x \in Nat : IsFiniteSet(1 .. x)
        BY FS_Interval
      <4>2. QED
        BY <4>1
    <3>5. SumFunctionOnSet(q, 1 .. 1) = 0
      BY <3>2, <3>4, SumZero
    <3>6. SumFunctionOnSet(w, R) = 0
      BY <3>3, SumEmpty
    <3>7. QED
      BY <2>2, <3>1, <3>2, <3>5, <3>6 DEF q
  <2>4. CASE i \notin Unreferenced
    <3>1. EntryCount(i) = Cardinality(R)
      BY <2>4 DEF EntryCount, RunCount
    <3>2. \A j \in 1 .. Cardinality(R) : q[j] = w[Ranked(R, j)]
      BY <2>4, <3>1
    <3>3. \A j \in 1 .. Cardinality(R) : Ranked(R, j) \in R
      BY <2>1, RankedFacts
    <3> HIDE DEF q, R, w
    <3>4. SumFunctionOnSet(q, 1 .. Cardinality(R)) = SumFunctionOnSet(w, R)
      BY ONLY <2>1, <2>2, <3>2, SumRanked
    <3>5. \A j \in 1 .. Cardinality(R) : q[j] \in Nat
      BY <2>2, <3>2, <3>3
    <3>6. QED
      BY <2>2, <3>1, <3>4, <3>5 DEF q
  <2>5. QED
    BY <2>3, <2>4
<1>4. Splits(n, len, f, g, h)
  <2>1. \A i \in 1 .. n : len[i] = EntryCount(i) /\ \A j : EntryAt(i, j) = At(len, i, j)
    BY <1>1 DEF EntryAt
  <2>2. \A i \in 1 .. n : \A j \in 1 .. EntryCount(i) : f[EntryAt(i, j)] = g[i][j]
    OBVIOUS
  <2> HIDE DEF n, len, g
  <2>3. QED
    BY <1>3, <2>1, <2>2 DEF Splits
<1>5. SumFunctionOnSet(f, 1 .. Before(len, n + 1)) = SumFunctionOnSet(h, 1 .. n)
  <2>1. Sized(n, len)
    BY <1>1
  <2> HIDE DEF n, len, g
  <2>2. QED
    BY ONLY <1>4, <2>1, SumFlat
<1>6. QED
  BY <1>1, <1>5

\* How the rows of the report say which of them stand for a range.
LEMMA ListedRows ==
  ASSUME Reporting, files["uncovered.txt"] = CoverageTxt,
         NEW i \in 1 .. Len(Symbols), NEW j \in 1 .. EntryCount(i)
  PROVE  LET row == Rows("uncovered.txt")[EntryAt(i, j)] IN
         /\ EntryAt(i, j) \in 1 .. Len(Entries)
         /\ i \in Unreferenced => row.index = 0
         /\ i \notin Unreferenced =>
              /\ row.index # 0
              /\ Ranked(RunStarts(Symbols[i]), j) \in RunStarts(Symbols[i])
              /\ row.count = Cardinality(Symbols[i].start
                               \cap Ranked(RunStarts(Symbols[i]), j)
                                      .. RunEnd(Symbols[i], Ranked(RunStarts(Symbols[i]), j)))
<1> DEFINE x == EntryAt(i, j)
           e == Entries[x]
           row == Rows("uncovered.txt")[x]
           b == Ranked(RunStarts(Symbols[i]), j)
<1>1. x \in 1 .. Len(Entries) /\ x \in DOMAIN Entries /\ e = Entry(i, j)
  BY EntriesFacts
<1>2. Rows("uncovered.txt") = [k \in DOMAIN Entries |-> TextCoverageLine(Entries[k])]
  BY DEF Rows, CoverageTxt, Table
<1>3. row = TextCoverageLine(e)
  BY <1>1, <1>2
<1>4. CASE i \in Unreferenced
  <2>1. e.listed = FALSE
    BY <1>1, <1>4 DEF Entry
  <2> HIDE DEF e, row
  <2>2. row.index = 0
    BY <1>3, <2>1 DEF TextCoverageLine, TextNoRange
  <2>3. QED
    BY <1>1, <1>4, <2>2 DEF row
<1>5. CASE i \notin Unreferenced
  <2>1. e.listed = TRUE /\ e.range = Place1(Symbols, i, b)
    BY <1>1, <1>5 DEF Entry, RunAt
  <2>2. b \in RunStarts(Symbols[i])
    <3>1. j \in 1 .. RunCount(i)
      BY <1>5 DEF EntryCount
    <3>2. QED
      BY <3>1, RunFacts
  <2>3. Fit(Symbols[i]) /\ IdBase(Symbols, i) \in Nat /\ b \in Starts(Symbols[i]) /\ AllFit(Symbols)
    BY <2>2, BasesFacts DEF Reporting, AllFit, Starts
  <2> HIDE DEF e, row, b
  <2>4. row.index = Place1(Symbols, i, b).id /\ row.count = Place1(Symbols, i, b).count
    BY <1>3, <2>1 DEF TextCoverageLine
  <2>5. Place1(Symbols, i, b).id # 0
    BY <2>3, IdsPositive
  <2>6. Place1(Symbols, i, b).count = Cardinality(Symbols[i].start \cap b .. RunEnd(Symbols[i], b))
    BY <2>2, <2>3, FullFacts DEF Place1
  <2>7. QED
    BY <1>1, <1>5, <2>2, <2>4, <2>5, <2>6 DEF row, b
<1>6. QED
  BY <1>4, <1>5

\* The rows that stand for a range, and the instructions they count.
LEMMA ListedCounted ==
  ASSUME Reporting, files["uncovered.txt"] = CoverageTxt,
         NEW u, \A i \in 1 .. Len(Symbols) : u[i] = Cardinality(RunStarts(Symbols[i])),
         NEW w, \A i \in 1 .. Len(Symbols) : w[i] = Cardinality(Symbols[i].start \ Symbols[i].exec)
  PROVE  LET range  == Rows("uncovered.txt")
             listed == {k \in DOMAIN range : range[k].index # 0}
         IN  /\ Cardinality(listed) = SumFunctionOnSet(u, 1 .. Len(Symbols))
             /\ SumFunction([k \in listed |-> range[k].count])
                  = SumFunctionOnSet(w, 1 .. Len(Symbols))
<1> DEFINE n == Len(Symbols)
           D == 1 .. Len(Entries)
           range == Rows("uncovered.txt")
           listed == {k \in DOMAIN range : range[k].index # 0}
           Held(i, b) == Cardinality(Symbols[i].start \cap b .. RunEnd(Symbols[i], b))
           Runs(i) == RunStarts(Symbols[i])
           one == [k \in D |-> IF k \in listed THEN 1 ELSE 0]
           all == [k \in D |-> IF k \in listed THEN range[k].count ELSE 0]
           v1 == [i \in 1 .. n |-> [b \in Runs(i) |-> 1]]
           vc == [i \in 1 .. n |-> [b \in Runs(i) |-> Held(i, b)]]
<1>1. /\ Len(Entries) \in Nat /\ DOMAIN Entries = D
      /\ \A x \in D : \E i \in 1 .. n : \E j \in 1 .. EntryCount(i) : x = EntryAt(i, j)
  BY EntriesFacts
<1>2. DOMAIN range = D
  BY <1>1 DEF Rows, CoverageTxt, Table
<1>3. IsFiniteSet(D) /\ listed \subseteq D
  <2>1. IsFiniteSet(D)
    BY <1>1, FS_Interval
  <2>2. QED
    BY <1>2, <2>1
<1>4. \A i \in 1 .. n : /\ Fit(Symbols[i]) /\ IsFiniteSet(Runs(i))
                        /\ Symbols[i].start \subseteq Bytes(Symbols[i]) /\ IsFiniteSet(Symbols[i].start)
  BY SymbolFacts, StartsFacts DEF Reporting, AllFit
<1>5. \A i \in 1 .. n : \A j \in 1 .. EntryCount(i) :
        /\ EntryAt(i, j) \in D
        /\ i \in Unreferenced => EntryAt(i, j) \notin listed
        /\ i \notin Unreferenced =>
             /\ EntryAt(i, j) \in listed
             /\ Ranked(Runs(i), j) \in Runs(i)
             /\ range[EntryAt(i, j)].count = Held(i, Ranked(Runs(i), j))
  BY <1>2, ListedRows
<1>6. Cardinality(listed) = SumFunctionOnSet(u, 1 .. n)
  <2>1. Cardinality(listed) = SumFunctionOnSet(one, D)
    <3>1. \A k \in D : one[k] = IF k \in listed THEN 1 ELSE 0
      OBVIOUS
    <3> HIDE DEF one, listed, D
    <3>2. QED
      BY <1>3, <3>1, CountAsSum
  <2>2. \A i \in 1 .. n : \A b \in Runs(i) : v1[i][b] \in Nat
    OBVIOUS
  <2>3. \A i \in 1 .. n : \A j \in 1 .. EntryCount(i) :
          one[EntryAt(i, j)] = IF i \in Unreferenced THEN 0 ELSE v1[i][Ranked(Runs(i), j)]
    <3> HIDE DEF listed, D
    <3>1. QED
      BY <1>5
  <2>4. \A i \in 1 .. n : u[i] = SumFunctionOnSet(v1[i], Runs(i))
    <3>1. ASSUME NEW i \in 1 .. n PROVE u[i] = SumFunctionOnSet(v1[i], Runs(i))
      <4> DEFINE q == v1[i]
                 R == Runs(i)
      <4>1. \A b \in R : q[b] = IF b \in R THEN 1 ELSE 0
        OBVIOUS
      <4>2. IsFiniteSet(R) /\ R \subseteq R /\ u[i] = Cardinality(R)
        BY <1>4
      <4> HIDE DEF q, R
      <4>3. Cardinality(R) = SumFunctionOnSet(q, R)
        BY ONLY <4>1, <4>2, CountAsSum
      <4>4. QED
        BY <4>2, <4>3 DEF q, R
    <3>2. QED
      BY <3>1
  <2> HIDE DEF one, v1, listed
  <2>5. SumFunctionOnSet(one, D) = SumFunctionOnSet(u, 1 .. n)
    BY <2>2, <2>3, <2>4, EntriesCounted
  <2>6. QED
    BY <2>1, <2>5
<1>7. SumFunction([k \in listed |-> range[k].count]) = SumFunctionOnSet(w, 1 .. n)
  <2> DEFINE F == [k \in listed |-> range[k].count]
  <2>1. SumFunction(F) = SumFunctionOnSet(F, listed)
    BY DEF SumFunction
  <2>2. \A i \in 1 .. n : \A b \in Runs(i) : vc[i][b] \in Nat
    <3>1. ASSUME NEW i \in 1 .. n, NEW b \in Runs(i) PROVE vc[i][b] \in Nat
      <4>1. IsFiniteSet(Symbols[i].start \cap b .. RunEnd(Symbols[i], b))
        BY <1>4, FS_Intersection
      <4>2. Held(i, b) \in Nat
        BY <4>1, FS_CardinalityType
      <4>3. vc[i][b] = Held(i, b)
        OBVIOUS
      <4>4. QED
        BY <4>2, <4>3
    <3>2. QED
      BY <3>1
  <2>3. \A i \in 1 .. n : \A j \in 1 .. EntryCount(i) :
          all[EntryAt(i, j)] = IF i \in Unreferenced THEN 0 ELSE vc[i][Ranked(Runs(i), j)]
    <3> HIDE DEF listed, D, range, Held
    <3>1. QED
      BY <1>5
  <2>4. \A k \in D : all[k] \in Nat
    <3>1. ASSUME NEW k \in D PROVE all[k] \in Nat
      <4>1. PICK i \in 1 .. n : \E j \in 1 .. EntryCount(i) : k = EntryAt(i, j)
        BY <1>1
      <4>2. PICK j \in 1 .. EntryCount(i) : k = EntryAt(i, j)
        BY <4>1
      <4>3. CASE i \in Unreferenced
        <5>1. all[k] = 0
          BY <2>3, <4>2, <4>3
        <5>2. QED
          BY <5>1
      <4>4. CASE i \notin Unreferenced
        <5>1. Ranked(Runs(i), j) \in Runs(i)
          BY <1>5, <4>4
        <5>2. all[k] = vc[i][Ranked(Runs(i), j)]
          BY <2>3, <4>2, <4>4
        <5> HIDE DEF all, vc
        <5>3. QED
          BY <2>2, <5>1, <5>2
      <4>5. QED
        BY <4>3, <4>4
    <3>2. QED
      BY <3>1
  <2>5. \A i \in 1 .. n : w[i] = SumFunctionOnSet(vc[i], Runs(i))
    <3>1. ASSUME NEW i \in 1 .. n PROVE w[i] = SumFunctionOnSet(vc[i], Runs(i))
      <4> DEFINE s == Symbols[i]
                 X == s.start
      <4>1. vc[i] = [b \in RunStarts(s) |-> Cardinality(X \cap b .. RunEnd(s, b))]
        OBVIOUS
      <4>2. Fit(s) /\ X \subseteq Bytes(s) /\ w[i] = Cardinality(X \ s.exec)
        BY <1>4
      <4> HIDE DEF vc, X, s
      <4>3. Cardinality(X \ s.exec)
              = SumFunctionOnSet([b \in RunStarts(s) |-> Cardinality(X \cap b .. RunEnd(s, b))], RunStarts(s))
        BY ONLY <4>2, RunsSplit
      <4>4. QED
        BY <4>1, <4>2, <4>3 DEF s
    <3>2. QED
      BY <3>1
  <2>6. \A k \in listed : F[k] = all[k]
    BY <1>3
  <2>7. \A k \in D \ listed : all[k] = 0
    OBVIOUS
  <2> HIDE DEF F, all, vc, listed, Held
  <2>8. SumFunctionOnSet(all, D) = SumFunctionOnSet(w, 1 .. n)
    BY <2>2, <2>3, <2>5, EntriesCounted
  <2> HIDE DEF D
  <2>9. IsFiniteSet(listed)
    BY <1>3, FS_Subset
  <2>10. SumFunctionOnSet(F, listed) = SumFunctionOnSet(all, listed)
    BY <2>6, <2>9, SumEqual
  <2>11. SumFunctionOnSet(all, listed) = SumFunctionOnSet(all, D)
    <3>1. \A k \in listed : all[k] \in Nat
      BY <1>3, <2>4
    <3>2. QED
      BY ONLY <1>3, <2>7, <3>1, SumRest
  <2>12. QED
    BY <2>1, <2>8, <2>10, <2>11 DEF F
<1>8. QED
  BY <1>6, <1>7

\* The numbers of one symbol.
LEMMA SymbolNumbers ==
  ASSUME Reporting, NEW i \in 1 .. Len(Symbols)
  PROVE  LET s == Symbols[i] IN
         /\ i \in DOMAIN Symbols /\ Fit(s) /\ s.size \in Nat
         /\ Cardinality(DOMAIN s.went) \in Nat
         /\ Cardinality(BranchesExecuted(s)) + Cardinality(BranchesNotExecuted(s))
              = Cardinality(DOMAIN s.went)
         /\ Statistics(i).always \in Nat /\ Statistics(i).never \in Nat
         /\ Statistics(i).always + Statistics(i).never = Cardinality(OneWay(s))
         /\ Len(ranges[i]) = Cardinality(RunStarts(s)) /\ Len(ranges[i]) \in Nat
         /\ s.size = 0 => /\ Cardinality(DOMAIN s.went) = 0 /\ NotExecuted(s) = 0
                          /\ Statistics(i).always = 0 /\ Statistics(i).never = 0
                          /\ Len(ranges[i]) = 0
<1> DEFINE s == Symbols[i]
           A == {b \in s.exec : Always(s, b)}
           N == {b \in s.exec : Never(s, b)}
           W == DOMAIN s.went
<1>1. i \in DOMAIN Symbols /\ Fit(s)
  BY DEF Reporting, AllFit
<1>2. s.size \in Nat /\ IsFiniteSet(s.exec) /\ IsFiniteSet(W)
  BY <1>1, SymbolFacts
<1>3. Statistics(i).always = Cardinality(A) /\ Statistics(i).never = Cardinality(N)
  BY DEF Statistics
<1>4. A \cup N = OneWay(s) /\ A \cap N = {} /\ A \subseteq s.exec /\ N \subseteq s.exec
  BY DEF OneWay, Always, Never
<1>5. Len(ranges[i]) = Cardinality(RunStarts(s)) /\ Len(ranges[i]) \in Nat
  BY RunFacts DEF RunCount
<1>6. s.size = 0 => W = {} /\ s.exec = {} /\ RunStarts(s) = {} /\ NotExecuted(s) = 0
  BY <1>1, NothingThere
<1> HIDE DEF A, N, W
<1>7. IsFiniteSet(A) /\ IsFiniteSet(N) /\ Cardinality(A) \in Nat /\ Cardinality(N) \in Nat
  <2>1. IsFiniteSet(A) /\ IsFiniteSet(N)
    BY <1>2, <1>4, FS_Subset
  <2>2. QED
    BY <2>1, FS_CardinalityType
<1>8. Cardinality(A) + Cardinality(N) = Cardinality(OneWay(s))
  <2>1. Cardinality(A \cup N) = Cardinality(A) + Cardinality(N) - Cardinality(A \cap N)
    BY <1>7, FS_Union
  <2>2. Cardinality(A \cap N) = 0
    BY <1>4, FS_EmptySet
  <2>3. Cardinality(A \cup N) = Cardinality(OneWay(s))
    BY <1>4
  <2>4. Cardinality(A) \in Nat /\ Cardinality(N) \in Nat
    BY <1>7
  <2>5. QED
    BY ONLY <2>1, <2>2, <2>3, <2>4
<1>9. /\ Cardinality(W) \in Nat
      /\ Cardinality(BranchesExecuted(s)) + Cardinality(BranchesNotExecuted(s)) = Cardinality(W)
  <2>1. BranchesExecuted(s) = W \cap s.exec /\ BranchesNotExecuted(s) = W \ s.exec
    BY DEF BranchesExecuted, BranchesNotExecuted, W
  <2>2. Cardinality(W \ s.exec) = Cardinality(W) - Cardinality(W \cap s.exec)
    BY <1>2, FS_Difference
  <2>3. Cardinality(W) \in Nat /\ Cardinality(W \cap s.exec) \in Nat
    BY <1>2, FS_Intersection, FS_CardinalityType
  <2>4. QED
    BY <2>1, <2>2, <2>3
<1>10. s.size = 0 => /\ Cardinality(W) = 0 /\ Cardinality(A) = 0 /\ Cardinality(N) = 0
                     /\ Cardinality(RunStarts(s)) = 0
  BY <1>4, <1>6, FS_EmptySet
<1>11. QED
  BY <1>1, <1>2, <1>3, <1>5, <1>6, <1>7, <1>8, <1>9, <1>10 DEF W

\* Over the whole program a sum may leave out what has no map.
LEMMA SummaryNumbers ==
  ASSUME Reporting, NEW f, f = [i \in DOMAIN Symbols |-> f[i]],
         \A i \in 1 .. Len(Symbols) : f[i] \in Nat,
         \A i \in 1 .. Len(Symbols) : Symbols[i].size = 0 => f[i] = 0
  PROVE  OverReferenced(f) = SumFunction(f) /\ SumFunction(f) = SumFunctionOnSet(f, 1 .. Len(Symbols))
<1>1. DOMAIN f = 1 .. Len(Symbols)
  BY DEF Reporting, AllFit
<1>2. QED
  BY <1>1, OverAll DEF SumFunction

\* The numbers in the summary, as sums over all symbols.
LEMMA SummarySums ==
  ASSUME Reporting
  PROVE  LET n == Len(Symbols)
             size     == [i \in DOMAIN Symbols |-> Symbols[i].size]
             missing  == [i \in DOMAIN Symbols |-> NotExecuted(Symbols[i])]
             runs     == [i \in DOMAIN Symbols |-> Cardinality(RunStarts(Symbols[i]))]
             branch   == [i \in DOMAIN Symbols |-> Cardinality(DOMAIN Symbols[i].went)]
             oneway   == [i \in DOMAIN Symbols |-> Cardinality(OneWay(Symbols[i]))]
         IN  /\ Summary.totalBytes = SumFunction(size)
             /\ Summary.notExecuted = SumFunctionOnSet(missing, 1 .. n)
             /\ Summary.ranges = SumFunctionOnSet(runs, 1 .. n)
             /\ Summary.branches = SumFunction(branch)
             /\ Summary.always + Summary.never = SumFunctionOnSet(oneway, 1 .. n)
<1> DEFINE n == Len(Symbols)
           size     == [i \in DOMAIN Symbols |-> Symbols[i].size]
           missing  == [i \in DOMAIN Symbols |-> NotExecuted(Symbols[i])]
           runs     == [i \in DOMAIN Symbols |-> Cardinality(RunStarts(Symbols[i]))]
           listed   == [i \in DOMAIN Symbols |-> Len(ranges[i])]
           branch   == [i \in DOMAIN Symbols |-> Cardinality(DOMAIN Symbols[i].went)]
           oneway   == [i \in DOMAIN Symbols |-> Cardinality(OneWay(Symbols[i]))]
           always   == [i \in DOMAIN Symbols |-> Statistics(i).always]
           never    == [i \in DOMAIN Symbols |-> Statistics(i).never]
<1>1. /\ Summary.totalBytes = OverReferenced(size) /\ Summary.notExecuted = OverReferenced(missing)
      /\ Summary.ranges = OverReferenced(listed) /\ Summary.branches = OverReferenced(branch)
      /\ Summary.always = OverReferenced(always) /\ Summary.never = OverReferenced(never)
  BY DEF Summary, NumberBranchesFound, OverReferenced
<1>2. DOMAIN Symbols = 1 .. n /\ n \in Nat /\ IsFiniteSet(1 .. n)
  BY FS_Interval DEF Reporting, AllFit
<1>3. \A i \in 1 .. n : NotExecuted(Symbols[i]) \in Nat
  <2>1. ASSUME NEW i \in 1 .. n PROVE NotExecuted(Symbols[i]) \in Nat
    <3> DEFINE g == [b \in RunStarts(Symbols[i]) |-> RunEnd(Symbols[i], b) - b + 1]
    <3>1. Fit(Symbols[i]) /\ \A b \in RunStarts(Symbols[i]) : g[b] = RunEnd(Symbols[i], b) - b + 1
      BY DEF Reporting, AllFit
    <3> HIDE DEF g
    <3>2. QED
      BY <3>1, RunSizes
  <2>2. QED
    BY <2>1
<1>4. \A i \in 1 .. n :
        /\ size[i] \in Nat /\ listed[i] \in Nat /\ branch[i] \in Nat
        /\ always[i] \in Nat /\ never[i] \in Nat
        /\ listed[i] = runs[i] /\ oneway[i] = always[i] + never[i]
        /\ Symbols[i].size = 0 => /\ size[i] = 0 /\ missing[i] = 0 /\ listed[i] = 0
                                  /\ branch[i] = 0 /\ always[i] = 0 /\ never[i] = 0
  BY <1>2, SymbolNumbers
<1>5. \A i \in 1 .. n : missing[i] \in Nat
  BY <1>2, <1>3
<1>6. /\ size = [i \in DOMAIN Symbols |-> size[i]] /\ missing = [i \in DOMAIN Symbols |-> missing[i]]
      /\ listed = [i \in DOMAIN Symbols |-> listed[i]] /\ branch = [i \in DOMAIN Symbols |-> branch[i]]
      /\ always = [i \in DOMAIN Symbols |-> always[i]] /\ never = [i \in DOMAIN Symbols |-> never[i]]
  OBVIOUS
<1> HIDE DEF size, missing, runs, listed, branch, oneway, always, never
<1>7. OverReferenced(size) = SumFunction(size)
  BY <1>4, <1>6, SummaryNumbers
<1>8. OverReferenced(missing) = SumFunctionOnSet(missing, 1 .. n)
  BY <1>4, <1>5, <1>6, SummaryNumbers
<1>9. OverReferenced(listed) = SumFunctionOnSet(listed, 1 .. n)
  BY <1>4, <1>6, SummaryNumbers
<1>10. OverReferenced(branch) = SumFunction(branch)
  BY <1>4, <1>6, SummaryNumbers
<1>11. OverReferenced(always) = SumFunctionOnSet(always, 1 .. n)
  BY <1>4, <1>6, SummaryNumbers
<1>12. OverReferenced(never) = SumFunctionOnSet(never, 1 .. n)
  BY <1>4, <1>6, SummaryNumbers
<1> HIDE DEF n
<1>13. SumFunctionOnSet(listed, 1 .. n) = SumFunctionOnSet(runs, 1 .. n)
  BY <1>2, <1>4, SumEqual
<1>14. SumFunctionOnSet(oneway, 1 .. n)
         = SumFunctionOnSet(always, 1 .. n) + SumFunctionOnSet(never, 1 .. n)
  BY <1>2, <1>4, SumPlus
<1>15. /\ Summary.totalBytes = SumFunction(size)
       /\ Summary.notExecuted = SumFunctionOnSet(missing, 1 .. n)
       /\ Summary.ranges = SumFunctionOnSet(runs, 1 .. n)
       /\ Summary.branches = SumFunction(branch)
       /\ Summary.always + Summary.never = SumFunctionOnSet(oneway, 1 .. n)
  BY <1>1, <1>7, <1>8, <1>9, <1>10, <1>11, <1>12, <1>13, <1>14
<1>16. QED
  BY <1>15 DEF size, missing, runs, branch, oneway, n

\* The summary against the rows of the report of symbols.
LEMMA SummaryOfSymbols ==
  ASSUME ReportInv, Complete
  PROVE  LET S == Rows("summary.txt")[1]
             symbol == Rows("symbolSummary.txt")
         IN  /\ S = Summary
             /\ S.totalBytes = SumFunction([k \in DOMAIN symbol |-> symbol[k].bytes])
             /\ S.branches = SumFunction([k \in DOMAIN symbol |-> symbol[k].branches])
<1> DEFINE symbol == Rows("symbolSummary.txt")
           size   == [i \in DOMAIN Symbols |-> Symbols[i].size]
           branch == [i \in DOMAIN Symbols |-> Cardinality(DOMAIN Symbols[i].went)]
<1>1. Reporting /\ files["summary.txt"] = SummaryTxt /\ files["symbolSummary.txt"] = SymbolsTxt
  BY DoneFiles DEF ReportInv
<1>2. Rows("summary.txt") = << Summary >> /\ symbol = [i \in DOMAIN Symbols |-> TextSymbolSummaryLine(i)]
  BY <1>1 DEF Rows, SummaryTxt, SymbolsTxt, Table
<1>3. Rows("summary.txt")[1] = Summary
  BY <1>2
<1>4. Summary.totalBytes = SumFunction(size) /\ Summary.branches = SumFunction(branch)
  BY <1>1, SummarySums
<1>5. DOMAIN symbol = DOMAIN Symbols /\ DOMAIN Symbols = 1 .. Len(Symbols)
  BY <1>1, <1>2 DEF Reporting, AllFit
<1>6. ASSUME NEW i \in DOMAIN Symbols
      PROVE  /\ symbol[i].bytes = Symbols[i].size
             /\ symbol[i].branches = Cardinality(DOMAIN Symbols[i].went)
  <2>1. symbol[i] = TextSymbolSummaryLine(i)
    BY <1>2
  <2>2. symbol[i].bytes = Statistics(i).bytes /\ symbol[i].branches = Statistics(i).branches
    BY <2>1 DEF TextSymbolSummaryLine
  <2>3. /\ Statistics(i).bytes = Symbols[i].size
        /\ Statistics(i).branches = Cardinality(BranchesExecuted(Symbols[i]))
                                      + Cardinality(BranchesNotExecuted(Symbols[i]))
    BY DEF Statistics
  <2>4. Cardinality(BranchesExecuted(Symbols[i])) + Cardinality(BranchesNotExecuted(Symbols[i]))
          = Cardinality(DOMAIN Symbols[i].went)
    BY <1>1, <1>5, SymbolNumbers
  <2>5. QED
    BY <2>2, <2>3, <2>4
<1> HIDE DEF symbol
<1>7. /\ size = [k \in DOMAIN symbol |-> symbol[k].bytes]
      /\ branch = [k \in DOMAIN symbol |-> symbol[k].branches]
  BY <1>5, <1>6
<1>8. QED
  BY <1>3, <1>4, <1>7 DEF symbol

\* Against the rows of the report of sizes.
LEMMA SummaryOfSizes ==
  ASSUME ReportInv, Complete
  PROVE  LET size == Rows("sizes.txt") IN
         /\ Summary.notExecuted = SumFunction([k \in DOMAIN size |-> size[k][1]])
         /\ Summary.ranges = Len(size)
<1> DEFINE size    == Rows("sizes.txt")
           P       == Places(ranges)
           f       == [k \in DOMAIN size |-> size[k][1]]
           missing == [i \in DOMAIN Symbols |-> NotExecuted(Symbols[i])]
           runs    == [i \in DOMAIN Symbols |-> Cardinality(RunStarts(Symbols[i]))]
           oneway  == [i \in DOMAIN Symbols |-> Cardinality(OneWay(Symbols[i]))]
<1>1. Reporting /\ files["sizes.txt"] = SizesTxt
  BY DoneFiles DEF ReportInv
<1>2. size = [k \in DOMAIN P |-> TextSizeLine(P[k])]
  BY <1>1 DEF Rows, SizesTxt, Table
<1>3. Len(P) \in Nat /\ DOMAIN P = 1 .. Len(P)
  BY <1>1, RangePlacesFacts
<1>4. Len(size) = Len(P) /\ DOMAIN size = 1 .. Len(P)
  <2> HIDE DEF P
  <2>1. size = [k \in 1 .. Len(P) |-> size[k]]
    BY <1>2, <1>3
  <2> HIDE DEF size
  <2>2. QED
    BY <1>3, <2>1, LengthOf
<1>5. \A k \in 1 .. Len(P) : f[k] = SizeOf(P[k].range)
  <2>1. ASSUME NEW k \in 1 .. Len(P) PROVE f[k] = SizeOf(P[k].range)
    <3> HIDE DEF P
    <3>1. size[k] = TextSizeLine(P[k])
      BY <1>2, <1>3
    <3>2. f[k] = size[k][1]
      BY <1>4
    <3>3. QED
      BY <3>1, <3>2 DEF TextSizeLine
  <2>2. QED
    BY <2>1
<1>6. SumFunction(f) = SumFunctionOnSet(f, 1 .. Len(P))
  BY <1>4 DEF SumFunction
<1>7. DOMAIN Symbols = 1 .. Len(Symbols)
  BY <1>1 DEF Reporting, AllFit
<1>8. /\ \A i \in 1 .. Len(Symbols) : missing[i] = NotExecuted(Symbols[i])
      /\ \A i \in 1 .. Len(Symbols) : runs[i] = Cardinality(RunStarts(Symbols[i]))
      /\ \A i \in 1 .. Len(Symbols) : oneway[i] = Cardinality(OneWay(Symbols[i]))
  BY <1>7
<1>9. /\ Summary.notExecuted = SumFunctionOnSet(missing, 1 .. Len(Symbols))
      /\ Summary.ranges = SumFunctionOnSet(runs, 1 .. Len(Symbols))
  BY <1>1, SummarySums
<1> HIDE DEF f, missing, runs, oneway
<1>10. SumFunctionOnSet(f, 1 .. Len(P)) = SumFunctionOnSet(missing, 1 .. Len(Symbols))
  BY <1>1, <1>5, <1>8, SizesCounted
<1>11. Len(P) = SumFunctionOnSet(runs, 1 .. Len(Symbols))
  BY <1>1, <1>8, PlacesCounted
<1> HIDE DEF P, size
<1>12. Summary.notExecuted = SumFunction(f) /\ Summary.ranges = Len(size)
  BY <1>4, <1>6, <1>9, <1>10, <1>11
<1>13. QED
  BY <1>12 DEF f, size

\* Against the ranges of the coverage report, the rows of the branch report and
\* the annotations of the assembly, and these against each other.
LEMMA SummaryOfLines ==
  ASSUME ReportInv, Complete
  PROVE  LET range  == Rows("uncovered.txt")
             listed == {k \in DOMAIN range : range[k].index # 0}
         IN  /\ Summary.ranges = Cardinality(listed)
             /\ Summary.hasBranches => Summary.always + Summary.never = Len(Rows("branch.txt"))
             /\ Summary.always + Summary.never = AnnotatedAs({"branchTaken", "branchNotTaken"})
             /\ AnnotatedAs({"neverExecuted"}) = SumFunction([k \in listed |-> range[k].count])
<1> DEFINE range   == Rows("uncovered.txt")
           listed  == {k \in DOMAIN range : range[k].index # 0}
           row     == Rows("branch.txt")
           runs    == [i \in DOMAIN Symbols |-> Cardinality(RunStarts(Symbols[i]))]
           oneway  == [i \in DOMAIN Symbols |-> Cardinality(OneWay(Symbols[i]))]
           never   == [i \in DOMAIN Symbols |-> Cardinality(Symbols[i].start \ Symbols[i].exec)]
           n       == Len(Symbols)
<1>1. /\ Reporting /\ files["annotated.txt"] = AnnotatedTxt
      /\ files["uncovered.txt"] = CoverageTxt /\ files["branch.txt"] = BranchTxt
  BY DoneFiles DEF ReportInv
<1>2. DOMAIN Symbols = 1 .. n
  BY <1>1 DEF Reporting, AllFit
<1>3. /\ \A i \in 1 .. n : runs[i] = Cardinality(RunStarts(Symbols[i]))
      /\ \A i \in 1 .. n : oneway[i] = Cardinality(OneWay(Symbols[i]))
      /\ \A i \in 1 .. n : never[i] = Cardinality(Symbols[i].start \ Symbols[i].exec)
  BY <1>2
<1>4. /\ Summary.ranges = SumFunctionOnSet(runs, 1 .. n)
      /\ Summary.always + Summary.never = SumFunctionOnSet(oneway, 1 .. n)
  BY <1>1, SummarySums
<1> HIDE DEF runs, oneway, never, n
<1>5. /\ Cardinality(listed) = SumFunctionOnSet(runs, 1 .. n)
      /\ SumFunction([k \in listed |-> range[k].count]) = SumFunctionOnSet(never, 1 .. n)
  BY <1>1, <1>3, ListedCounted DEF n
<1>6. /\ AnnotatedAs({"neverExecuted"}) = SumFunctionOnSet(never, 1 .. n)
      /\ AnnotatedAs({"branchTaken", "branchNotTaken"}) = SumFunctionOnSet(oneway, 1 .. n)
  BY <1>1, <1>3, AnnotatedTwice DEF n
<1>7. Len(Places(branches)) = SumFunctionOnSet(oneway, 1 .. n)
  BY <1>1, <1>3, PlacesCounted DEF n
<1>8. Summary.hasBranches => Len(row) = Len(Places(branches))
  <2>1. ASSUME Summary.hasBranches PROVE Len(row) = Len(Places(branches))
    <3>1. HasBranches
      BY <2>1 DEF Summary
    <3>2. BranchPlaces = Places(branches)
      BY <3>1 DEF BranchPlaces
    <3>3. Len(BranchPlaces) \in Nat /\ DOMAIN BranchPlaces = 1 .. Len(BranchPlaces)
      BY <1>1, BranchPlacesFacts
    <3>4. row = [k \in DOMAIN BranchPlaces |-> TextBranchEntry(BranchPlaces[k])]
      BY <1>1 DEF Rows, BranchTxt
    <3>5. row = [k \in 1 .. Len(BranchPlaces) |-> row[k]]
      BY <3>3, <3>4
    <3> HIDE DEF row
    <3>6. Len(row) = Len(BranchPlaces)
      BY <3>3, <3>5, LengthOf
    <3>7. QED
      BY <3>2, <3>6
  <2>2. QED
    BY <2>1
<1> HIDE DEF row, range, listed
<1>9. /\ Summary.ranges = Cardinality(listed)
      /\ Summary.hasBranches => Summary.always + Summary.never = Len(row)
      /\ Summary.always + Summary.never = AnnotatedAs({"branchTaken", "branchNotTaken"})
      /\ AnnotatedAs({"neverExecuted"}) = SumFunction([k \in listed |-> range[k].count])
  BY <1>4, <1>5, <1>6, <1>7, <1>8
<1>10. QED
  BY <1>9 DEF row, range, listed

(***************************************************************************)
(* CountsAgree, for every program: the summary, the rows of the reports    *)
(* and the annotated lines all count the same sets of instructions and     *)
(* bytes, because the ranges of a symbol are disjoint and together hold    *)
(* what was not executed of it, because what is left out of one report has *)
(* nothing to count in another, and because a sum over a list of all       *)
(* symbols' entries is the sum of the sums over each symbol's.             *)
(***************************************************************************)
THEOREM CountsMatch == Spec => []CountsAgree
<1>1. ReportInv => CountsAgree
  BY SummaryOfSymbols, SummaryOfSizes, SummaryOfLines DEF CountsAgree
<1>2. QED
  BY <1>1, ReportInvHolds, PTL
==============================================================================
