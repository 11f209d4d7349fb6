---------------------------- MODULE FiniteLemmas ----------------------------
(***************************************************************************)
(* Lemmas the proofs of several components need: the least element of a    *)
(* set of naturals, a smallest set among subsets of a finite set, the      *)
(* least and greatest numbers the models choose with Min and Max, and sums *)
(* over finite sets.  A fact about every finite set is proved here by      *)
(* looking at a smallest set it fails for.                                 *)
(***************************************************************************)
EXTENDS Integers, Functions, FiniteSetsExt, FiniteSetTheorems, WellFoundedInduction, TLAPS

(***************************************************************************)
(* A nonempty set of naturals has a least element.                         *)
(***************************************************************************)
LEMMA LeastNatural ==
  ASSUME NEW T, T \subseteq Nat, T # {}
  PROVE  \E x \in T : \A y \in T : x <= y
<1> DEFINE R == OpToRel(<, Nat)
<1>1. IsWellFoundedOn(R, Nat)
  BY NatLessThanWellFounded
<1>2. \A x, y \in Nat : y < x => << y, x >> \in R
  BY DEF OpToRel
<1> HIDE DEF R
<1>3. PICK x \in T : \A y \in T : ~ (<< y, x >> \in R)
  BY <1>1, WFMin
<1>4. ASSUME NEW y \in T PROVE x <= y
  <2>1. x \in Nat /\ y \in Nat
    OBVIOUS
  <2>2. ~(y < x)
    BY <1>2, <1>3, <2>1
  <2>3. QED
    BY <2>1, <2>2
<1>5. QED
  BY <1>4

(***************************************************************************)
(* So has a nonempty set of integers that is bounded below; one that is    *)
(* bounded above has a greatest one.                                       *)
(***************************************************************************)
LEMMA LeastInteger ==
  ASSUME NEW T, T \subseteq Int, T # {}, NEW b \in Int, \A x \in T : b <= x
  PROVE  \E x \in T : \A y \in T : x <= y
<1> DEFINE D == {x - b : x \in T}
<1>1. D \subseteq Nat /\ D # {}
  <2>1. ASSUME NEW x \in T PROVE x - b \in Nat
    <3>1. x \in Int /\ b <= x
      OBVIOUS
    <3>2. QED
      BY <3>1
  <2>2. QED
    BY <2>1
<1>2. PICK d \in D : \A y \in D : d <= y
  <2> HIDE DEF D
  <2>1. QED
    BY <1>1, LeastNatural
<1>3. PICK x \in T : d = x - b
  OBVIOUS
<1>4. \A y \in T : x - b <= y - b
  BY <1>2, <1>3
<1>5. QED
  BY <1>4

\* A set of integers that is bounded above has a greatest element.
LEMMA GreatestInteger ==
  ASSUME NEW T, T \subseteq Int, T # {}, NEW b \in Int, \A x \in T : x <= b
  PROVE  \E x \in T : \A y \in T : x >= y
<1> DEFINE D == {b - x : x \in T}
<1>1. D \subseteq Nat /\ D # {}
  <2>1. ASSUME NEW x \in T PROVE b - x \in Nat
    <3>1. x \in Int /\ x <= b
      OBVIOUS
    <3>2. QED
      BY <3>1
  <2>2. QED
    BY <2>1
<1>2. PICK d \in D : \A y \in D : d <= y
  <2> HIDE DEF D
  <2>1. QED
    BY <1>1, LeastNatural
<1>3. PICK x \in T : d = b - x
  OBVIOUS
<1>4. \A y \in T : b - x <= b - y
  BY <1>2, <1>3
<1>5. QED
  BY <1>4

\* Min of a set of integers that is bounded below is its least element,
LEMMA MinFacts ==
  ASSUME NEW T, T \subseteq Int, T # {}, NEW b \in Int, \A x \in T : b <= x
  PROVE  Min(T) \in T /\ \A y \in T : Min(T) <= y
BY LeastInteger DEF Min

\* ... and Max of one bounded above its greatest.
LEMMA MaxFacts ==
  ASSUME NEW T, T \subseteq Int, T # {}, NEW b \in Int, \A x \in T : x <= b
  PROVE  Max(T) \in T /\ \A y \in T : Max(T) >= y
BY GreatestInteger DEF Max

(***************************************************************************)
(* Among subsets of a finite set there is one with none of the others      *)
(* inside.                                                                 *)
(***************************************************************************)
LEMMA SmallestSubset ==
  ASSUME NEW S, IsFiniteSet(S), NEW T, T \subseteq SUBSET S, T # {}
  PROVE  \E x \in T : \A y \in T : y \subseteq x => y = x
<1> DEFINE R == StrictSubsetOrdering(S)
<1> DEFINE F == FiniteSubsetsOf(S)
<1>1. IsWellFoundedOn(R, F)
  BY FS_StrictSubsetOrderingWellFounded
<1>2. T \subseteq F
  BY FS_Subset DEF FiniteSubsetsOf
<1>3. \A x, y \in T : y \subseteq x /\ y # x => << y, x >> \in R
  BY DEF StrictSubsetOrdering
<1> HIDE DEF R, F
<1>4. \E x \in T : \A y \in T : ~ (<< y, x >> \in R)
  BY <1>1, <1>2, WFMin
<1>5. QED
  BY <1>3, <1>4
-----------------------------------------------------------------------------
(***************************************************************************)
(* Sums.  Totals(f, T) is the function that SumFunctionOnSet iterates, the *)
(* sum over each subset of T; it exists and is the only one.               *)
(***************************************************************************)
Pick(s) == CHOOSE x \in s : TRUE
Step(f, g, s) == IF s = {} THEN 0 ELSE f[Pick(s)] + g[s \ {Pick(s)}]
IsTotals(f, g, T) == g = [s \in SUBSET T |-> Step(f, g, s)]

\* Pick takes an element of the set.
LEMMA PickIn == ASSUME NEW s, s # {} PROVE Pick(s) \in s
BY DEF Pick

\* Two tables of totals agree where both are defined.
LEMMA TotalsUnique ==
  ASSUME NEW f, NEW g, NEW h, NEW T, NEW U, IsFiniteSet(T),
         IsTotals(f, g, T), IsTotals(f, h, U), NEW v, v \subseteq T, v \subseteq U
  PROVE  g[v] = h[v]
<1> DEFINE W == {w \in SUBSET T : w \subseteq U /\ g[w] # h[w]}
<1>1. SUFFICES ASSUME W # {} PROVE FALSE
  OBVIOUS
<1>2. PICK w \in W : \A y \in W : y \subseteq w => y = w
  <2>1. W \subseteq SUBSET T
    OBVIOUS
  <2> HIDE DEF W
  <2>2. QED
    BY <1>1, <2>1, SmallestSubset
<1>3. /\ w \subseteq T /\ w \subseteq U /\ g[w] # h[w]
      /\ g[w] = Step(f, g, w) /\ h[w] = Step(f, h, w)
  BY DEF IsTotals
<1>4. w # {}
  BY <1>3 DEF Step
<1>5. Pick(w) \in w
  BY <1>4, PickIn
<1>6. w \ {Pick(w)} \notin W
  BY <1>2, <1>5
<1>7. g[w \ {Pick(w)}] = h[w \ {Pick(w)}]
  BY <1>3, <1>6
<1>8. QED
  BY <1>3, <1>4, <1>7 DEF Step

TotalsOf(f, T) == CHOOSE g : IsTotals(f, g, T)

\* There is a table of totals of every finite set.
LEMMA TotalsExist ==
  ASSUME NEW f, NEW S, IsFiniteSet(S)
  PROVE  \E g : IsTotals(f, g, S)
<1> DEFINE W == {T \in SUBSET S : ~ \E g : IsTotals(f, g, T)}
<1>1. SUFFICES ASSUME W # {} PROVE FALSE
  OBVIOUS
<1>2. PICK T \in W : \A y \in W : y \subseteq T => y = T
  <2>1. W \subseteq SUBSET S
    OBVIOUS
  <2> HIDE DEF W
  <2>2. QED
    BY <1>1, <2>1, SmallestSubset
<1> HIDE DEF W
<1>3. T \in SUBSET S /\ IsFiniteSet(T)
  BY FS_Subset DEF W
<1>4. ASSUME NEW u \in SUBSET T, u # T PROVE IsTotals(f, TotalsOf(f, u), u)
  <2>1. u \notin W
    BY <1>2, <1>4
  <2>2. \E g : IsTotals(f, g, u)
    BY <1>3, <2>1 DEF W
  <2>3. QED
    BY <2>2 DEF TotalsOf
<1> DEFINE g == [s \in SUBSET T |-> IF s = {} THEN 0
                 ELSE f[Pick(s)] + TotalsOf(f, s \ {Pick(s)})[s \ {Pick(s)}]]
<1>5. ASSUME NEW s \in SUBSET T, s # {}
      PROVE  g[s \ {Pick(s)}] = TotalsOf(f, s \ {Pick(s)})[s \ {Pick(s)}]
  <2> DEFINE u == s \ {Pick(s)}
  <2>1. u \in SUBSET T /\ u # T
    BY <1>5, PickIn
  <2>2. IsTotals(f, TotalsOf(f, u), u)
    BY <1>4, <2>1
  <2>3. TotalsOf(f, u)[u] = Step(f, TotalsOf(f, u), u)
    BY <2>2 DEF IsTotals
  <2>4. CASE u = {}
    BY <2>3, <2>4 DEF Step
  <2>5. CASE u # {}
    <3> DEFINE v == u \ {Pick(u)}
    <3>1. v \subseteq u /\ v \in SUBSET T /\ v # T
      BY <2>1
    <3>2. IsTotals(f, TotalsOf(f, v), v)
      BY <1>4, <3>1
    <3>3. IsFiniteSet(u)
      BY <1>3, <2>1, FS_Subset
    <3>4. TotalsOf(f, u)[v] = TotalsOf(f, v)[v]
      <4> HIDE DEF u, v
      <4>1. QED
        BY <2>2, <3>1, <3>2, <3>3, TotalsUnique
    <3>5. g[u] = f[Pick(u)] + TotalsOf(f, v)[v]
      BY <2>1, <2>5
    <3>6. TotalsOf(f, u)[u] = f[Pick(u)] + TotalsOf(f, u)[v]
      BY <2>3, <2>5 DEF Step
    <3>7. QED
      BY <3>4, <3>5, <3>6
  <2>6. QED
    BY <2>4, <2>5
<1>6. ASSUME NEW s \in SUBSET T PROVE g[s] = Step(f, g, s)
  BY <1>5 DEF Step
<1>7. IsTotals(f, g, T)
  BY <1>6 DEF IsTotals
<1>8. QED
  BY <1>7 DEF W

\* The sum over a set is its entry in the table of totals.
LEMMA SumIsTotal ==
  ASSUME NEW f, NEW S
  PROVE  SumFunctionOnSet(f, S) = TotalsOf(f, S)[S]
BY DEF SumFunctionOnSet, FoldFunctionOnSet, MapThenFoldSet, TotalsOf, IsTotals, Step, Pick

(***************************************************************************)
(* The sum over a set by its definition: one element taken out.            *)
(***************************************************************************)
LEMMA SumPick ==
  ASSUME NEW f, NEW S, IsFiniteSet(S)
  PROVE  /\ S = {} => SumFunctionOnSet(f, S) = 0
         /\ S # {} => SumFunctionOnSet(f, S)
                        = f[Pick(S)] + SumFunctionOnSet(f, S \ {Pick(S)})
<1> DEFINE U == S \ {Pick(S)}
<1>1. IsTotals(f, TotalsOf(f, S), S)
  BY TotalsExist DEF TotalsOf
<1>2. TotalsOf(f, S)[S] = Step(f, TotalsOf(f, S), S)
  BY <1>1 DEF IsTotals
<1>3. IsFiniteSet(U)
  BY FS_Subset
<1>4. IsTotals(f, TotalsOf(f, U), U)
  BY <1>3, TotalsExist DEF TotalsOf
<1>5. TotalsOf(f, S)[U] = TotalsOf(f, U)[U]
  <2>1. U \subseteq S
    OBVIOUS
  <2> HIDE DEF U
  <2>2. QED
    BY <1>1, <1>4, <2>1, TotalsUnique
<1>6. SumFunctionOnSet(f, S) = TotalsOf(f, S)[S] /\ SumFunctionOnSet(f, U) = TotalsOf(f, U)[U]
  BY SumIsTotal
<1>7. QED
  BY <1>2, <1>5, <1>6 DEF Step

\* The sum over no elements is 0.
LEMMA SumEmpty == ASSUME NEW f PROVE SumFunctionOnSet(f, {}) = 0
BY SumPick, FS_EmptySet

(***************************************************************************)
(* A sum of naturals is a natural.                                         *)
(***************************************************************************)
LEMMA SumType ==
  ASSUME NEW f, NEW S, IsFiniteSet(S), \A x \in S : f[x] \in Nat
  PROVE  SumFunctionOnSet(f, S) \in Nat
<1> DEFINE W == {T \in SUBSET S : SumFunctionOnSet(f, T) \notin Nat}
<1>1. SUFFICES ASSUME W # {} PROVE FALSE
  OBVIOUS
<1>2. PICK T \in W : \A y \in W : y \subseteq T => y = T
  <2>1. W \subseteq SUBSET S
    OBVIOUS
  <2> HIDE DEF W
  <2>2. QED
    BY <1>1, <2>1, SmallestSubset
<1>3. T \in SUBSET S /\ SumFunctionOnSet(f, T) \notin Nat /\ IsFiniteSet(T)
  BY FS_Subset
<1>4. CASE T = {}
  BY <1>3, <1>4, SumEmpty
<1>5. CASE T # {}
  <2> DEFINE U == T \ {Pick(T)}
  <2>1. Pick(T) \in T
    BY <1>5, PickIn
  <2>2. U \notin W /\ U \in SUBSET S
    BY <1>2, <1>3, <2>1
  <2>3. SumFunctionOnSet(f, U) \in Nat /\ f[Pick(T)] \in Nat
    BY <1>3, <2>1, <2>2
  <2>4. SumFunctionOnSet(f, T) = f[Pick(T)] + SumFunctionOnSet(f, U)
    BY <1>3, <1>5, SumPick
  <2>5. QED
    BY <1>3, <2>3, <2>4
<1>6. QED
  BY <1>4, <1>5

(***************************************************************************)
(* It does not matter which element is taken out.                          *)
(***************************************************************************)
LEMMA SumRemove ==
  ASSUME NEW f, NEW S, IsFiniteSet(S), \A x \in S : f[x] \in Nat, NEW e \in S
  PROVE  SumFunctionOnSet(f, S) = f[e] + SumFunctionOnSet(f, S \ {e})
<1> DEFINE Sum(T) == SumFunctionOnSet(f, T)
<1> DEFINE W == {T \in SUBSET S : \E x \in T : Sum(T) # f[x] + Sum(T \ {x})}
<1>1. SUFFICES ASSUME W # {} PROVE FALSE
  OBVIOUS
<1>2. PICK T \in W : \A y \in W : y \subseteq T => y = T
  <2>1. W \subseteq SUBSET S
    OBVIOUS
  <2> HIDE DEF W
  <2>2. QED
    BY <1>1, <2>1, SmallestSubset
<1>3. PICK x \in T : Sum(T) # f[x] + Sum(T \ {x})
  OBVIOUS
<1>4. T \in SUBSET S /\ IsFiniteSet(T)
  BY FS_Subset
<1> DEFINE p == Pick(T)
<1> DEFINE V == T \ {p, x}
<1>5. p \in T /\ Sum(T) = f[p] + Sum(T \ {p})
  BY <1>3, <1>4, PickIn, SumPick
<1>6. p # x
  BY <1>3, <1>5
<1>7. T \ {p} \notin W /\ T \ {x} \notin W
  BY <1>2, <1>3, <1>5
<1>8. \A y \in T \ {p} : Sum(T \ {p}) = f[y] + Sum((T \ {p}) \ {y})
  BY <1>4, <1>7
<1>9. \A y \in T \ {x} : Sum(T \ {x}) = f[y] + Sum((T \ {x}) \ {y})
  BY <1>4, <1>7
<1>10. (T \ {p}) \ {x} = V /\ (T \ {x}) \ {p} = V
  OBVIOUS
<1>11. Sum(T \ {p}) = f[x] + Sum(V)
  BY <1>3, <1>6, <1>8, <1>10
<1>12. Sum(T \ {x}) = f[p] + Sum(V)
  BY <1>5, <1>6, <1>9, <1>10
<1>13. Sum(V) \in Nat /\ f[p] \in Nat /\ f[x] \in Nat
  <2>1. IsFiniteSet(V) /\ \A y \in V : f[y] \in Nat
    BY <1>4, FS_Subset
  <2>2. Sum(V) \in Nat
    <3> HIDE DEF V
    <3>1. QED
      BY <2>1, SumType
  <2>3. QED
    BY <1>4, <1>5, <2>2
<1> HIDE DEF Sum, p, V
<1>14. QED
  BY <1>3, <1>5, <1>11, <1>12, <1>13

\* An element more adds its value to the sum.
LEMMA SumAdd ==
  ASSUME NEW f, NEW S, IsFiniteSet(S), NEW e, e \notin S, \A x \in S \cup {e} : f[x] \in Nat
  PROVE  SumFunctionOnSet(f, S \cup {e}) = f[e] + SumFunctionOnSet(f, S)
<1> DEFINE T == S \cup {e}
<1>1. T \ {e} = S /\ e \in T /\ \A x \in T : f[x] \in Nat
  OBVIOUS
<1>2. IsFiniteSet(T)
  BY FS_AddElement
<1> HIDE DEF T
<1>3. SumFunctionOnSet(f, T) = f[e] + SumFunctionOnSet(f, T \ {e})
  BY <1>1, <1>2, SumRemove
<1>4. QED
  BY <1>1, <1>3 DEF T

(***************************************************************************)
(* Sums of the same numbers are the same.                                  *)
(***************************************************************************)
LEMMA SumEqual ==
  ASSUME NEW f, NEW g, NEW S, IsFiniteSet(S), \A x \in S : f[x] = g[x]
  PROVE  SumFunctionOnSet(f, S) = SumFunctionOnSet(g, S)
<1> DEFINE W == {T \in SUBSET S : SumFunctionOnSet(f, T) # SumFunctionOnSet(g, T)}
<1>1. SUFFICES ASSUME W # {} PROVE FALSE
  OBVIOUS
<1>2. PICK T \in W : \A y \in W : y \subseteq T => y = T
  <2>1. W \subseteq SUBSET S
    OBVIOUS
  <2> HIDE DEF W
  <2>2. QED
    BY <1>1, <2>1, SmallestSubset
<1>3. T \in SUBSET S /\ SumFunctionOnSet(f, T) # SumFunctionOnSet(g, T) /\ IsFiniteSet(T)
  BY FS_Subset
<1>4. CASE T = {}
  BY <1>3, <1>4, SumEmpty
<1>5. CASE T # {}
  <2>1. Pick(T) \in T
    BY <1>5, PickIn
  <2>2. T \ {Pick(T)} \notin W
    BY <1>2, <2>1
  <2>3. SumFunctionOnSet(f, T \ {Pick(T)}) = SumFunctionOnSet(g, T \ {Pick(T)})
    BY <1>3, <2>2
  <2>4. /\ SumFunctionOnSet(f, T) = f[Pick(T)] + SumFunctionOnSet(f, T \ {Pick(T)})
        /\ SumFunctionOnSet(g, T) = g[Pick(T)] + SumFunctionOnSet(g, T \ {Pick(T)})
    BY <1>3, <1>5, SumPick
  <2>5. f[Pick(T)] = g[Pick(T)]
    BY <1>3, <2>1
  <2>6. QED
    BY <1>3, <2>3, <2>4, <2>5
<1>6. QED
  BY <1>4, <1>5
(***************************************************************************)
(* A finite nonempty set of integers has a greatest element.               *)
(***************************************************************************)
LEMMA FiniteGreatest ==
  ASSUME NEW S, IsFiniteSet(S), S \subseteq Int, S # {}
  PROVE  \E x \in S : \A y \in S : x >= y
<1> DEFINE W == {T \in SUBSET S : T # {} /\ \A x \in T : \E y \in T : x < y}
<1>1. SUFFICES ASSUME W # {} PROVE FALSE
  <2>1. CASE S \in W
    BY <1>1, <2>1
  <2>2. CASE S \notin W
    <3>1. PICK x \in S : \A y \in S : ~ (x < y)
      BY <2>2
    <3>2. \A y \in S : x >= y
      <4>1. x \in Int /\ S \subseteq Int
        OBVIOUS
      <4>2. QED
        BY <3>1, <4>1
    <3>3. QED
      BY <3>2
  <2>3. QED
    BY <2>1, <2>2
<1>2. PICK T \in W : \A y \in W : y \subseteq T => y = T
  <2>1. W \subseteq SUBSET S
    OBVIOUS
  <2>2. IsFiniteSet(S)
    OBVIOUS
  <2> HIDE DEF W
  <2>3. QED
    BY ONLY <1>1, <2>1, <2>2, SmallestSubset
<1>3. T \subseteq Int /\ T # {} /\ \A x \in T : \E y \in T : x < y
  OBVIOUS
<1>4. PICK e \in T : TRUE
  BY <1>3
<1>5. PICK z \in T : e < z
  BY <1>3, <1>4
<1> DEFINE U == {x \in T : e < x}
<1>6. U \subseteq T /\ e \notin U /\ e \in T /\ z \in U /\ U \in SUBSET S
  <2>1. e \in Int /\ T \in SUBSET S
    BY <1>3, <1>4
  <2>2. ~ (e < e)
    BY <2>1
  <2>3. QED
    BY <1>4, <1>5, <2>1, <2>2
<1>7. ASSUME NEW x \in U PROVE \E y \in U : x < y
  <2>1. x \in T /\ e < x
    OBVIOUS
  <2>2. PICK y \in T : x < y
    BY <1>3, <2>1
  <2>3. e \in Int /\ x \in Int /\ y \in Int
    BY <1>3, <1>4, <2>1, <2>2
  <2>4. e < y
    BY <2>1, <2>2, <2>3
  <2>5. QED
    BY <2>2, <2>4
<1>8. U \in W
  BY <1>6, <1>7
<1>9. QED
  BY <1>2, <1>6, <1>8

(***************************************************************************)
(* Places in the order of a finite set of integers: how many of its        *)
(* elements are not above k.                                               *)
(***************************************************************************)
UpTo(S, k) == {l \in S : l <= k}
Place(S, k) == Cardinality(UpTo(S, k))

\* Places are between 1 and the size of the set, and they grow with the element.
LEMMA PlaceFacts ==
  ASSUME NEW S, IsFiniteSet(S), S \subseteq Nat, NEW k \in S
  PROVE  /\ Place(S, k) \in 1 .. Cardinality(S)
         /\ \A m \in S : k < m => Place(S, k) < Place(S, m)
<1>1. IsFiniteSet(UpTo(S, k)) /\ UpTo(S, k) \subseteq S /\ k \in UpTo(S, k)
  <2>1. UpTo(S, k) \subseteq S /\ k \in UpTo(S, k)
    BY DEF UpTo
  <2>2. QED
    BY <2>1, FS_Subset
<1>2. /\ Cardinality(UpTo(S, k)) \in Nat /\ Cardinality(S) \in Nat
      /\ Cardinality(UpTo(S, k)) <= Cardinality(S)
  BY <1>1, FS_CardinalityType, FS_Subset
<1>3. Cardinality(UpTo(S, k)) # 0
  BY <1>1, FS_EmptySet
<1>4. ASSUME NEW m \in S, k < m PROVE Place(S, k) < Place(S, m)
  <2>1. UpTo(S, m) \subseteq S /\ m \in UpTo(S, m)
    BY DEF UpTo
  <2>2. UpTo(S, k) \subseteq UpTo(S, m)
    <3>1. k \in Nat /\ m \in Nat /\ S \subseteq Nat
      OBVIOUS
    <3>2. \A l \in Nat : l <= k => l <= m
      BY <1>4, <3>1
    <3>3. QED
      BY <3>1, <3>2 DEF UpTo
  <2>3. m \notin UpTo(S, k)
    <3>1. k \in Nat /\ m \in Nat
      OBVIOUS
    <3>2. ~ (m <= k)
      BY <1>4, <3>1
    <3>3. QED
      BY <3>2 DEF UpTo
  <2>4. IsFiniteSet(UpTo(S, m))
    BY <2>1, FS_Subset
  <2>5. /\ Cardinality(UpTo(S, k)) <= Cardinality(UpTo(S, m))
        /\ Cardinality(UpTo(S, k)) = Cardinality(UpTo(S, m)) => UpTo(S, k) = UpTo(S, m)
    BY <2>2, <2>4, FS_Subset
  <2>6. Cardinality(UpTo(S, m)) \in Nat
    BY <2>4, FS_CardinalityType
  <2>7. QED
    BY <1>2, <2>1, <2>3, <2>5, <2>6 DEF Place
<1>5. QED
  BY <1>2, <1>3, <1>4 DEF Place

\* Every place is taken,
LEMMA PlaceTaken ==
  ASSUME NEW S, IsFiniteSet(S), S \subseteq Nat, NEW j \in 1 .. Cardinality(S)
  PROVE  \E k \in S : Place(S, k) = j
<1> DEFINE High == {k \in S : Place(S, k) >= j}
<1>1. Cardinality(S) \in Nat /\ j \in Nat /\ j >= 1 /\ j <= Cardinality(S)
  BY FS_CardinalityType
<1>2. S # {}
  BY <1>1, FS_EmptySet
<1>3. PICK g \in S : \A y \in S : g >= y
  <2>1. IsFiniteSet(S) /\ S \subseteq Int
    OBVIOUS
  <2>2. QED
    BY ONLY <1>2, <2>1, FiniteGreatest
<1>4. UpTo(S, g) = S
  BY <1>3 DEF UpTo
<1>5. g \in High
  BY <1>1, <1>4 DEF Place
<1>6. \E k \in High : \A y \in High : y >= k
  <2>1. High \subseteq Nat /\ High # {}
    BY <1>5
  <2> HIDE DEF High
  <2>2. PICK k \in High : \A y \in High : k <= y
    BY <2>1, LeastNatural
  <2>3. QED
    <3>1. \A y \in High : k \in Nat /\ y \in Nat
      BY <2>1
    <3>2. \A y \in High : y >= k
      BY <2>2, <3>1
    <3>3. QED
      BY <3>2
<1>7. PICK k \in High : \A y \in High : y >= k
  BY <1>6
<1>8. k \in S /\ Place(S, k) >= j /\ Place(S, k) \in Nat /\ k \in Nat
  <2>1. k \in S /\ Place(S, k) >= j
    OBVIOUS
  <2>2. Place(S, k) \in 1 .. Cardinality(S)
    BY <2>1, PlaceFacts
  <2>3. QED
    BY <1>1, <2>1, <2>2
<1> DEFINE L == {l \in S : l < k}
<1>9. IsFiniteSet(L) /\ L \subseteq S /\ L \subseteq Int /\ Cardinality(L) \in Nat
  <2>1. L \subseteq S
    OBVIOUS
  <2> HIDE DEF L
  <2>2. IsFiniteSet(L)
    BY <2>1, FS_Subset
  <2>3. QED
    BY <2>1, <2>2, FS_CardinalityType
<1>10. Place(S, k) = Cardinality(L) + 1
  <2>1. UpTo(S, k) = L \cup {k} /\ k \notin L
    <3>1. \A l \in S : l <= k <=> (l < k \/ l = k)
      BY <1>8
    <3>2. ~ (k < k)
      BY <1>8
    <3>3. QED
      BY <1>8, <3>1, <3>2 DEF UpTo
  <2> HIDE DEF L
  <2>2. Cardinality(L \cup {k}) = Cardinality(L) + 1
    BY <1>9, <2>1, FS_AddElement
  <2>3. QED
    BY <2>1, <2>2 DEF Place
<1>11. Cardinality(L) < j
  <2>1. SUFFICES ASSUME Cardinality(L) >= j PROVE FALSE
    BY <1>1, <1>9
  <2>2. L # {}
    BY <1>1, <2>1, FS_EmptySet
  <2>3. PICK m \in L : \A y \in L : m >= y
    <3> HIDE DEF L
    <3>1. QED
      BY <1>9, <2>2, FiniteGreatest
  <2>4. m \in S /\ m < k /\ m \in Int
    OBVIOUS
  <2>5. UpTo(S, m) = L
    <3>1. ASSUME NEW l \in S PROVE l <= m <=> l < k
      <4>1. l \in Int /\ (l < k => l \in L)
        OBVIOUS
      <4>2. l < k => l <= m
        BY <2>3, <2>4, <4>1
      <4>3. l <= m => l < k
        BY <1>8, <2>4, <4>1
      <4>4. QED
        BY <4>2, <4>3
    <3>2. QED
      BY <3>1 DEF UpTo
  <2>6. m \in High
    <3>1. Place(S, m) >= j
      BY <2>1, <2>5 DEF Place
    <3>2. QED
      BY <2>4, <3>1
  <2>7. m >= k
    BY <1>7, <2>6
  <2>8. QED
    BY <1>8, <2>4, <2>7
<1>12. Place(S, k) = j
  BY <1>1, <1>8, <1>9, <1>10, <1>11
<1>13. QED
  BY <1>8, <1>12

\* by one element.
LEMMA PlaceOne ==
  ASSUME NEW S, IsFiniteSet(S), S \subseteq Nat, NEW k \in S, NEW m \in S,
         Place(S, k) = Place(S, m)
  PROVE  k = m
<1>1. k \in Nat /\ m \in Nat /\ Cardinality(S) \in Nat
  BY FS_CardinalityType
<1>2. Place(S, k) \in 1 .. Cardinality(S) /\ (k < m => Place(S, k) < Place(S, m))
  BY PlaceFacts
<1>3. m < k => Place(S, m) < Place(S, k)
  BY PlaceFacts
<1>4. QED
  BY <1>1, <1>2, <1>3

(***************************************************************************)
(* A sum of numbers that are not greater, over fewer elements, is not      *)
(* greater.                                                                *)
(***************************************************************************)
LEMMA SumSmaller ==
  ASSUME NEW f, NEW g, NEW S, IsFiniteSet(S),
         \A x \in S : f[x] \in Nat /\ g[x] \in Nat /\ f[x] <= g[x]
  PROVE  SumFunctionOnSet(f, S) <= SumFunctionOnSet(g, S)
<1> DEFINE W == {T \in SUBSET S : ~ (SumFunctionOnSet(f, T) <= SumFunctionOnSet(g, T))}
<1>1. SUFFICES ASSUME W # {} PROVE FALSE
  OBVIOUS
<1>2. PICK T \in W : \A y \in W : y \subseteq T => y = T
  <2>1. W \subseteq SUBSET S
    OBVIOUS
  <2> HIDE DEF W
  <2>2. QED
    BY <1>1, <2>1, SmallestSubset
<1>3. /\ T \in SUBSET S /\ IsFiniteSet(T)
      /\ ~ (SumFunctionOnSet(f, T) <= SumFunctionOnSet(g, T))
  BY FS_Subset
<1>4. T # {}
  BY <1>3, SumEmpty
<1> DEFINE U == T \ {Pick(T)}
<1>5. Pick(T) \in T
  BY <1>4, PickIn
<1>6. U \in SUBSET S /\ U \notin W /\ IsFiniteSet(U)
  <2>1. U \in SUBSET S /\ U \notin W /\ U \subseteq T
    BY <1>2, <1>3, <1>5
  <2> HIDE DEF U
  <2>2. QED
    BY <1>3, <2>1, FS_Subset
<1>7. SumFunctionOnSet(f, U) <= SumFunctionOnSet(g, U)
  BY <1>6
<1>8. /\ SumFunctionOnSet(f, T) = f[Pick(T)] + SumFunctionOnSet(f, U)
      /\ SumFunctionOnSet(g, T) = g[Pick(T)] + SumFunctionOnSet(g, U)
  BY <1>3, <1>4, SumPick
<1>9. f[Pick(T)] \in Nat /\ g[Pick(T)] \in Nat /\ f[Pick(T)] <= g[Pick(T)]
  BY <1>3, <1>5
<1>10. SumFunctionOnSet(f, U) \in Nat /\ SumFunctionOnSet(g, U) \in Nat
  <2>1. \A x \in U : f[x] \in Nat /\ g[x] \in Nat
    BY <1>6
  <2> HIDE DEF U
  <2>2. QED
    BY <1>6, <2>1, SumType
<1> HIDE DEF U
<1>11. QED
  BY <1>3, <1>7, <1>8, <1>9, <1>10

\* A sum over one element, and one over two.
LEMMA SumSmall ==
  ASSUME NEW f, NEW a, f[a] \in Nat, NEW b, f[b] \in Nat, a # b
  PROVE  /\ SumFunctionOnSet(f, {a}) = f[a]
         /\ SumFunctionOnSet(f, {a, b}) = f[a] + f[b]
<1>1. SumFunctionOnSet(f, {}) = 0 /\ {} \cup {a} = {a} /\ {a} \cup {b} = {a, b}
  BY SumEmpty
<1>2. SumFunctionOnSet(f, {} \cup {a}) = f[a] + SumFunctionOnSet(f, {})
  BY FS_EmptySet, SumAdd
<1>3. SumFunctionOnSet(f, {a}) = f[a]
  BY <1>1, <1>2
<1>4. IsFiniteSet({a})
  BY FS_Singleton
<1>5. SumFunctionOnSet(f, {a} \cup {b}) = f[b] + SumFunctionOnSet(f, {a})
  BY <1>4, SumAdd
<1>6. SumFunctionOnSet(f, {a, b}) = f[b] + f[a]
  BY <1>1, <1>3, <1>5
<1>7. f[b] + f[a] = f[a] + f[b]
  OBVIOUS
<1>8. QED
  BY <1>3, <1>6, <1>7

\* One number that changes changes the sum as much.
LEMMA SumChange ==
  ASSUME NEW f, NEW g, NEW S, IsFiniteSet(S), NEW e \in S, \A x \in S : f[x] \in Nat,
         g[e] \in Nat, \A x \in S \ {e} : g[x] = f[x]
  PROVE  SumFunctionOnSet(g, S) + f[e] = SumFunctionOnSet(f, S) + g[e]
<1> DEFINE U == S \ {e}
<1>1. IsFiniteSet(U) /\ \A x \in U : f[x] = g[x] /\ f[x] \in Nat
  BY FS_Subset
<1>2. \A x \in S : g[x] \in Nat
  OBVIOUS
<1>3. SumFunctionOnSet(f, S) = f[e] + SumFunctionOnSet(f, U)
  BY SumRemove
<1>4. SumFunctionOnSet(g, S) = g[e] + SumFunctionOnSet(g, U)
  BY <1>2, SumRemove
<1> HIDE DEF U
<1>5. SumFunctionOnSet(f, U) = SumFunctionOnSet(g, U) /\ SumFunctionOnSet(f, U) \in Nat
  BY <1>1, SumEqual, SumType
<1>6. QED
  BY <1>3, <1>4, <1>5

\* A sum of zeros.
LEMMA SumZero ==
  ASSUME NEW f, NEW S, IsFiniteSet(S), \A x \in S : f[x] = 0
  PROVE  SumFunctionOnSet(f, S) = 0
<1> DEFINE W == {T \in SUBSET S : SumFunctionOnSet(f, T) # 0}
<1>1. SUFFICES ASSUME W # {} PROVE FALSE
  OBVIOUS
<1>2. PICK T \in W : \A y \in W : y \subseteq T => y = T
  <2>1. W \subseteq SUBSET S
    OBVIOUS
  <2> HIDE DEF W
  <2>2. QED
    BY <1>1, <2>1, SmallestSubset
<1>3. T \in SUBSET S /\ IsFiniteSet(T) /\ SumFunctionOnSet(f, T) # 0
  BY FS_Subset
<1>4. T # {}
  BY <1>3, SumEmpty
<1>5. PICK e \in T : TRUE
  BY <1>4
<1>6. SumFunctionOnSet(f, T \ {e}) = 0
  BY <1>2, <1>3, <1>5
<1>7. SumFunctionOnSet(f, T) = f[e] + SumFunctionOnSet(f, T \ {e})
  <2>1. \A x \in T : f[x] \in Nat
    BY <1>3
  <2>2. QED
    BY <1>3, <1>5, <2>1, SumRemove
<1>8. f[e] = 0
  BY <1>3, <1>5
<1>9. QED
  BY <1>3, <1>6, <1>7, <1>8

\* A sum over some of the elements.
LEMMA SumPart ==
  ASSUME NEW f, NEW S, IsFiniteSet(S), \A x \in S : f[x] \in Nat, NEW T, T \subseteq S
  PROVE  SumFunctionOnSet(f, T) <= SumFunctionOnSet(f, S)
<1> DEFINE g == [x \in S |-> IF x \in T THEN f[x] ELSE 0]
           W == {U \in SUBSET S : /\ T \subseteq U
                                  /\ ~ (SumFunctionOnSet(f, T) <= SumFunctionOnSet(f, U))}
<1>1. SUFFICES ASSUME W # {} PROVE FALSE
  OBVIOUS
<1>2. PICK U \in W : \A y \in W : y \subseteq U => y = U
  <2>1. W \subseteq SUBSET S
    OBVIOUS
  <2> HIDE DEF W
  <2>2. QED
    BY <1>1, <2>1, SmallestSubset
<1>3. /\ U \in SUBSET S /\ IsFiniteSet(U) /\ T \subseteq U
      /\ ~ (SumFunctionOnSet(f, T) <= SumFunctionOnSet(f, U))
  BY FS_Subset
<1>4. SumFunctionOnSet(f, T) \in Nat
  <2>1. IsFiniteSet(T) /\ \A x \in T : f[x] \in Nat
    BY FS_Subset
  <2>2. QED
    BY <2>1, SumType
<1>5. U # T
  BY <1>3, <1>4
<1>6. PICK e \in U : e \notin T
  BY <1>3, <1>5
<1> DEFINE V == U \ {e}
<1>7. V \in SUBSET S /\ T \subseteq V /\ V # U /\ V \subseteq U
  BY <1>3, <1>6
<1>8. V \notin W
  BY <1>2, <1>7
<1>9. SumFunctionOnSet(f, T) <= SumFunctionOnSet(f, V)
  BY <1>7, <1>8
<1>10. SumFunctionOnSet(f, U) = f[e] + SumFunctionOnSet(f, V)
  <2>1. \A x \in U : f[x] \in Nat
    BY <1>3
  <2>2. QED
    BY <1>3, <1>6, <2>1, SumRemove
<1>11. f[e] \in Nat /\ SumFunctionOnSet(f, V) \in Nat
  <2>1. IsFiniteSet(V) /\ \A x \in V : f[x] \in Nat
    BY <1>7, FS_Subset
  <2>2. SumFunctionOnSet(f, V) \in Nat
    <3> HIDE DEF V
    <3>1. QED
      BY <2>1, SumType
  <2>3. QED
    BY <1>3, <1>6, <2>2
<1> HIDE DEF V
<1>12. QED
  BY <1>3, <1>4, <1>9, <1>10, <1>11

\* A range from 1 tells its end.
LEMMA SameEnd == ASSUME NEW a \in Nat, NEW b \in Nat, 1 .. a = 1 .. b PROVE a = b
<1>1. CASE a < b
  <2>1. b \in 1 .. b /\ b \notin 1 .. a
    BY <1>1
  <2>2. QED
    BY <2>1
<1>2. CASE b < a
  <2>1. a \in 1 .. a /\ a \notin 1 .. b
    BY <1>2
  <2>2. QED
    BY <2>1
<1>3. QED
  BY <1>1, <1>2

(***************************************************************************)
(* Cardinalities as sums, sums over the elements of another set, and sums  *)
(* over two stretches of a list.                                           *)
(***************************************************************************)
\* The image of a finite set is finite, and as large if nothing coincides.
LEMMA ImageFinite ==
  ASSUME NEW h, NEW T, IsFiniteSet(T)
  PROVE  IsFiniteSet({h[t] : t \in T})
<1> DEFINE f == [t \in T |-> h[t]]
<1>1. f \in Surjection(T, {h[t] : t \in T})
  BY DEF Surjection
<1>2. QED
  BY <1>1, FS_Surjection

\* An image under an injection has as many elements.
LEMMA ImageSize ==
  ASSUME NEW h, NEW T, IsFiniteSet(T), \A t, u \in T : h[t] = h[u] => t = u
  PROVE  Cardinality({h[t] : t \in T}) = Cardinality(T)
<1> DEFINE f == [t \in T |-> h[t]]
<1>1. f \in Bijection(T, {h[t] : t \in T})
  BY DEF Bijection, Injection, Surjection, IsInjective
<1>2. QED
  BY <1>1, FS_Bijection DEF ExistsBijection

\* A sum over the image of a set, each element taken once.
LEMMA SumMapped ==
  ASSUME NEW f, NEW h, NEW T, IsFiniteSet(T), \A t \in T : f[h[t]] \in Nat,
         \A t, u \in T : h[t] = h[u] => t = u
  PROVE  SumFunctionOnSet([t \in T |-> f[h[t]]], T) = SumFunctionOnSet(f, {h[t] : t \in T})
<1> DEFINE g == [t \in T |-> f[h[t]]]
           Image(U) == {h[t] : t \in U}
           Bad == {U \in SUBSET T : SumFunctionOnSet(g, U) # SumFunctionOnSet(f, Image(U))}
<1>1. SUFFICES ASSUME Bad # {} PROVE FALSE
  OBVIOUS
<1>2. PICK U \in Bad : \A V \in Bad : V \subseteq U => V = U
  <2>1. Bad \subseteq SUBSET T
    OBVIOUS
  <2> HIDE DEF Bad
  <2>2. QED
    BY <1>1, <2>1, SmallestSubset
<1>3. U # {}
  <2>1. SumFunctionOnSet(g, {}) = 0 /\ SumFunctionOnSet(f, {}) = 0
    BY SumEmpty
  <2>2. Image({}) = {}
    OBVIOUS
  <2>3. QED
    BY <1>2, <2>1, <2>2
<1>4. PICK e \in U : TRUE
  BY <1>3
<1> DEFINE V == U \ {e}
<1>5. IsFiniteSet(U) /\ IsFiniteSet(V) /\ V \subseteq T /\ U \subseteq T
  BY <1>2, FS_Subset
<1>6. SumFunctionOnSet(g, V) = SumFunctionOnSet(f, Image(V))
  BY <1>2, <1>4, <1>5
<1>7. SumFunctionOnSet(g, U) = g[e] + SumFunctionOnSet(g, V)
  <2>1. \A x \in U : g[x] \in Nat
    BY <1>5
  <2> HIDE DEF g
  <2>2. QED
    BY <1>4, <1>5, <2>1, SumRemove
<1>8. SumFunctionOnSet(f, Image(U)) = f[h[e]] + SumFunctionOnSet(f, Image(V))
  <2>1. Image(U) = Image(V) \cup {h[e]} /\ h[e] \notin Image(V)
    BY <1>4, <1>5
  <2>2. IsFiniteSet(Image(V)) /\ \A x \in Image(V) \cup {h[e]} : f[x] \in Nat
    BY <1>4, <1>5, ImageFinite
  <2> HIDE DEF Image
  <2>3. QED
    BY <2>1, <2>2, SumAdd
<1>9. g[e] = f[h[e]]
  BY <1>4, <1>5
<1>10. QED
  BY <1>2, <1>6, <1>7, <1>8, <1>9

\* The size of a disjoint union is the sum of the sizes.
LEMMA CardUnion ==
  ASSUME NEW c, NEW S, IsFiniteSet(S), \A x \in S : IsFiniteSet(c[x]),
         \A x, y \in S : x # y => c[x] \cap c[y] = {}
  PROVE  /\ IsFiniteSet(UNION {c[x] : x \in S})
         /\ Cardinality(UNION {c[x] : x \in S})
              = SumFunctionOnSet([x \in S |-> Cardinality(c[x])], S)
<1> DEFINE g == [x \in S |-> Cardinality(c[x])]
           All(U) == UNION {c[x] : x \in U}
           Good(U) == IsFiniteSet(All(U)) /\ Cardinality(All(U)) = SumFunctionOnSet(g, U)
           Bad == {U \in SUBSET S : ~Good(U)}
<1>1. SUFFICES ASSUME Bad # {} PROVE FALSE
  OBVIOUS
<1>2. PICK U \in Bad : \A V \in Bad : V \subseteq U => V = U
  <2>1. Bad \subseteq SUBSET S
    OBVIOUS
  <2> HIDE DEF Bad
  <2>2. QED
    BY <1>1, <2>1, SmallestSubset
<1>3. U # {}
  <2>1. SumFunctionOnSet(g, {}) = 0 /\ IsFiniteSet({}) /\ Cardinality({}) = 0
    BY SumEmpty, FS_EmptySet
  <2>2. All({}) = {}
    OBVIOUS
  <2>3. QED
    BY <1>2, <2>1, <2>2
<1>4. PICK e \in U : TRUE
  BY <1>3
<1> DEFINE V == U \ {e}
<1>5. IsFiniteSet(U) /\ IsFiniteSet(V) /\ V \subseteq S /\ U \subseteq S /\ V \notin Bad /\ e \in S
  BY <1>2, <1>4, FS_Subset
<1>6. Good(V)
  BY <1>5
<1>7. SumFunctionOnSet(g, U) = g[e] + SumFunctionOnSet(g, V)
  <2>1. \A x \in U : g[x] \in Nat
    BY <1>5, FS_CardinalityType
  <2> HIDE DEF g
  <2>2. QED
    BY <1>4, <1>5, <2>1, SumRemove
<1>8. All(U) = All(V) \cup c[e] /\ All(V) \cap c[e] = {}
  BY <1>4, <1>5
<1>9. IsFiniteSet(c[e]) /\ IsFiniteSet(All(V)) /\ Cardinality(c[e]) \in Nat
  BY <1>5, <1>6, FS_CardinalityType
<1>10. IsFiniteSet(All(U)) /\ Cardinality(All(U)) = Cardinality(All(V)) + Cardinality(c[e])
  <2> HIDE DEF All
  <2>1. IsFiniteSet(All(V) \cup c[e])
    BY <1>9, FS_Union
  <2>2. Cardinality(All(V) \cup c[e]) = Cardinality(All(V)) + Cardinality(c[e])
    <3>1. Cardinality(All(V) \cup c[e])
            = Cardinality(All(V)) + Cardinality(c[e]) - Cardinality(All(V) \cap c[e])
      BY <1>9, FS_Union
    <3>2. Cardinality(All(V) \cap c[e]) = 0 /\ Cardinality(All(V)) \in Nat
      BY <1>8, <1>9, FS_CardinalityType, FS_EmptySet
    <3>3. QED
      BY ONLY <1>9, <3>1, <3>2
  <2>3. QED
    BY <1>8, <2>1, <2>2
<1>11. g[e] = Cardinality(c[e]) /\ Cardinality(All(V)) = SumFunctionOnSet(g, V)
  BY <1>5, <1>6
<1>12. Cardinality(All(V)) \in Nat
  BY <1>9, FS_CardinalityType
<1>13. Good(U)
  <2> HIDE DEF All, g
  <2>1. QED
    BY <1>7, <1>9, <1>10, <1>11, <1>12
<1>14. QED
  BY <1>2, <1>13

\* A sum over two sets with nothing in common.
LEMMA SumTwo ==
  ASSUME NEW f, NEW S, IsFiniteSet(S), NEW T, IsFiniteSet(T), S \cap T = {},
         \A x \in S \cup T : f[x] \in Nat
  PROVE  SumFunctionOnSet(f, S \cup T) = SumFunctionOnSet(f, S) + SumFunctionOnSet(f, T)
<1> DEFINE Sum(U) == SumFunctionOnSet(f, U)
           Bad == {U \in SUBSET T : Sum(S \cup U) # Sum(S) + Sum(U)}
<1>1. SUFFICES ASSUME Bad # {} PROVE FALSE
  OBVIOUS
<1>2. PICK U \in Bad : \A V \in Bad : V \subseteq U => V = U
  <2>1. Bad \subseteq SUBSET T
    OBVIOUS
  <2> HIDE DEF Bad
  <2>2. QED
    BY <1>1, <2>1, SmallestSubset
<1>3. Sum(S) \in Nat
  BY SumType
<1>4. U # {}
  <2>1. Sum({}) = 0 /\ S \cup {} = S
    BY SumEmpty
  <2>2. Sum(S \cup U) # Sum(S) + Sum(U)
    BY <1>2
  <2> HIDE DEF Sum
  <2>3. SUFFICES ASSUME U = {} PROVE FALSE
    OBVIOUS
  <2>4. Sum(S \cup U) = Sum(S) /\ Sum(U) = 0
    BY ONLY <2>1, <2>3
  <2>5. QED
    BY ONLY <1>3, <2>2, <2>4
<1>5. PICK e \in U : TRUE
  BY <1>4
<1> DEFINE V == U \ {e}
<1>6. /\ IsFiniteSet(U) /\ IsFiniteSet(V) /\ V \subseteq T /\ U \subseteq T /\ e \in T /\ V # U
      /\ IsFiniteSet(S \cup V)
  BY <1>2, <1>5, FS_Subset, FS_Union
<1>7. Sum(S \cup V) = Sum(S) + Sum(V)
  BY <1>2, <1>6
<1>8. Sum(U) = f[e] + Sum(V)
  BY <1>5, <1>6, SumRemove
<1>9. Sum((S \cup V) \cup {e}) = f[e] + Sum(S \cup V)
  BY <1>5, <1>6, SumAdd
<1>10. (S \cup V) \cup {e} = S \cup U
  BY <1>5
<1>11. f[e] \in Nat /\ Sum(V) \in Nat
  <2>1. \A x \in V : f[x] \in Nat
    BY <1>6
  <2>2. QED
    BY <1>6, <2>1, SumType
<1>12. Sum(S \cup U) # Sum(S) + Sum(U)
  BY <1>2
<1>13. Sum(S \cup U) = f[e] + Sum(S \cup V)
  BY <1>9, <1>10
<1> HIDE DEF Sum, V
<1>14. QED
  BY ONLY <1>3, <1>7, <1>8, <1>11, <1>12, <1>13

\* A sum over a set in parts is the sum of the sums over the parts.
LEMMA SumUnion ==
  ASSUME NEW f, NEW c, NEW S, IsFiniteSet(S), \A x \in S : IsFiniteSet(c[x]),
         \A x, y \in S : x # y => c[x] \cap c[y] = {},
         \A x \in S : \A z \in c[x] : f[z] \in Nat
  PROVE  /\ IsFiniteSet(UNION {c[x] : x \in S})
         /\ SumFunctionOnSet(f, UNION {c[x] : x \in S})
              = SumFunctionOnSet([x \in S |-> SumFunctionOnSet(f, c[x])], S)
<1> DEFINE g == [x \in S |-> SumFunctionOnSet(f, c[x])]
           All(U) == UNION {c[x] : x \in U}
           Good(U) == IsFiniteSet(All(U)) /\ SumFunctionOnSet(f, All(U)) = SumFunctionOnSet(g, U)
           Bad == {U \in SUBSET S : ~Good(U)}
<1>1. SUFFICES ASSUME Bad # {} PROVE FALSE
  OBVIOUS
<1>2. PICK U \in Bad : \A V \in Bad : V \subseteq U => V = U
  <2>1. Bad \subseteq SUBSET S
    OBVIOUS
  <2> HIDE DEF Bad
  <2>2. QED
    BY <1>1, <2>1, SmallestSubset
<1>3. U # {}
  <2>1. SumFunctionOnSet(g, {}) = 0 /\ IsFiniteSet({}) /\ SumFunctionOnSet(f, {}) = 0
    BY SumEmpty, FS_EmptySet
  <2>2. All({}) = {}
    OBVIOUS
  <2>3. QED
    BY <1>2, <2>1, <2>2
<1>4. PICK e \in U : TRUE
  BY <1>3
<1> DEFINE V == U \ {e}
<1>5. IsFiniteSet(U) /\ IsFiniteSet(V) /\ V \subseteq S /\ U \subseteq S /\ V \notin Bad /\ e \in S
  BY <1>2, <1>4, FS_Subset
<1>6. Good(V)
  BY <1>5
<1>7. SumFunctionOnSet(g, U) = g[e] + SumFunctionOnSet(g, V)
  <2>1. \A x \in U : g[x] \in Nat
    BY <1>5, SumType
  <2> HIDE DEF g
  <2>2. QED
    BY <1>4, <1>5, <2>1, SumRemove
<1>8. All(U) = All(V) \cup c[e] /\ All(V) \cap c[e] = {}
  BY <1>4, <1>5
<1>9. IsFiniteSet(c[e]) /\ IsFiniteSet(All(V)) /\ \A x \in All(V) \cup c[e] : f[x] \in Nat
  BY <1>5, <1>6
<1>10. /\ IsFiniteSet(All(U))
       /\ SumFunctionOnSet(f, All(U)) = SumFunctionOnSet(f, All(V)) + SumFunctionOnSet(f, c[e])
  <2> HIDE DEF All
  <2>1. IsFiniteSet(All(V) \cup c[e])
    BY <1>9, FS_Union
  <2>2. SumFunctionOnSet(f, All(V) \cup c[e]) = SumFunctionOnSet(f, All(V)) + SumFunctionOnSet(f, c[e])
    BY <1>8, <1>9, SumTwo
  <2>3. QED
    BY <1>8, <2>1, <2>2
<1>11. g[e] = SumFunctionOnSet(f, c[e]) /\ SumFunctionOnSet(f, All(V)) = SumFunctionOnSet(g, V)
  BY <1>5, <1>6
<1>12. SumFunctionOnSet(f, All(V)) \in Nat /\ SumFunctionOnSet(f, c[e]) \in Nat
  <2> HIDE DEF All
  <2>1. QED
    BY <1>9, SumType
<1>13. Good(U)
  <2> HIDE DEF All, g
  <2>1. QED
    BY <1>7, <1>9, <1>10, <1>11, <1>12
<1>14. QED
  BY <1>2, <1>13

\* Elements that add nothing need not be summed over.
LEMMA SumRest ==
  ASSUME NEW f, NEW S, IsFiniteSet(S), NEW T, T \subseteq S, \A x \in T : f[x] \in Nat,
         \A x \in S \ T : f[x] = 0
  PROVE  SumFunctionOnSet(f, T) = SumFunctionOnSet(f, S)
<1> DEFINE R == S \ T
<1>1. IsFiniteSet(T) /\ IsFiniteSet(R) /\ T \cup R = S /\ T \cap R = {}
  BY FS_Subset
<1>2. SumFunctionOnSet(f, R) = 0
  BY <1>1, SumZero
<1>3. \A x \in T \cup R : f[x] \in Nat
  OBVIOUS
<1>4. SumFunctionOnSet(f, T) \in Nat
  BY <1>1, SumType
<1> HIDE DEF R
<1>5. SumFunctionOnSet(f, T \cup R) = SumFunctionOnSet(f, T) + SumFunctionOnSet(f, R)
  BY <1>1, <1>3, SumTwo
<1>6. QED
  BY <1>1, <1>2, <1>4, <1>5

\* A sum of sums of two.
LEMMA SumPlus ==
  ASSUME NEW f, NEW g, NEW h, NEW S, IsFiniteSet(S),
         \A x \in S : f[x] \in Nat /\ g[x] \in Nat /\ h[x] = f[x] + g[x]
  PROVE  SumFunctionOnSet(h, S) = SumFunctionOnSet(f, S) + SumFunctionOnSet(g, S)
<1> DEFINE Bad == {U \in SUBSET S : SumFunctionOnSet(h, U)
                                      # SumFunctionOnSet(f, U) + SumFunctionOnSet(g, U)}
<1>1. SUFFICES ASSUME Bad # {} PROVE FALSE
  OBVIOUS
<1>2. PICK U \in Bad : \A V \in Bad : V \subseteq U => V = U
  <2>1. Bad \subseteq SUBSET S
    OBVIOUS
  <2> HIDE DEF Bad
  <2>2. QED
    BY <1>1, <2>1, SmallestSubset
<1>3. U # {}
  <2>1. /\ SumFunctionOnSet(f, {}) = 0 /\ SumFunctionOnSet(g, {}) = 0
        /\ SumFunctionOnSet(h, {}) = 0
    BY SumEmpty
  <2>2. SumFunctionOnSet(h, U) # SumFunctionOnSet(f, U) + SumFunctionOnSet(g, U)
    BY <1>2
  <2>3. SUFFICES ASSUME U = {} PROVE FALSE
    OBVIOUS
  <2>4. QED
    BY ONLY <2>1, <2>2, <2>3
<1>4. PICK e \in U : TRUE
  BY <1>3
<1> DEFINE V == U \ {e}
<1>5. IsFiniteSet(U) /\ IsFiniteSet(V) /\ V \subseteq S /\ U \subseteq S /\ V # U /\ e \in S
  BY <1>2, <1>4, FS_Subset
<1>6. SumFunctionOnSet(h, V) = SumFunctionOnSet(f, V) + SumFunctionOnSet(g, V)
  BY <1>2, <1>5
<1>7. \A x \in U : f[x] \in Nat /\ g[x] \in Nat /\ h[x] \in Nat
  BY <1>5
<1>8. /\ SumFunctionOnSet(f, U) = f[e] + SumFunctionOnSet(f, V)
      /\ SumFunctionOnSet(g, U) = g[e] + SumFunctionOnSet(g, V)
      /\ SumFunctionOnSet(h, U) = h[e] + SumFunctionOnSet(h, V)
  BY <1>4, <1>5, <1>7, SumRemove
<1>9. /\ SumFunctionOnSet(f, V) \in Nat /\ SumFunctionOnSet(g, V) \in Nat
      /\ f[e] \in Nat /\ g[e] \in Nat /\ h[e] = f[e] + g[e]
  BY <1>4, <1>5, <1>7, SumType
<1>10. SumFunctionOnSet(h, U) # SumFunctionOnSet(f, U) + SumFunctionOnSet(g, U)
  BY <1>2
<1>11. QED
  BY ONLY <1>6, <1>8, <1>9, <1>10

\* Counting is summing up ones.
LEMMA CountAsSum ==
  ASSUME NEW S, IsFiniteSet(S), NEW T, T \subseteq S, NEW f,
         \A x \in S : f[x] = IF x \in T THEN 1 ELSE 0
  PROVE  Cardinality(T) = SumFunctionOnSet(f, S)
<1> DEFINE c == [x \in T |-> {x}]
           g == [x \in T |-> Cardinality(c[x])]
<1>1. IsFiniteSet(T) /\ UNION {c[x] : x \in T} = T
  BY FS_Subset
<1>2. \A x \in T : IsFiniteSet(c[x]) /\ Cardinality(c[x]) = 1
  BY FS_Singleton
<1>3. \A x, y \in T : x # y => c[x] \cap c[y] = {}
  OBVIOUS
<1>4. \A x \in T : f[x] = g[x]
  BY <1>2
<1>5. Cardinality(UNION {c[x] : x \in T}) = SumFunctionOnSet(g, T)
  <2> HIDE DEF c
  <2>1. QED
    BY <1>1, <1>2, <1>3, CardUnion
<1> HIDE DEF g, c
<1>6. SumFunctionOnSet(f, T) = SumFunctionOnSet(g, T)
  BY <1>1, <1>4, SumEqual
<1>7. SumFunctionOnSet(f, T) = SumFunctionOnSet(f, S)
  BY SumRest
<1>8. QED
  BY <1>1, <1>5, <1>6, <1>7
=============================================================================
