--------------------------- MODULE Covoar_proofs ---------------------------
(***************************************************************************)
(* Proofs about Covoar for every set of symbols, every well-formed         *)
(* disassembly of every executable and every coverage file.                *)
(***************************************************************************)
EXTENDS Covoar, FiniteLemmas, SequenceTheorems

(***************************************************************************)
(* Arithmetic modulo Word.                                                 *)
(***************************************************************************)
LEMMA WrapType == ASSUME NEW x \in Int PROVE Wrap(x) \in Address
BY WordAssumption DEF Wrap, Address

\* An address is its own residue.
LEMMA WrapSame == ASSUME NEW x \in Address PROVE Wrap(x) = x
BY WordAssumption DEF Wrap, Address

(***************************************************************************)
(* The size of a nop is a number of bytes.                                 *)
(***************************************************************************)
LEMMA NopSizeType == ASSUME NEW cpu \in Cpus, NEW op PROVE NopSize(cpu, op) \in Nat
<1>1. SUFFICES ASSUME op \in DOMAIN Target[cpu].nops PROVE Target[cpu].nops[op] \in Nat
  BY DEF NopSize
<1>2. cpu \in {"arm", "i386", "lm32", "m68k", "powerpc", "sparc"}
  BY DEF Cpus, Target
<1>3. CASE cpu = "arm"
  <2>1. Target[cpu].nops = [nop |-> 4, byte |-> 1, short |-> 2, word |-> 4]
    BY <1>3 DEF Target, arm
  <2>2. QED
    BY <1>1, <2>1
<1>4. CASE cpu = "i386"
  <2>1. Target[cpu].nops = [nop |-> 1, xchg |-> 2, xor |-> 2, lea |-> 3]
    BY <1>4 DEF Target, i386
  <2>2. QED
    BY <1>1, <2>1
<1>5. CASE cpu = "lm32"
  <2>1. Target[cpu].nops = [nop |-> 4]
    BY <1>5 DEF Target, lm32
  <2>2. QED
    BY <1>1, <2>1
<1>6. CASE cpu = "m68k"
  <2>1. m68k.nops = [nop |-> 2, rts |-> 4]
    BY DEF m68k
  <2>2. Target[cpu] = m68k
    BY <1>6 DEF Target
  <2>3. QED
    BY <1>1, <2>1, <2>2
<1>7. CASE cpu = "powerpc"
  <2>1. powerpc.nops = [nop |-> 4]
    BY DEF powerpc
  <2>2. Target[cpu] = powerpc
    BY <1>7 DEF Target
  <2>3. QED
    BY <1>1, <2>1, <2>2
<1>8. CASE cpu = "sparc"
  <2>1. sparc.nops = [nop |-> 4, unknown |-> 4, rts |-> 4]
    BY DEF sparc
  <2>2. Target[cpu] = sparc
    BY <1>8 DEF Target
  <2>3. QED
    BY <1>1, <2>1, <2>2
<1>9. QED
  BY <1>2, <1>3, <1>4, <1>5, <1>6, <1>7, <1>8
-----------------------------------------------------------------------------
(***************************************************************************)
(* Coverage maps.  All ranges of a map that fits are as long as its Info.  *)
(***************************************************************************)
IsMap(m) ==
  m \in [ranges : {m.ranges}, size : {m.size}, start : {m.start}, branch : {m.branch},
         nop : {m.nop}, exec : {m.exec}, taken : {m.taken}, notTaken : {m.notTaken}]
Fits(m) == /\ IsMap(m) /\ MapOK(m)
           /\ \A i \in DOMAIN m.ranges : /\ m.ranges[i].low <= m.ranges[i].high
                                         /\ m.size = m.ranges[i].high - m.ranges[i].low + 1

\* The bounds of a range are addresses, and thereby numbers.
LEMMA RangeFacts ==
  ASSUME NEW m, MapOK(m), NEW i \in DOMAIN m.ranges
  PROVE  /\ i \in Nat /\ i >= 1 /\ i <= Len(m.ranges)
         /\ m.ranges[i].low \in Int /\ m.ranges[i].high \in Int
         /\ m.ranges[i].low \in Address /\ m.ranges[i].high \in Address
         /\ m.size \in Int /\ m.size \in Address
<1>1. m.ranges \in Seq([low : Address, high : Address]) /\ m.size \in Address
  BY DEF MapOK
<1>2. Len(m.ranges) \in Nat /\ DOMAIN m.ranges = 1 .. Len(m.ranges)
  BY <1>1, LenProperties
<1>3. m.ranges[i].low \in Address /\ m.ranges[i].high \in Address
  <2>1. m.ranges[i] \in [low : Address, high : Address]
    BY <1>1, <1>2, ElementOfSeq
  <2>2. QED
    BY <2>1
<1>4. Address \subseteq Int
  BY WordAssumption DEF Address
<1>5. m.ranges[i].low \in Int /\ m.ranges[i].high \in Int /\ m.size \in Int
  BY <1>1, <1>3, <1>4
<1>6. i \in Nat /\ i >= 1 /\ i <= Len(m.ranges)
  BY <1>2
<1>7. QED
  BY <1>1, <1>3, <1>5, <1>6

(***************************************************************************)
(* An address in the map has an offset, the distance to the start of the   *)
(* first range that holds it.                                              *)
(***************************************************************************)
LEMMA OffsetFacts ==
  ASSUME NEW m, MapOK(m), NEW x \in Int, InMap(m, x)
  PROVE  \E i \in DOMAIN m.ranges :
           /\ Holds(m.ranges[i], x) /\ Offset(m, x) = x - m.ranges[i].low
           /\ \A k \in 1 .. i - 1 : ~Holds(m.ranges[k], x)
<1> DEFINE H == {i \in DOMAIN m.ranges : Holds(m.ranges[i], x)}
<1>1. H # {} /\ H \subseteq Nat
  BY RangeFacts DEF InMap
<1>2. PICK i \in H : \A k \in H : i <= k
  <2> HIDE DEF H
  <2>1. QED
    BY <1>1, LeastNatural
<1>3. \A k \in 1 .. i - 1 : ~Holds(m.ranges[k], x)
  <2>1. SUFFICES ASSUME NEW k \in 1 .. i - 1, Holds(m.ranges[k], x) PROVE FALSE
    OBVIOUS
  <2>2. i \in Nat /\ i <= Len(m.ranges) /\ m.ranges \in Seq([low : Address, high : Address])
    BY RangeFacts DEF MapOK
  <2>3. k \in DOMAIN m.ranges
    BY <2>2
  <2>4. QED
    BY <1>2, <2>1, <2>2, <2>3
<1> DEFINE First(j) == Holds(m.ranges[j], x) /\ \A k \in 1 .. j - 1 : ~Holds(m.ranges[k], x)
<1> DEFINE c == CHOOSE j \in DOMAIN m.ranges : First(j)
<1>4. c \in DOMAIN m.ranges /\ First(c)
  <2>1. i \in DOMAIN m.ranges /\ First(i)
    BY <1>3
  <2> HIDE DEF First
  <2>2. QED
    BY <2>1
<1>5. Offset(m, x) = x - m.ranges[c].low
  BY DEF Offset
<1> HIDE DEF c
<1>6. QED
  BY <1>4, <1>5

\* In a map that fits, the offset of an address indexes Info.
LEMMA OffsetInBounds ==
  ASSUME NEW m, Fits(m), NEW x \in Int, InMap(m, x)
  PROVE  Offset(m, x) \in 0 .. m.size - 1
<1>1. MapOK(m)
  BY DEF Fits
<1>2. PICK i \in DOMAIN m.ranges : Holds(m.ranges[i], x) /\ Offset(m, x) = x - m.ranges[i].low
  BY <1>1, OffsetFacts
<1>3. m.ranges[i].low \in Int /\ m.ranges[i].high \in Int /\ m.size \in Int
  BY <1>1, RangeFacts
<1>4. QED
  BY <1>2, <1>3 DEF Fits, Holds

\* ... which is what InBounds asks for.
LEMMA FitsInBounds == ASSUME NEW m, Fits(m) PROVE InBounds(m)
<1>1. Address \subseteq Int
  BY WordAssumption DEF Address
<1>2. QED
  BY <1>1, OffsetInBounds DEF InBounds

\* So do the offsets of a set of addresses.
LEMMA OffsetsInBounds ==
  ASSUME NEW m, Fits(m), NEW X \in SUBSET Int
  PROVE  Offsets(m, X) \subseteq 0 .. m.size - 1
BY OffsetInBounds DEF Offsets

(***************************************************************************)
(* The setters keep a map a map.                                           *)
(***************************************************************************)
LEMMA NoMapFits == Fits(NoMap)
<1>1. NoMap.ranges = << >> /\ NoMap.size = 0
  BY DEF NoMap, MapOf
<1>2. MapOK(NoMap)
  BY WordAssumption DEF NoMap, MapOf, MapOK, Zeros, Address
<1>3. IsMap(NoMap)
  BY DEF NoMap, MapOf, IsMap
<1>4. QED
  BY <1>1, <1>2, <1>3 DEF Fits


\* Marking starts adds their offsets and leaves the rest of the map alone.
LEMMA StartsFit ==
  ASSUME NEW m, Fits(m), NEW X \in SUBSET Int
  PROVE  LET n == SetStarts(m, X)
         IN  /\ Fits(n) /\ n.ranges = m.ranges /\ n.size = m.size
             /\ n.exec = m.exec /\ n.taken = m.taken /\ n.notTaken = m.notTaken
             /\ n.start = m.start \cup Offsets(m, X)
<1> DEFINE n == SetStarts(m, X)
<1>1. Offsets(m, X) \subseteq 0 .. m.size - 1
  BY OffsetsInBounds
<1>2. /\ n.ranges = m.ranges /\ n.size = m.size /\ n.start = m.start \cup Offsets(m, X)
      /\ n.branch = m.branch /\ n.nop = m.nop
      /\ n.exec = m.exec /\ n.taken = m.taken /\ n.notTaken = m.notTaken
  BY DEF SetStarts, Fits, IsMap
<1>3. IsMap(n)
  BY DEF SetStarts, Fits, IsMap
<1> HIDE DEF n
<1>4. MapOK(n)
  BY <1>1, <1>2 DEF Fits, MapOK
<1>5. QED
  BY <1>2, <1>3, <1>4 DEF Fits, n

\* Flagging branches or nops leaves ranges, starts and counts alone.
LEMMA FlagsFit ==
  ASSUME NEW m, Fits(m), NEW X \in SUBSET Int
  PROVE  /\ Fits(SetBranches(m, X)) /\ Fits(SetNops(m, X))
         /\ \A n \in {SetBranches(m, X), SetNops(m, X)} :
              /\ n.ranges = m.ranges /\ n.size = m.size /\ n.start = m.start
              /\ n.exec = m.exec /\ n.taken = m.taken /\ n.notTaken = m.notTaken
<1>1. Offsets(m, X) \subseteq 0 .. m.size - 1
  BY OffsetsInBounds
<1> DEFINE b == SetBranches(m, X)
<1>2. /\ b.ranges = m.ranges /\ b.size = m.size /\ b.start = m.start
      /\ b.branch = m.branch \cup Offsets(m, X) /\ b.nop = m.nop
      /\ b.exec = m.exec /\ b.taken = m.taken /\ b.notTaken = m.notTaken
  BY DEF SetBranches, Fits, IsMap
<1>3. IsMap(b)
  BY DEF SetBranches, Fits, IsMap
<1> DEFINE n == SetNops(m, X)
<1>4. /\ n.ranges = m.ranges /\ n.size = m.size /\ n.start = m.start
      /\ n.branch = m.branch /\ n.nop = m.nop \cup Offsets(m, X)
      /\ n.exec = m.exec /\ n.taken = m.taken /\ n.notTaken = m.notTaken
  BY DEF SetNops, Fits, IsMap
<1>5. IsMap(n)
  BY DEF SetNops, Fits, IsMap
<1> HIDE DEF b, n
<1>6. MapOK(b) /\ MapOK(n)
  BY <1>1, <1>2, <1>4 DEF Fits, MapOK
<1>7. Fits(b) /\ Fits(n)
  BY <1>2, <1>3, <1>4, <1>5, <1>6 DEF Fits
<1>8. QED
  BY <1>2, <1>4, <1>7 DEF b, n

(***************************************************************************)
(* Raising the counts of a finite set of addresses leaves counts, none of  *)
(* them lower.                                                             *)
(***************************************************************************)
LEMMA HitsType ==
  ASSUME NEW m, NEW X, IsFiniteSet(X), NEW o
  PROVE  Hits(m, X, o) \in Nat
<1>1. IsFiniteSet({x \in X : InMap(m, x) /\ Offset(m, x) = o})
  BY FS_Subset
<1>2. QED
  BY <1>1, FS_CardinalityType DEF Hits

\* Each count is raised by the number of addresses that have its offset.
LEMMA RaisedFacts ==
  ASSUME NEW m, NEW X, IsFiniteSet(X), NEW S, NEW f \in [S -> Nat]
  PROVE  /\ Raised(m, f, X) \in [S -> Nat]
         /\ \A o \in S : Raised(m, f, X)[o] = f[o] + Hits(m, X, o)
         /\ \A o \in S : Raised(m, f, X)[o] >= f[o]
<1>1. \A o \in S : f[o] \in Nat /\ Hits(m, X, o) \in Nat
  BY HitsType
<1>2. Raised(m, f, X) = [o \in S |-> f[o] + Hits(m, X, o)]
  BY DEF Raised
<1>3. QED
  BY <1>1, <1>2

\* The data of the two maps differ in the counts only, which are not lower.
Grown(m, n) ==
  /\ Fits(n) /\ n.ranges = m.ranges /\ n.size = m.size /\ n.start = m.start
  /\ n.branch = m.branch /\ n.nop = m.nop
  /\ \A o \in 0 .. m.size - 1 : n.exec[o] >= m.exec[o]

\* Growing twice is growing,
LEMMA GrownTransitive ==
  ASSUME NEW m, NEW n, NEW k, Fits(m), Grown(m, n), Grown(n, k)
  PROVE  Grown(m, k)
<1>1. MapOK(m) /\ MapOK(n) /\ MapOK(k) /\ n.size = m.size /\ k.size = m.size
  BY DEF Grown, Fits
<1>2. ASSUME NEW o \in 0 .. m.size - 1 PROVE k.exec[o] >= m.exec[o]
  <2>1. m.exec[o] \in Nat /\ n.exec[o] \in Nat /\ k.exec[o] \in Nat
    BY <1>1 DEF MapOK
  <2>2. QED
    BY <1>1, <2>1 DEF Grown
<1>3. QED
  BY <1>1, <1>2 DEF Grown

\* ... and so is staying the same.
LEMMA GrownSelf == ASSUME NEW m, Fits(m) PROVE Grown(m, m)
<1>1. \A o \in 0 .. m.size - 1 : m.exec[o] \in Nat
  BY DEF Fits, MapOK
<1>2. QED
  BY <1>1 DEF Grown

\* setWasExecuted raises the execution counts and nothing else.
LEMMA ExecutedGrown ==
  ASSUME NEW m, Fits(m), NEW X, IsFiniteSet(X)
  PROVE  /\ Grown(m, SetExecuted(m, X))
         /\ SetExecuted(m, X).exec = Raised(m, m.exec, X)
<1> DEFINE n == SetExecuted(m, X)
<1>1. /\ n.ranges = m.ranges /\ n.size = m.size /\ n.start = m.start
      /\ n.branch = m.branch /\ n.nop = m.nop /\ n.exec = Raised(m, m.exec, X)
      /\ n.taken = m.taken /\ n.notTaken = m.notTaken
  BY DEF SetExecuted, Fits, IsMap
<1>2. IsMap(n)
  BY DEF SetExecuted, Fits, IsMap
<1> HIDE DEF n
<1>3. m.exec \in [0 .. m.size - 1 -> Nat]
  BY DEF Fits, MapOK
<1>4. /\ n.exec \in [0 .. m.size - 1 -> Nat]
      /\ \A o \in 0 .. m.size - 1 : n.exec[o] >= m.exec[o]
  <2>1. /\ Raised(m, m.exec, X) \in [0 .. m.size - 1 -> Nat]
        /\ \A o \in 0 .. m.size - 1 : Raised(m, m.exec, X)[o] >= m.exec[o]
    BY <1>3, RaisedFacts
  <2>2. QED
    BY <1>1, <2>1
<1>5. MapOK(n)
  BY <1>1, <1>4 DEF Fits, MapOK
<1>6. QED
  BY <1>1, <1>2, <1>4, <1>5 DEF Grown, Fits, n

\* A direction leaves the execution counts alone,
LEMMA DirectionGrown ==
  ASSUME NEW m, Fits(m), NEW x
  PROVE  /\ Grown(m, SetTaken(m, x)) /\ SetTaken(m, x).exec = m.exec
         /\ Grown(m, SetNotTaken(m, x)) /\ SetNotTaken(m, x).exec = m.exec
<1>1. IsFiniteSet({x})
  BY FS_Singleton
<1>2. m.taken \in [0 .. m.size - 1 -> Nat] /\ m.notTaken \in [0 .. m.size - 1 -> Nat]
  BY DEF Fits, MapOK
<1>3. \A o \in 0 .. m.size - 1 : m.exec[o] \in Nat
  BY DEF Fits, MapOK
<1> DEFINE t == SetTaken(m, x)
<1>4. /\ t.ranges = m.ranges /\ t.size = m.size /\ t.start = m.start
      /\ t.branch = m.branch /\ t.nop = m.nop /\ t.exec = m.exec
      /\ t.taken = Raised(m, m.taken, {x}) /\ t.notTaken = m.notTaken
  BY DEF SetTaken, Fits, IsMap
<1>5. IsMap(t)
  BY DEF SetTaken, Fits, IsMap
<1> DEFINE n == SetNotTaken(m, x)
<1>6. /\ n.ranges = m.ranges /\ n.size = m.size /\ n.start = m.start
      /\ n.branch = m.branch /\ n.nop = m.nop /\ n.exec = m.exec
      /\ n.notTaken = Raised(m, m.notTaken, {x}) /\ n.taken = m.taken
  BY DEF SetNotTaken, Fits, IsMap
<1>7. IsMap(n)
  BY DEF SetNotTaken, Fits, IsMap
<1> HIDE DEF t, n
<1>8. t.taken \in [0 .. m.size - 1 -> Nat] /\ n.notTaken \in [0 .. m.size - 1 -> Nat]
  <2>1. /\ Raised(m, m.taken, {x}) \in [0 .. m.size - 1 -> Nat]
        /\ Raised(m, m.notTaken, {x}) \in [0 .. m.size - 1 -> Nat]
    BY <1>1, <1>2, RaisedFacts
  <2>2. QED
    BY <1>4, <1>6, <2>1
<1>9. MapOK(t) /\ MapOK(n)
  BY <1>4, <1>6, <1>8 DEF Fits, MapOK
<1>10. Grown(m, t)
  BY <1>3, <1>4, <1>5, <1>9 DEF Grown, Fits
<1>11. Grown(m, n)
  BY <1>3, <1>6, <1>7, <1>9 DEF Grown, Fits
<1>12. QED
  BY <1>4, <1>6, <1>10, <1>11 DEF t, n

\* ... and so do several.
LEMMA DirectionsGrown ==
  ASSUME NEW m, Fits(m), NEW op, NEW x
  PROVE  Grown(m, Directions(m, op, x)) /\ Directions(m, op, x).exec = m.exec
<1> DEFINE t == IF "taken" \in op THEN SetTaken(m, x) ELSE m
<1>1. Grown(m, t) /\ t.exec = m.exec
  BY DirectionGrown, GrownSelf
<1> HIDE DEF t
<1>2. Fits(t)
  BY <1>1 DEF Grown
<1>3. /\ Grown(t, SetNotTaken(t, x)) /\ SetNotTaken(t, x).exec = t.exec /\ Grown(t, t)
  BY <1>2, DirectionGrown, GrownSelf
<1>4. Directions(m, op, x) \in {t, SetNotTaken(t, x)}
  BY DEF Directions, t
<1>5. QED
  BY <1>1, <1>3, <1>4, GrownTransitive

\* Whatever the format, an entry only makes a map grow.
LEMMA MarkedGrown ==
  ASSUME NEW m, Fits(m), NEW x \in EntryType, in.format \in {"QEMU", "TSIM", "Skyeye", "RTEMS"},
         CoverUnit \in Nat
  PROVE  Grown(m, Marked(m, x))
<1>1. x.pc \in Int /\ x.size \in Int
  BY WordAssumption DEF EntryType, Address
<1>2. /\ IsFiniteSet(x.pc .. x.pc + x.size - 1) /\ IsFiniteSet({x.pc})
      /\ IsFiniteSet(x.pc .. x.pc + CoverUnit - 1)
  <2>1. x.pc + x.size - 1 \in Int /\ x.pc + CoverUnit - 1 \in Int
    BY <1>1
  <2>2. QED
    BY <1>1, <2>1, FS_Interval, FS_Singleton
<1>3. Grown(m, m)
  BY GrownSelf
<1>4. CASE in.format = "QEMU"
  <2> DEFINE last == x.pc + x.size - 1
  <2> DEFINE marked == IF "block" \in x.op THEN SetExecuted(m, x.pc .. last) ELSE m
  <2>1. Grown(m, marked)
    BY <1>2, <1>3, ExecutedGrown
  <2> HIDE DEF marked, last
  <2>2. Fits(marked)
    BY <2>1 DEF Grown
  <2>3. \A op, y : Grown(m, Directions(marked, op, y))
    BY <2>1, <2>2, DirectionsGrown, GrownTransitive
  <2>4. Marked(m, x) = MarkQEMU(m, x)
    BY <1>4 DEF Marked
  <2>5. \/ Marked(m, x) = marked
        \/ \E op, y : Marked(m, x) = Directions(marked, op, y)
    BY <2>4 DEF MarkQEMU, marked, last
  <2>6. QED
    BY <2>1, <2>3, <2>5
<1>5. CASE in.format = "TSIM"
  <2> DEFINE marked == SetExecuted(m, x.pc .. x.pc + CoverUnit - 1)
  <2>1. Grown(m, marked)
    BY <1>2, ExecutedGrown
  <2>2. Fits(marked)
    BY <2>1 DEF Grown
  <2> HIDE DEF marked
  <2>3. Grown(m, Directions(marked, x.op, x.pc))
    BY <2>1, <2>2, DirectionsGrown, GrownTransitive
  <2>4. Marked(m, x) \in {m, Directions(marked, x.op, x.pc)}
    BY <1>5 DEF Marked, MarkTSIM, marked
  <2>5. QED
    BY <1>3, <2>3, <2>4
<1>6. CASE in.format = "Skyeye"
  <2>1. Marked(m, x) \in {m, SetExecuted(m, x.pc .. x.pc + CoverUnit - 1)}
    BY <1>6 DEF Marked, MarkSkyeye
  <2>2. QED
    BY <1>2, <1>3, <2>1, ExecutedGrown
<1>7. CASE in.format = "RTEMS"
  <2>1. Marked(m, x) \in {m, SetExecuted(m, {x.pc})}
    BY <1>7 DEF Marked, MarkRTEMS
  <2>2. QED
    BY <1>2, <1>3, <2>1, ExecutedGrown
<1>8. QED
  BY <1>4, <1>5, <1>6, <1>7

(***************************************************************************)
(* A new map, and a map with one more range.                               *)
(***************************************************************************)
LEMMA NewMapFits ==
  ASSUME NEW lo \in Address, NEW hi \in Address, lo <= hi, hi - lo + 1 < Word
  PROVE  LET m == NewMap(lo, hi)
         IN  /\ Fits(m) /\ m.ranges = << [low |-> lo, high |-> hi] >>
             /\ m.size = hi - lo + 1 /\ m.size \in Nat \ {0}
             /\ \A o \in 0 .. m.size - 1 : m.exec[o] = 0 /\ m.taken[o] = 0 /\ m.notTaken[o] = 0
             /\ m.branch = {} /\ m.nop = {}
<1>1. lo \in Int /\ hi \in Int
  BY WordAssumption DEF Address
<1>2. hi - lo + 1 \in Address /\ hi - lo + 1 \in Nat \ {0}
  BY <1>1, WordAssumption DEF Address
<1>3. Wrap(hi - lo + 1) = hi - lo + 1
  BY <1>2, WrapSame
<1> DEFINE n == hi - lo + 1
<1> DEFINE m == NewMap(lo, hi)
<1>4. m = MapOf(<< [low |-> lo, high |-> hi] >>, n)
  BY <1>3 DEF NewMap
<1> HIDE DEF m, n
<1>5. /\ m.ranges = << [low |-> lo, high |-> hi] >> /\ m.size = n
      /\ m.start = {} /\ m.branch = {} /\ m.nop = {}
      /\ m.exec = Zeros(n) /\ m.taken = Zeros(n) /\ m.notTaken = Zeros(n)
  BY <1>4 DEF MapOf
<1>6. IsMap(m)
  BY <1>4 DEF MapOf, IsMap
<1>7. m.ranges \in Seq([low : Address, high : Address])
  BY <1>5
<1>8. MapOK(m)
  <2>1. Zeros(n) \in [0 .. n - 1 -> Nat]
    BY DEF Zeros
  <2>2. n \in Address
    BY <1>2 DEF n
  <2>3. QED
    BY <1>5, <1>7, <2>1, <2>2 DEF MapOK
<1>9. ASSUME NEW i \in DOMAIN m.ranges
      PROVE  /\ m.ranges[i].low <= m.ranges[i].high
             /\ m.size = m.ranges[i].high - m.ranges[i].low + 1
  <2>1. m.ranges[i] = [low |-> lo, high |-> hi]
    BY <1>5
  <2>2. QED
    BY <1>5, <2>1 DEF n
<1>10. Fits(m)
  BY <1>6, <1>8, <1>9 DEF Fits
<1>11. \A o \in 0 .. n - 1 : m.exec[o] = 0 /\ m.taken[o] = 0 /\ m.notTaken[o] = 0
  BY <1>5 DEF Zeros
<1>12. m.size \in Nat \ {0} /\ m.size = hi - lo + 1
  BY <1>2, <1>5 DEF n
<1>13. QED
  BY <1>5, <1>10, <1>11, <1>12 DEF m

\* Another range of the same length fits.
LEMMA AddFits ==
  ASSUME NEW m, Fits(m), NEW lo \in Address, NEW hi \in Address, lo <= hi,
         m.size = hi - lo + 1
  PROVE  LET n == Add(m, lo, hi)
         IN  /\ Fits(n) /\ n.ranges = Append(m.ranges, [low |-> lo, high |-> hi])
             /\ n.size = m.size /\ n.start = m.start
             /\ n.exec = m.exec /\ n.taken = m.taken /\ n.notTaken = m.notTaken
<1> DEFINE r == [low |-> lo, high |-> hi]
<1> DEFINE n == Add(m, lo, hi)
<1>1. /\ n.ranges = Append(m.ranges, r) /\ n.size = m.size /\ n.start = m.start
      /\ n.branch = m.branch /\ n.nop = m.nop
      /\ n.exec = m.exec /\ n.taken = m.taken /\ n.notTaken = m.notTaken
  BY DEF Add, Fits, IsMap
<1>2. IsMap(n)
  BY DEF Add, Fits, IsMap
<1> DEFINE RT == [low : Address, high : Address]
<1>3. r \in RT /\ r.low = lo /\ r.high = hi
  OBVIOUS
<1>4. m.ranges \in Seq(RT)
  BY DEF Fits, MapOK
<1> HIDE DEF n, r, RT
<1>5. /\ n.ranges \in Seq(RT) /\ Len(n.ranges) = Len(m.ranges) + 1
      /\ \A i \in 1 .. Len(m.ranges) : n.ranges[i] = m.ranges[i]
      /\ n.ranges[Len(m.ranges) + 1] = r
  BY <1>1, <1>3, <1>4, AppendProperties
<1>6. MapOK(n)
  BY <1>1, <1>5 DEF Fits, MapOK, RT
<1>7. ASSUME NEW i \in DOMAIN n.ranges
      PROVE  /\ n.ranges[i].low <= n.ranges[i].high
             /\ n.size = n.ranges[i].high - n.ranges[i].low + 1
  <2>1. Len(m.ranges) \in Nat /\ DOMAIN m.ranges = 1 .. Len(m.ranges)
    BY <1>4, LenProperties
  <2>2. i \in 1 .. Len(m.ranges) + 1
    BY <1>5, LenProperties
  <2>3. CASE i \in 1 .. Len(m.ranges)
    BY <1>1, <1>5, <2>1, <2>3 DEF Fits
  <2>4. CASE i = Len(m.ranges) + 1
    BY <1>1, <1>3, <1>5, <2>4
  <2>5. QED
    BY <2>1, <2>2, <2>3, <2>4
<1>8. QED
  BY <1>1, <1>2, <1>6, <1>7 DEF Fits, n, r

(***************************************************************************)
(* Merging.  A unified map has one range, from 0; an address below the     *)
(* size of a map, counted from its first low address, has that offset.     *)
(***************************************************************************)
Unified(d) == d.ranges = << [low |-> 0, high |-> d.size - 1] >>

\* The offsets of a map are those of the addresses in its first range.
LEMMA FirstRange ==
  ASSUME NEW m, Fits(m), Exists(m), NEW o \in 0 .. m.size - 1
  PROVE  /\ m.ranges[1].low + o \in Int
         /\ InMap(m, m.ranges[1].low + o) /\ Offset(m, m.ranges[1].low + o) = o
<1>1. 1 \in DOMAIN m.ranges /\ MapOK(m)
  <2>1. m.ranges \in Seq([low : Address, high : Address]) /\ m.ranges # << >>
    BY DEF Fits, MapOK, Exists
  <2>2. QED
    BY <2>1, EmptySeq, LenProperties DEF Fits
<1>2. m.ranges[1].low \in Int /\ m.ranges[1].high \in Int /\ m.size \in Int
  BY <1>1, RangeFacts
<1>3. m.size = m.ranges[1].high - m.ranges[1].low + 1
  BY <1>1 DEF Fits
<1> DEFINE x == m.ranges[1].low + o
<1>4. x \in Int /\ Holds(m.ranges[1], x)
  BY <1>2, <1>3 DEF Holds
<1>5. InMap(m, x)
  BY <1>1, <1>4 DEF InMap
<1>6. PICK i \in DOMAIN m.ranges :
        /\ Holds(m.ranges[i], x) /\ Offset(m, x) = x - m.ranges[i].low
        /\ \A k \in 1 .. i - 1 : ~Holds(m.ranges[k], x)
  BY <1>1, <1>4, <1>5, OffsetFacts
<1>7. i = 1
  <2>1. i \in Nat /\ i >= 1
    BY <1>1, RangeFacts
  <2>2. QED
    BY <1>4, <1>6, <2>1
<1>8. QED
  BY <1>2, <1>4, <1>5, <1>6, <1>7

\* What a merge reads of the source is a count.
LEMMA ReadAtFacts ==
  ASSUME NEW m, Fits(m), NEW f \in [0 .. m.size - 1 -> Nat], NEW x \in Int
  PROVE  ReadAt(m, f, x) \in Nat
BY OffsetInBounds DEF ReadAt

\* A merge adds the starts and the counts of the source, byte by byte, and
\* leaves everything else of the destination alone.
LEMMA MergeFits ==
  ASSUME NEW d, Fits(d), Unified(d), NEW m, Fits(m), Exists(m), NEW n \in Nat
  PROVE  LET u == Merge(d, m, n)
         IN  /\ Fits(u) /\ u.ranges = d.ranges /\ u.size = d.size
             /\ u.branch = d.branch /\ u.nop = d.nop
             /\ u.start = d.start \cup
                  {o \in 0 .. n - 1 : InMap(d, o) /\ IsStart(m, m.ranges[1].low + o)}
             /\ \A o \in 0 .. d.size - 1 :
                  u.exec[o] = d.exec[o] +
                    IF o < n THEN ReadAt(m, m.exec, m.ranges[1].low + o) ELSE 0
<1> DEFINE u == Merge(d, m, n)
<1> DEFINE base == m.ranges[1].low
<1> DEFINE Sum(f, g) == [o \in DOMAIN f |-> f[o] + IF o < n THEN ReadAt(m, g, base + o) ELSE 0]
<1> DEFINE new == {o \in 0 .. n - 1 : InMap(d, o) /\ IsStart(m, base + o)}
<1>1. /\ u.ranges = d.ranges /\ u.size = d.size /\ u.branch = d.branch /\ u.nop = d.nop
      /\ u.start = d.start \cup new /\ u.exec = Sum(d.exec, m.exec)
      /\ u.taken = Sum(d.taken, m.taken) /\ u.notTaken = Sum(d.notTaken, m.notTaken)
  BY DEF Merge, Fits, IsMap
<1>2. IsMap(u)
  BY DEF Merge, Fits, IsMap
<1>3. base \in Int
  <2>1. MapOK(m) /\ m.ranges # << >> /\ m.ranges \in Seq([low : Address, high : Address])
    BY DEF Fits, MapOK, Exists
  <2>2. 1 \in DOMAIN m.ranges
    BY <2>1, EmptySeq, LenProperties
  <2>3. QED
    BY <2>1, <2>2, RangeFacts
<1>4. d.size \in Int
  BY WordAssumption DEF Fits, MapOK, Address
<1>5. ASSUME NEW f \in [0 .. d.size - 1 -> Nat], NEW g \in [0 .. m.size - 1 -> Nat]
      PROVE  /\ Sum(f, g) \in [0 .. d.size - 1 -> Nat]
             /\ \A o \in 0 .. d.size - 1 :
                  Sum(f, g)[o] = f[o] + IF o < n THEN ReadAt(m, g, base + o) ELSE 0
  <2> DEFINE S == 0 .. d.size - 1
  <2>1. \A o \in S : ReadAt(m, g, base + o) \in Nat
    <3>1. ASSUME NEW o \in S PROVE base + o \in Int
      BY <1>3
    <3> HIDE DEF base
    <3>2. QED
      BY <3>1, ReadAtFacts
  <2>2. Sum(f, g) = [o \in S |-> f[o] + IF o < n THEN ReadAt(m, g, base + o) ELSE 0]
    OBVIOUS
  <2> HIDE DEF S, Sum, base
  <2>3. Sum(f, g) \in [S -> Nat]
    BY <2>1, <2>2 DEF S
  <2>4. QED
    BY <2>2, <2>3 DEF S
<1>6. new \subseteq 0 .. d.size - 1
  <2>1. ASSUME NEW o \in 0 .. n - 1, InMap(d, o) PROVE o <= d.size - 1
    <3>1. PICK i \in DOMAIN d.ranges : Holds(d.ranges[i], o)
      BY <2>1 DEF InMap
    <3>2. d.ranges[i] = [low |-> 0, high |-> d.size - 1]
      BY DEF Unified
    <3>3. QED
      BY <3>1, <3>2 DEF Holds
  <2>2. QED
    BY <1>4, <2>1
<1>7. /\ d.exec \in [0 .. d.size - 1 -> Nat] /\ m.exec \in [0 .. m.size - 1 -> Nat]
      /\ d.taken \in [0 .. d.size - 1 -> Nat] /\ m.taken \in [0 .. m.size - 1 -> Nat]
      /\ d.notTaken \in [0 .. d.size - 1 -> Nat] /\ m.notTaken \in [0 .. m.size - 1 -> Nat]
  BY DEF Fits, MapOK
<1> HIDE DEF u, new, base, Sum
<1>8. MapOK(u)
  <2>1. /\ u.exec \in [0 .. u.size - 1 -> Nat] /\ u.taken \in [0 .. u.size - 1 -> Nat]
        /\ u.notTaken \in [0 .. u.size - 1 -> Nat]
    <3>1. /\ Sum(d.exec, m.exec) \in [0 .. d.size - 1 -> Nat]
          /\ Sum(d.taken, m.taken) \in [0 .. d.size - 1 -> Nat]
          /\ Sum(d.notTaken, m.notTaken) \in [0 .. d.size - 1 -> Nat]
      BY <1>5, <1>7
    <3>2. QED
      BY <1>1, <3>1
  <2>2. u.start \subseteq 0 .. u.size - 1
    BY <1>1, <1>6 DEF Fits, MapOK
  <2>3. QED
    BY <1>1, <2>1, <2>2 DEF Fits, MapOK
<1>9. Fits(u)
  BY <1>1, <1>2, <1>8 DEF Fits
<1>10. \A o \in 0 .. d.size - 1 :
         u.exec[o] = d.exec[o] + IF o < n THEN ReadAt(m, m.exec, base + o) ELSE 0
  BY <1>1, <1>5, <1>7
<1>11. QED
  BY <1>1, <1>9, <1>10 DEF u, new, base

(***************************************************************************)
(* Maps of one size are merged byte by byte.                               *)
(***************************************************************************)
LEMMA MergeSame ==
  ASSUME NEW d, Fits(d), Unified(d), NEW m, Fits(m), Exists(m), m.size = d.size
  PROVE  \A o \in 0 .. d.size - 1 : Merge(d, m, d.size).exec[o] = d.exec[o] + m.exec[o]
<1>1. d.size \in Nat
  BY WordAssumption DEF Fits, MapOK, Address
<1>2. ASSUME NEW o \in 0 .. d.size - 1
      PROVE  ReadAt(m, m.exec, m.ranges[1].low + o) = m.exec[o]
  BY FirstRange DEF ReadAt
<1>3. QED
  BY <1>1, <1>2, MergeFits
-----------------------------------------------------------------------------
(***************************************************************************)
(* The inductive invariant of loading.                                     *)
(***************************************************************************)
At(k) == in.loadAddress[exe] + in.dumps[exe][k].offset
Rest  == line .. Len(in.dumps[exe])

\* The functions have the domains they are declared with.
Domains ==
  /\ DOMAIN contents = Executables /\ DOMAIN info = Executables /\ DOMAIN maps = Executables
  /\ \A e \in Executables : DOMAIN info[e] = Desired /\ DOMAIN maps[e] = Desired
  /\ DOMAIN unified = Desired
  /\ saved \in [Desired -> [instructions : SUBSET LineType, base : Address]]

Position == phase = "load" => line <= Len(in.dumps[exe]) + 1

\* The instructions kept for the current symbol lie between its label and the
\* lines not read yet, in order.
Sorted ==
  /\ \A j \in DOMAIN lines : IsInsn(lines[j]) => low <= lines[j].offset
  /\ \A i, j \in DOMAIN lines : i < j /\ IsInsn(lines[i]) /\ IsInsn(lines[j]) =>
       lines[i].offset + Room(in.cpu, lines[i]) <= lines[j].offset
Before ==
  /\ \A j \in DOMAIN lines, k \in Rest : IsInsn(lines[j]) /\ Placed(in.dumps[exe][k]) =>
       lines[j].offset + Room(in.cpu, lines[j]) <= At(k)
  /\ \A k \in Rest : Placed(in.dumps[exe][k]) =>
       low <= At(k) /\ (in.dumps[exe][k].kind = "label" => low < At(k))

\* There is an instruction other than a nop in the current symbol, or comes;
\* and at the end of the file it is the last one.
RealAhead ==
  \/ \E j \in DOMAIN lines : Real(in.cpu, lines[j])
  \/ \E j \in Rest : /\ Real(in.cpu, in.dumps[exe][j])
                     /\ \A i \in line .. j : in.dumps[exe][i].kind # "label"
RealLast ==
  \/ \E k \in Rest : Placed(in.dumps[exe][k])
  \/ \E c \in DOMAIN lines :
       /\ Real(in.cpu, lines[c])
       /\ lines[c].offset = in.loadAddress[exe] + offset /\ lines[c].offset < Word - 1
       /\ \A j \in DOMAIN lines : j > c => ~IsInsn(lines[j])

Collected ==
  phase = "load" /\ current # NoSymbol => Sorted /\ Before /\ RealAhead /\ RealLast

\* The symbol table holds ranges one behind the other, all of them before the
\* symbols still to come.
Table ==
  \A e \in Executables :
    /\ contents[e] \subseteq [low : Address, high : Address, symbol : Desired]
    /\ \A t \in contents[e] : t.low <= t.high
    /\ \A t, u \in contents[e] : t = u \/ t.high < u.low \/ u.high < t.low
Behind ==
  phase = "load" =>
    /\ \A t \in contents[exe] :
         /\ current # NoSymbol => t.high < low
         /\ \A k \in Rest : in.dumps[exe][k].kind = "label" => t.high < At(k)
    /\ \A e \in Executables : e > exe => contents[e] = {}

\* It has an entry for each range of a map, and for nothing else.
Tied ==
  \A e \in Executables, s \in Desired :
    /\ \A i \in DOMAIN maps[e][s].ranges :
         [low |-> maps[e][s].ranges[i].low, high |-> maps[e][s].ranges[i].high,
          symbol |-> s] \in contents[e]
    /\ \A t \in contents[e] : t.symbol = s =>
         \E i \in DOMAIN maps[e][s].ranges :
           maps[e][s].ranges[i].low = t.low /\ maps[e][s].ranges[i].high = t.high

\* All ranges of a symbol in one executable have the length under which
\* addSymbol remembers the first.
MapsFit ==
  \A e \in Executables, s \in Desired :
    /\ Fits(maps[e][s]) /\ info[e][s] \in Seq(Address)
    /\ IF Exists(maps[e][s])
         THEN info[e][s] # << >> /\ info[e][s][1] = maps[e][s].size
         ELSE info[e][s] = << >> /\ maps[e][s].size = 0
UnifiedFit ==
  \A s \in Desired :
    /\ Fits(unified[s])
    /\ Exists(unified[s]) => /\ Unified(unified[s])
                             /\ unified[s].size >= 1 /\ unified[s].size <= sizeInBytes[s]

\* A symbol with a map in some executable has a unified map, which is as long
\* as that of one executable; none is longer than the symbol.
Paired ==
  \A s \in Desired :
    /\ \A e \in Executables : Exists(maps[e][s]) =>
         Exists(unified[s]) /\ maps[e][s].size <= sizeInBytes[s]
    /\ Exists(unified[s]) =>
         \E e \in Executables : Exists(maps[e][s]) /\ maps[e][s].size = unified[s].size

\* Nothing is counted before the first entry is read, and nothing in an
\* executable before its coverage file is open.
Clear(m) == \A o \in 0 .. m.size - 1 : m.exec[o] = 0
Fresh ==
  /\ log \in Seq([exe : Executables, entry : Entries])
  /\ phase = "load" => file = 1 /\ log = << >>
  /\ log = << >> =>
       /\ \A s \in Desired : Clear(unified[s])
       /\ \A e \in Executables, s \in Desired : Clear(maps[e][s])
  /\ phase = "read" /\ ~in.single =>
       \A e \in Executables, s \in Desired : e > file => Clear(maps[e][s])

CovoarInv == /\ LoadOK /\ Domains /\ Position /\ Collected /\ Table /\ Behind /\ Tied
             /\ MapsFit /\ UnifiedFit /\ Paired /\ Fresh
SoundInv  == WellFormed(in) => CovoarInv
-----------------------------------------------------------------------------
(***************************************************************************)
(* What the assumption on the inputs says of the input at hand.            *)
(***************************************************************************)
LEMMA InputFacts ==
  ASSUME in \in Inputs
  PROVE  /\ in.dumps \in Seq(Seq(LineType)) /\ in.loadAddress \in Seq(Address)
         /\ in.cpu \in Cpus /\ in.format \in {"QEMU", "TSIM", "Skyeye", "RTEMS"}
         /\ in.single \in BOOLEAN /\ in.files \in Nat \ {0}
         /\ Len(in.dumps) \in Nat \ {0} /\ Len(in.dumps) = Len(in.loadAddress)
         /\ ~in.single => Len(in.dumps) = in.files
         /\ Executables \subseteq Nat /\ 1 \in Executables
         /\ DOMAIN in.dumps = Executables
         /\ \A e \in Executables : /\ in.dumps[e] \in Seq(LineType)
                                   /\ in.loadAddress[e] \in Address
<1>1. /\ in \in InputType /\ in.files > 0 /\ Len(in.dumps) = Len(in.loadAddress)
      /\ Len(in.dumps) = IF in.single THEN 1 ELSE in.files
  BY InputAssumption
<1>2. /\ in.dumps \in Seq(Seq(LineType)) /\ in.loadAddress \in Seq(Address)
      /\ in.cpu \in Cpus /\ in.format \in {"QEMU", "TSIM", "Skyeye", "RTEMS"}
      /\ in.single \in BOOLEAN /\ in.files \in Nat
  BY <1>1 DEF InputType
<1>3. Len(in.dumps) \in Nat \ {0}
  BY <1>1, <1>2
<1>4. DOMAIN in.dumps = Executables
  BY <1>2, LenProperties DEF Executables
<1>5. ASSUME NEW e \in Executables
      PROVE  in.dumps[e] \in Seq(LineType) /\ in.loadAddress[e] \in Address
  BY <1>1, <1>2, <1>5, ElementOfSeq DEF Executables
<1>6. Executables \subseteq Nat /\ 1 \in Executables
  BY <1>3 DEF Executables
<1>7. QED
  BY <1>1, <1>2, <1>3, <1>4, <1>5, <1>6

\* Only text has no address.
LEMMA LineFacts ==
  ASSUME NEW l \in LineType
  PROVE  /\ l.kind \in {"label", "insn", "text"}
         /\ Placed(l) => l.offset \in Address
         /\ Placed(l) <=> l.kind \in {"label", "insn"}
BY DEF LineType, Placed

\* An instruction takes at least one byte.
LEMMA RoomType ==
  ASSUME NEW cpu \in Cpus, NEW l
  PROVE  /\ Room(cpu, l) \in Nat
         /\ l.kind = "insn" => Room(cpu, l) >= 1 /\ Room(cpu, l) >= NopSize(cpu, l.op)
         /\ Real(cpu, l) => Room(cpu, l) = 1
<1>1. NopSize(cpu, l.op) \in Nat
  BY NopSizeType
<1>2. QED
  BY <1>1 DEF Room, Real

(***************************************************************************)
(* Nops that fit between two addresses, one behind the other, do not take  *)
(* more bytes than there are.                                              *)
(***************************************************************************)
LEMMA NopsFit ==
  ASSUME NEW S, IsFiniteSet(S), S \subseteq Nat, NEW f, NEW off, NEW E \in Int,
         \A i \in S : f[i] \in Nat /\ off[i] \in Int /\ off[i] + f[i] <= E,
         \A i, j \in S : i < j => off[i] + f[i] <= off[j],
         NEW B \in Int, B <= E, \A i \in S : B <= off[i]
  PROVE  SumFunctionOnSet(f, S) \in Nat /\ SumFunctionOnSet(f, S) <= E - B
<1> DEFINE Sum(T) == SumFunctionOnSet(f, T)
<1> DEFINE W == {T \in SUBSET S :
                   \E b \in Int : b <= E /\ (\A i \in T : b <= off[i]) /\ ~(Sum(T) <= E - b)}
<1>1. Sum(S) \in Nat
  BY SumType
<1>2. SUFFICES ASSUME W # {} PROVE FALSE
  BY <1>1
<1>3. PICK T \in W : \A y \in W : y \subseteq T => y = T
  <2>1. W \subseteq SUBSET S
    OBVIOUS
  <2> HIDE DEF W
  <2>2. IsFiniteSet(S) /\ W # {}
    BY <1>2
  <2>3. \E x \in W : \A y \in W : y \subseteq x => y = x
    BY ONLY <2>1, <2>2, SmallestSubset
  <2>4. QED
    BY <2>3
<1>4. PICK b \in Int : b <= E /\ (\A i \in T : b <= off[i]) /\ ~(Sum(T) <= E - b)
  OBVIOUS
<1>5. T \subseteq S /\ T \subseteq Nat /\ IsFiniteSet(T)
  BY FS_Subset
<1>6. T # {}
  <2>1. ASSUME T = {} PROVE Sum(T) = 0
    BY <2>1, SumEmpty
  <2> HIDE DEF Sum, W
  <2>2. QED
    BY <1>4, <2>1
<1>7. PICK i \in T : \A j \in T : i <= j
  BY <1>5, <1>6, LeastNatural
<1> DEFINE U == T \ {i}
<1> DEFINE c == off[i] + f[i]
<1>8. c \in Int /\ c <= E /\ (\A j \in U : c <= off[j])
  <2>1. \A j \in U : i < j
    BY <1>5, <1>7
  <2>2. QED
    BY <1>5, <2>1
<1>9. Sum(U) <= E - c
  <2>1. U \in SUBSET S /\ U \notin W
    BY <1>3, <1>5
  <2> HIDE DEF Sum, U, c
  <2>2. QED
    BY <1>8, <2>1
<1>10. Sum(T) = f[i] + Sum(U)
  BY <1>5, SumRemove
<1>11. Sum(U) \in Nat /\ Sum(T) \in Nat
  <2>1. IsFiniteSet(U) /\ U \subseteq S
    BY <1>5, FS_Subset
  <2>2. QED
    BY <1>5, <2>1, SumType
<1> HIDE DEF Sum, U, W
<1>12. QED
  BY <1>4, <1>5, <1>9, <1>10, <1>11

(***************************************************************************)
(* Taking the trailing nops off leaves every other instruction of the      *)
(* symbol, so the high address is not below the low one.                   *)
(***************************************************************************)
LEMMA HighAddress ==
  ASSUME in.cpu \in Cpus, lines \in Seq(LineType), Sorted, low \in Int, NEW E \in Int,
         \A j \in DOMAIN lines : IsInsn(lines[j]) => lines[j].offset + Room(in.cpu, lines[j]) <= E,
         \E j \in DOMAIN lines : Real(in.cpu, lines[j])
  PROVE  /\ NopBytes(lines) \in Nat /\ low <= E - 1 - NopBytes(lines)
         /\ \A j \in DOMAIN lines : Real(in.cpu, lines[j]) =>
              lines[j].offset <= E - 1 - NopBytes(lines)
<1> DEFINE T == Trailing(lines)
<1> DEFINE f == [i \in T |-> NopSize(in.cpu, lines[i].op)]
<1> DEFINE off == [i \in T |-> lines[i].offset]
<1>1. /\ DOMAIN lines \subseteq Nat /\ DOMAIN lines = 1 .. Len(lines) /\ Len(lines) \in Nat
      /\ IsFiniteSet(DOMAIN lines)
  <2>1. Len(lines) \in Nat /\ DOMAIN lines = 1 .. Len(lines)
    BY LenProperties
  <2>2. IsFiniteSet(1 .. Len(lines))
    <3>1. Len(lines) \in Int /\ 1 \in Int
      BY <2>1
    <3>2. QED
      BY ONLY <3>1, FS_Interval
  <2>3. QED
    BY <2>1, <2>2
<1>2. \A j \in DOMAIN lines : IsInsn(lines[j]) => lines[j].offset \in Int
  <2>1. \A j \in DOMAIN lines : lines[j] \in LineType
    BY <1>1, ElementOfSeq
  <2>2. \A j \in DOMAIN lines : IsInsn(lines[j]) => lines[j].offset \in Address
    BY <2>1, LineFacts DEF IsInsn
  <2>3. QED
    BY <2>2, WordAssumption DEF Address
<1>3. T \subseteq DOMAIN lines /\ (\A i \in T : IsNop(lines[i]) /\ IsInsn(lines[i]))
  <2>1. \A i \in T : IsNop(lines[i])
    BY <1>1 DEF Trailing
  <2>2. QED
    BY <2>1 DEF Trailing, IsNop, IsInsn
<1>4. IsFiniteSet(T) /\ T \subseteq Nat
  BY <1>1, <1>3, FS_Subset
<1>5. \A i \in T : /\ f[i] \in Nat /\ off[i] \in Int /\ off[i] = lines[i].offset
                   /\ f[i] <= Room(in.cpu, lines[i]) /\ Room(in.cpu, lines[i]) \in Nat
  BY <1>2, <1>3, RoomType, NopSizeType DEF IsInsn
<1>6. \A i \in T : off[i] + f[i] <= E
  BY <1>3, <1>5
<1>7. \A i, j \in T : i < j => off[i] + f[i] <= off[j]
  BY <1>3, <1>5 DEF Sorted
<1>8. NopBytes(lines) = SumFunctionOnSet(f, T)
  BY DEF NopBytes, SumFunction
<1>9. ASSUME NEW c \in DOMAIN lines, Real(in.cpu, lines[c])
      PROVE  NopBytes(lines) \in Nat /\ lines[c].offset <= E - 1 - NopBytes(lines)
  <2>1. IsInsn(lines[c]) /\ ~IsNop(lines[c]) /\ Room(in.cpu, lines[c]) = 1
    BY <1>9, RoomType DEF Real, IsInsn, IsNop
  <2>2. \A i \in T : c < i
    <3>1. SUFFICES ASSUME NEW i \in T, ~(c < i) PROVE FALSE
      OBVIOUS
    <3>2. i \in Nat /\ c \in Nat /\ i <= c
      BY <1>1, <1>3, <3>1
    <3>3. PICK last \in i .. Len(lines) :
            /\ \A j \in last + 1 .. Len(lines) : ~IsInsn(lines[j])
            /\ \A j \in i .. last : IsNop(lines[j])
      BY DEF Trailing
    <3>4. c \in i .. last \/ c \in last + 1 .. Len(lines)
      BY <1>1, <3>2, <3>3
    <3>5. QED
      BY <2>1, <3>3, <3>4
  <2> DEFINE B == lines[c].offset + 1
  <2>3. B \in Int /\ B <= E
    BY <1>2, <2>1
  <2>4. \A i \in T : B <= off[i]
    BY <1>3, <1>5, <2>1, <2>2 DEF Sorted
  <2> HIDE DEF T, f, off, B
  <2>5. SumFunctionOnSet(f, T) \in Nat /\ SumFunctionOnSet(f, T) <= E - B
    BY <1>4, <1>5, <1>6, <1>7, <2>3, <2>4, NopsFit
  <2>6. lines[c].offset \in Int
    BY <1>2, <2>1
  <2>7. QED
    BY <1>8, <2>5, <2>6 DEF B
<1>10. PICK c \in DOMAIN lines : Real(in.cpu, lines[c])
  OBVIOUS
<1>11. low <= lines[c].offset /\ lines[c].offset \in Int
  BY <1>2, <1>10 DEF Sorted, Real, IsInsn
<1>12. low <= E - 1 - NopBytes(lines)
  BY <1>9, <1>10, <1>11
<1>13. QED
  BY <1>9, <1>10, <1>12

(***************************************************************************)
(* The range finalizeSymbol gives the symbol at hand lies between its      *)
(* label and the last address scanned.                                     *)
(***************************************************************************)
LEMMA FinalRange ==
  ASSUME in.cpu \in Cpus, lines \in Seq(LineType), Sorted, low \in Address,
         NEW last \in Address, last < Word - 1,
         \A j \in DOMAIN lines : IsInsn(lines[j]) =>
           lines[j].offset + Room(in.cpu, lines[j]) <= last + 1,
         \E j \in DOMAIN lines : Real(in.cpu, lines[j])
  PROVE  LET high   == Wrap(last - NopBytes(lines))
             length == Wrap(high - low + 1)
         IN  /\ high \in Address /\ low <= high /\ high <= last
             /\ length = high - low + 1 /\ length \in Address /\ length >= 1
<1>1. Address \subseteq Int
  BY WordAssumption DEF Address
<1> DEFINE high == Wrap(last - NopBytes(lines))
<1> DEFINE length == Wrap(high - low + 1)
<1>2. high \in Address /\ low <= high /\ high <= last
  <2>1. last + 1 \in Int /\ low \in Int /\ last \in Int
    BY <1>1
  <2>2. NopBytes(lines) \in Nat /\ low <= (last + 1) - 1 - NopBytes(lines)
    BY <2>1, HighAddress
  <2>3. last - NopBytes(lines) \in Address
    <3>1. low >= 0 /\ last <= Word - 1 /\ Word \in Int
      BY WordAssumption DEF Address
    <3> DEFINE nb == NopBytes(lines)
    <3>2. nb \in Nat /\ low <= (last + 1) - 1 - nb
      BY <2>2
    <3> HIDE DEF nb
    <3>3. last - nb \in 0 .. Word - 1
      BY <2>1, <3>1, <3>2
    <3>4. QED
      BY <3>3 DEF Address, nb
  <2>4. high = last - NopBytes(lines)
    BY <2>3, WrapSame
  <2>5. QED
    BY <2>1, <2>2, <2>3, <2>4
<1> HIDE DEF high
<1>3. length = high - low + 1 /\ length \in Address /\ length >= 1
  <2>1. high - low + 1 \in Address /\ high - low + 1 >= 1
    BY <1>1, <1>2, WordAssumption DEF Address
  <2>2. QED
    BY <2>1, WrapSame
<1> HIDE DEF length
<1>4. QED
  BY <1>2, <1>3 DEF high, length

(***************************************************************************)
(* finalizeSymbol keeps the symbol table and the maps as they should be.   *)
(***************************************************************************)
LEMMA Finalized ==
  ASSUME CovoarInv, phase = "load", current # NoSymbol, in' = in,
         NEW last \in Address, last < Word - 1,
         \A j \in DOMAIN lines : IsInsn(lines[j]) =>
           lines[j].offset + Room(in.cpu, lines[j]) <= last + 1,
         \E j \in DOMAIN lines : Real(in.cpu, lines[j]),
         NEW next, FinalizeSymbol(last, next)
  PROVE  /\ Domains' /\ Table' /\ Tied' /\ MapsFit' /\ UnifiedFit' /\ Paired'
         /\ \A s \in Desired : Clear(unified'[s])
         /\ \A e \in Executables, s \in Desired : Clear(maps'[e][s])
         /\ sizeInBytes' \in [Desired -> Address]
         /\ phase' \in {next, "exited"}
         /\ \A e \in Executables : e # exe => contents'[e] = contents[e]
         /\ \A t \in contents'[exe] : t \in contents[exe] \/ t.high <= last
<1>1. /\ LoadOK /\ Domains /\ Collected /\ Table /\ Behind /\ Tied /\ MapsFit /\ UnifiedFit
      /\ Paired /\ \A s \in Desired : Clear(unified[s])
      /\ \A e \in Executables, s \in Desired : Clear(maps[e][s])
  BY DEF CovoarInv, Fresh
<1>2. /\ in \in Inputs /\ exe \in Executables /\ current \in Desired
      /\ low \in Address /\ lines \in Seq(LineType) /\ sizeInBytes \in [Desired -> Address]
  BY <1>1 DEF LoadOK
<1>3. in.cpu \in Cpus
  BY <1>2, InputFacts
<1>4. Address \subseteq Int
  BY WordAssumption DEF Address
<1>5. Sorted
  BY <1>1 DEF Collected
<1> DEFINE high == Wrap(last - NopBytes(lines))
<1> DEFINE length == Wrap(high - low + 1)
<1>6. high \in Address /\ low <= high /\ high <= last
  BY <1>2, <1>3, <1>5, FinalRange
<1>7. length = high - low + 1 /\ length \in Address /\ length >= 1
  BY <1>2, <1>3, <1>5, FinalRange
<1> HIDE DEF high, length
<1>8. /\ saved' = IF saved[current].instructions = {}
                    THEN [saved EXCEPT ![current] = [instructions |-> Kept(lines), base |-> low]]
                    ELSE saved
      /\ IF SameLength(current, length)
           THEN /\ AddSymbol(current, low, high, length)
                /\ CreateExecutableMap(current, low, high)
                /\ CreateUnifiedMap(current, length)
                /\ phase' = next
           ELSE /\ phase' = "exited"
                /\ UNCHANGED << contents, info, maps, unified, sizeInBytes >>
  BY DEF FinalizeSymbol, high, length
<1>9. Executables' = Executables
  BY DEF Executables
<1>10. saved' \in [Desired -> [instructions : SUBSET LineType, base : Address]]
  <2>1. Kept(lines) \in SUBSET LineType
    BY <1>2, LenProperties, ElementOfSeq DEF Kept
  <2>2. saved \in [Desired -> [instructions : SUBSET LineType, base : Address]]
    BY <1>1 DEF Domains
  <2>3. [instructions |-> Kept(lines), base |-> low]
           \in [instructions : SUBSET LineType, base : Address]
    BY <1>2, <2>1
  <2>4. QED
    BY <1>2, <1>8, <2>2, <2>3
<1>11. CASE ~SameLength(current, length)
  <2>1. UNCHANGED << contents, info, maps, unified, sizeInBytes >> /\ phase' = "exited"
    BY <1>8, <1>11
  <2>2. Domains'
    BY <1>1, <1>9, <1>10, <2>1 DEF Domains
  <2>3. Table' /\ Tied' /\ MapsFit'
    <3>1. Table'
      BY <1>1, <1>9, <2>1 DEF Table
    <3>2. Tied'
      BY <1>1, <1>9, <2>1 DEF Tied
    <3>3. MapsFit'
      BY <1>1, <1>9, <2>1 DEF MapsFit
    <3>4. QED
      BY <3>1, <3>2, <3>3
  <2>4. UnifiedFit' /\ Paired'
    BY <1>1, <1>9, <2>1 DEF UnifiedFit, Paired
  <2>5. QED
    BY <1>1, <1>2, <2>1, <2>2, <2>3, <2>4
<1>12. CASE SameLength(current, length)
  <2> DEFINE r == [low |-> low, high |-> high]
  <2> DEFINE new == [low |-> low, high |-> high, symbol |-> current]
  <2> DEFINE m == maps[exe][current]
  <2> DEFINE n == maps'[exe][current]
  <2> DEFINE base == IF Exists(m) THEN Add(m, low, high) ELSE NewMap(low, high)
  <2>1. /\ AddSymbol(current, low, high, length)
        /\ CreateExecutableMap(current, low, high)
        /\ CreateUnifiedMap(current, length) /\ phase' = next
    BY <1>8, <1>12
  <2>2. /\ contents'[exe] = contents[exe] \cup {new}
        /\ \A e \in Executables : e # exe => contents'[e] = contents[e]
        /\ DOMAIN contents' = Executables
    <3>1. contents' = [contents EXCEPT ![exe] = {t \in @ : t.high # high} \cup {new}]
      BY <2>1 DEF AddSymbol
    <3>2. ASSUME NEW t \in contents[exe] PROVE t.high # high
      <4>1. t.high < low /\ t.high \in Int
        BY <1>1, <1>2, <1>4 DEF Behind, Table
      <4>2. low \in Int /\ high \in Int /\ low <= high
        BY <1>2, <1>4, <1>6
      <4>3. QED
        BY <4>1, <4>2
    <3>3. DOMAIN contents = Executables
      BY <1>1 DEF Domains
    <3>4. QED
      BY <1>2, <3>1, <3>2, <3>3
  <2>3. /\ info'[exe][current] = Append(info[exe][current], length)
        /\ \A e \in Executables, s \in Desired :
             e # exe \/ s # current => info'[e][s] = info[e][s]
        /\ DOMAIN info' = Executables /\ \A e \in Executables : DOMAIN info'[e] = Desired
    BY <1>1, <1>2, <2>1 DEF AddSymbol, Domains
  <2>4. /\ n = SetStarts(base, Starts(lines))
        /\ \A e \in Executables, s \in Desired :
             e # exe \/ s # current => maps'[e][s] = maps[e][s]
        /\ DOMAIN maps' = Executables /\ \A e \in Executables : DOMAIN maps'[e] = Desired
    BY <1>1, <1>2, <2>1 DEF CreateExecutableMap, Domains
  <2> HIDE DEF n
  <2>5. /\ Fits(m) /\ info[exe][current] \in Seq(Address)
        /\ IF Exists(m) THEN info[exe][current] # << >> /\ info[exe][current][1] = m.size
                        ELSE info[exe][current] = << >> /\ m.size = 0
        /\ Clear(m)
    BY <1>1, <1>2 DEF MapsFit
  <2>6. /\ Fits(base) /\ base.size = length /\ Clear(base)
        /\ base.ranges = IF Exists(m) THEN Append(m.ranges, r) ELSE << r >>
    <3>1. CASE Exists(m)
      <4>1. m.size = high - low + 1
        BY <1>7, <1>12, <2>5, <3>1 DEF SameLength
      <4>2. base = Add(m, low, high)
        BY <3>1
      <4> HIDE DEF base, m
      <4>3. QED
        BY <1>2, <1>6, <1>7, <2>5, <3>1, <4>1, <4>2, AddFits DEF Clear
    <3>2. CASE ~Exists(m)
      <4>1. high - low + 1 < Word
        BY <1>2, <1>4, <1>7, WordAssumption DEF Address
      <4>2. base = NewMap(low, high)
        BY <3>2
      <4> HIDE DEF base, m
      <4>3. QED
        BY <1>2, <1>6, <1>7, <3>2, <4>1, <4>2, NewMapFits DEF Clear
    <3>3. QED
      BY <3>1, <3>2
  <2>7. /\ Fits(n) /\ n.size = length /\ Exists(n) /\ Clear(n)
        /\ n.ranges = IF Exists(m) THEN Append(m.ranges, r) ELSE << r >>
    <3>1. Starts(lines) \in SUBSET Int
      <4>1. \A i \in DOMAIN lines : lines[i] \in LineType
        BY <1>2, LenProperties, ElementOfSeq
      <4>2. \A l \in Kept(lines) : l \in LineType
        BY <4>1 DEF Kept
      <4>3. \A l \in Kept(lines) : IsInsn(l) => l.offset \in Address
        BY <4>2, LineFacts DEF IsInsn
      <4>4. QED
        BY <1>4, <4>3 DEF Starts
    <3> HIDE DEF base
    <3>2. Fits(n) /\ n.ranges = base.ranges /\ n.size = base.size /\ n.exec = base.exec
      BY <2>4, <2>6, <3>1, StartsFit
    <3>3. m.ranges \in Seq([low : Address, high : Address])
      BY <2>5 DEF Fits, MapOK
    <3>4. r \in [low : Address, high : Address]
      BY <1>2, <1>6
    <3>5. Append(m.ranges, r) # << >>
      BY <3>3, <3>4, AppendProperties
    <3>6. QED
      BY <2>6, <3>2, <3>5 DEF Exists, Clear
  <2> HIDE DEF base
  <2>8. Domains'
    <3>1. DOMAIN unified' = Desired
      BY <1>1, <2>1 DEF CreateUnifiedMap, Domains
    <3>2. QED
      BY <1>9, <1>10, <2>2, <2>3, <2>4, <3>1 DEF Domains
  <2>9. Table'
    <3>1. new \in [low : Address, high : Address, symbol : Desired] /\ new.low = low /\ new.high = high
      BY <1>2, <1>6
    <3>2. \A t \in contents[exe] : t.high < new.low
      BY <1>1, <1>2, <3>1 DEF Behind
    <3> HIDE DEF new
    <3>3. QED
      BY <1>1, <1>6, <1>9, <2>2, <3>1, <3>2 DEF Table
  <2>10. Tied'
    <3>1. SUFFICES ASSUME NEW e \in Executables, NEW s \in Desired
                   PROVE  /\ \A i \in DOMAIN maps'[e][s].ranges :
                               [low |-> maps'[e][s].ranges[i].low,
                                high |-> maps'[e][s].ranges[i].high, symbol |-> s] \in contents'[e]
                          /\ \A t \in contents'[e] : t.symbol = s =>
                               \E i \in DOMAIN maps'[e][s].ranges :
                                 /\ maps'[e][s].ranges[i].low = t.low
                                 /\ maps'[e][s].ranges[i].high = t.high
      BY <1>9 DEF Tied
    <3>2. CASE e # exe
      <4>1. maps'[e][s] = maps[e][s] /\ contents'[e] = contents[e]
        BY <2>2, <2>4, <3>2
      <4>2. QED
        BY <1>1, <4>1 DEF Tied
    <3>3. new.symbol = current /\ new.low = low /\ new.high = high
      OBVIOUS
    <3>4. CASE e = exe /\ s # current
      <4>1. maps'[e][s] = maps[e][s] /\ contents'[e] = contents[e] \cup {new}
        BY <2>2, <2>4, <3>4
      <4>2. \A t \in contents'[e] : t.symbol = s => t \in contents[e]
        BY <3>3, <3>4, <4>1
      <4> HIDE DEF new
      <4>3. QED
        BY <1>1, <4>1, <4>2 DEF Tied
    <3>5. CASE e = exe /\ s = current
      <4>1. /\ DOMAIN n.ranges = DOMAIN m.ranges \cup {Len(m.ranges) + 1}
            /\ n.ranges[Len(m.ranges) + 1] = r
            /\ \A i \in DOMAIN m.ranges : n.ranges[i] = m.ranges[i]
        <5>1. m.ranges \in Seq([low : Address, high : Address])
          BY <2>5 DEF Fits, MapOK
        <5>2. r \in [low : Address, high : Address]
          BY <1>2, <1>6
        <5>3. n.ranges = Append(m.ranges, r)
          <6>1. m.ranges = << >> => Append(m.ranges, r) = << r >>
            OBVIOUS
          <6>2. QED
            BY <2>7, <6>1 DEF Exists
        <5> HIDE DEF r, m, n
        <5>4. /\ Len(n.ranges) = Len(m.ranges) + 1 /\ n.ranges \in Seq([low : Address, high : Address])
              /\ \A i \in 1 .. Len(m.ranges) : n.ranges[i] = m.ranges[i]
              /\ n.ranges[Len(m.ranges) + 1] = r
          BY <5>1, <5>2, <5>3, AppendProperties
        <5>5. Len(m.ranges) \in Nat /\ DOMAIN m.ranges = 1 .. Len(m.ranges)
          BY <5>1, LenProperties
        <5>6. DOMAIN n.ranges = 1 .. Len(m.ranges) + 1
          BY <5>4, LenProperties
        <5>7. QED
          BY <5>4, <5>5, <5>6
      <4>2. /\ \A i \in DOMAIN m.ranges :
                 [low |-> m.ranges[i].low, high |-> m.ranges[i].high, symbol |-> s] \in contents[e]
            /\ \A t \in contents[e] : t.symbol = s =>
                 \E i \in DOMAIN m.ranges : m.ranges[i].low = t.low /\ m.ranges[i].high = t.high
        BY <1>1, <3>5 DEF Tied
      <4>3. contents'[e] = contents[e] \cup {new}
        BY <2>2, <3>5
      <4>4. [low |-> r.low, high |-> r.high, symbol |-> s] = new /\ r.low = low /\ r.high = high
        BY <3>5
      <4>5. n = maps'[e][s]
        BY <3>5 DEF n
      <4> HIDE DEF new, r, m
      <4>6. QED
        BY <3>3, <4>1, <4>2, <4>3, <4>4, <4>5
    <3>6. QED
      BY <3>2, <3>4, <3>5
  <2>11. MapsFit'
    <3>1. info'[exe][current] \in Seq(Address) /\ info'[exe][current] # << >>
      BY <1>7, <2>3, <2>5, AppendProperties
    <3>2. info'[exe][current][1] = length
      <4>1. CASE Exists(m)
        <5>1. info[exe][current][1] = length
          BY <1>12, <2>5, <4>1 DEF SameLength
        <5>2. Len(info[exe][current]) >= 1 /\ Len(info[exe][current]) \in Nat
          BY <2>5, <4>1, EmptySeq, LenProperties
        <5>3. info'[exe][current][1] = info[exe][current][1]
          BY <1>7, <2>3, <2>5, <5>2, AppendProperties
        <5>4. QED
          BY <5>1, <5>3
      <4>2. CASE ~Exists(m)
        BY <2>3, <2>5, <4>2
      <4>3. QED
        BY <4>1, <4>2
    <3>3. SUFFICES ASSUME NEW e \in Executables, NEW s \in Desired
                   PROVE  /\ Fits(maps'[e][s]) /\ info'[e][s] \in Seq(Address)
                          /\ IF Exists(maps'[e][s])
                               THEN info'[e][s] # << >> /\ info'[e][s][1] = maps'[e][s].size
                               ELSE info'[e][s] = << >> /\ maps'[e][s].size = 0
      BY <1>9 DEF MapsFit
    <3>4. CASE e # exe \/ s # current
      BY <1>1, <2>3, <2>4, <3>4 DEF MapsFit
    <3>5. CASE e = exe /\ s = current
      BY <2>7, <3>1, <3>2, <3>5 DEF n
    <3>6. QED
      BY <3>4, <3>5
  <2>12. /\ sizeInBytes' \in [Desired -> Address]
         /\ \A s \in Desired : s # current =>
              unified'[s] = unified[s] /\ sizeInBytes'[s] = sizeInBytes[s]
         /\ sizeInBytes'[current] >= sizeInBytes[current] \/ ~Exists(unified[current])
         /\ sizeInBytes'[current] >= length
         /\ Fits(unified'[current]) /\ Unified(unified'[current]) /\ Exists(unified'[current])
         /\ Clear(unified'[current])
         /\ IF Exists(unified[current])
              THEN unified'[current].size = unified[current].size
              ELSE unified'[current].size = length
    <3>1. CASE Exists(unified[current])
      <4>1. /\ unified' = unified
            /\ sizeInBytes' = [sizeInBytes EXCEPT ![current] = IF @ < length THEN length ELSE @]
        BY <2>1, <3>1 DEF CreateUnifiedMap
      <4>2. sizeInBytes' \in [Desired -> Address]
        BY <1>2, <1>7, <4>1
      <4>3. sizeInBytes[current] \in Int /\ length \in Int
        BY <1>2, <1>4, <1>7
      <4>4. /\ sizeInBytes'[current] = IF sizeInBytes[current] < length THEN length
                                                                       ELSE sizeInBytes[current]
            /\ \A s \in Desired : s # current => sizeInBytes'[s] = sizeInBytes[s]
        BY <1>2, <4>1
      <4>5. sizeInBytes'[current] >= sizeInBytes[current] /\ sizeInBytes'[current] >= length
        BY <4>3, <4>4
      <4>6. Fits(unified[current]) /\ Unified(unified[current]) /\ Clear(unified[current])
        BY <1>1, <1>2, <3>1 DEF UnifiedFit
      <4>7. QED
        BY <3>1, <4>1, <4>2, <4>4, <4>5, <4>6
    <3>2. CASE ~Exists(unified[current])
      <4> DEFINE u == NewMap(0, length - 1)
      <4>1. 0 \in Address /\ length - 1 \in Address /\ length \in Int /\ length < Word
        BY <1>7, WordAssumption DEF Address
      <4>2. /\ unified' = [unified EXCEPT ![current] = u]
            /\ sizeInBytes' = [sizeInBytes EXCEPT ![current] = length]
        BY <2>1, <3>2, <4>1, WrapSame DEF CreateUnifiedMap
      <4>3. /\ Fits(u) /\ u.ranges = << [low |-> 0, high |-> length - 1] >> /\ u.size = length
            /\ Clear(u)
        <5>1. 0 <= length - 1 /\ (length - 1) - 0 + 1 < Word /\ (length - 1) - 0 + 1 = length
          BY <1>7, <4>1
        <5> DEFINE hi == length - 1
        <5>2. /\ Fits(NewMap(0, hi)) /\ NewMap(0, hi).ranges = << [low |-> 0, high |-> hi] >>
              /\ NewMap(0, hi).size = hi - 0 + 1 /\ Clear(NewMap(0, hi))
          <6>1. hi \in Address /\ 0 <= hi /\ hi - 0 + 1 < Word
            BY <4>1, <5>1
          <6> HIDE DEF hi
          <6>2. QED
            BY <4>1, <6>1, NewMapFits DEF Clear
        <5>3. QED
          BY <5>1, <5>2
      <4> HIDE DEF u
      <4>4. sizeInBytes' \in [Desired -> Address]
        BY <1>2, <1>7, <4>2
      <4>5. unified'[current] = u /\ sizeInBytes'[current] = length
        BY <1>1, <1>2, <4>2 DEF Domains
      <4>6. \A s \in Desired : s # current =>
              unified'[s] = unified[s] /\ sizeInBytes'[s] = sizeInBytes[s]
        BY <1>1, <1>2, <4>2 DEF Domains
      <4>7. Exists(u) /\ Unified(u)
        BY <4>3 DEF Exists, Unified
      <4>8. QED
        BY <3>2, <4>1, <4>3, <4>4, <4>5, <4>6, <4>7
    <3>3. QED
      BY <3>1, <3>2
  <2>13. \A s \in Desired : sizeInBytes[s] \in Int /\ sizeInBytes'[s] \in Int
    BY <1>2, <1>4, <2>12
  <2>14. \A s \in Desired : unified[s].size \in Int
    BY <1>1, <1>4 DEF UnifiedFit, Fits, MapOK
  <2>15. length \in Int /\ length >= 1
    BY <1>4, <1>7
  <2>16. UnifiedFit'
    <3>1. SUFFICES ASSUME NEW s \in Desired
                   PROVE  /\ Fits(unified'[s])
                          /\ Exists(unified'[s]) =>
                               /\ Unified(unified'[s])
                               /\ unified'[s].size >= 1 /\ unified'[s].size <= sizeInBytes'[s]
      BY DEF UnifiedFit
    <3>2. CASE s # current
      BY <1>1, <2>12, <3>2 DEF UnifiedFit
    <3>3. CASE s = current /\ Exists(unified[current])
      <4>1. unified[current].size >= 1 /\ unified[current].size <= sizeInBytes[current]
        BY <1>1, <1>2, <3>3 DEF UnifiedFit
      <4>2. QED
        BY <1>2, <2>12, <2>13, <2>14, <3>3, <4>1
    <3>4. CASE s = current /\ ~Exists(unified[current])
      BY <2>12, <2>15, <3>4
    <3>5. QED
      BY <3>2, <3>3, <3>4
  <2>17. Paired'
    <3>1. SUFFICES ASSUME NEW s \in Desired
                   PROVE  /\ \A e \in Executables : Exists(maps'[e][s]) =>
                               Exists(unified'[s]) /\ maps'[e][s].size <= sizeInBytes'[s]
                          /\ Exists(unified'[s]) =>
                               \E e \in Executables :
                                 Exists(maps'[e][s]) /\ maps'[e][s].size = unified'[s].size
      BY <1>9 DEF Paired
    <3>2. CASE s # current
      <4>1. \A e \in Executables : maps'[e][s] = maps[e][s]
        BY <2>4, <3>2
      <4>2. QED
        BY <1>1, <2>12, <3>2, <4>1 DEF Paired
    <3>3. ASSUME s = current, NEW e \in Executables, Exists(maps'[e][s])
          PROVE  maps'[e][s].size <= sizeInBytes'[s]
      <4>1. CASE e = exe
        BY <2>7, <2>12, <2>13, <2>15, <3>3, <4>1 DEF n
      <4>2. CASE e # exe
        <5>1. maps'[e][s] = maps[e][s]
          BY <2>4, <4>2
        <5>2. Exists(unified[s]) /\ maps[e][s].size <= sizeInBytes[s]
          BY <1>1, <3>3, <5>1 DEF Paired
        <5>3. maps[e][s].size \in Int
          BY <1>1, <1>4 DEF MapsFit, Fits, MapOK
        <5>4. QED
          BY <2>12, <2>13, <3>3, <5>1, <5>2, <5>3
      <4>3. QED
        BY <4>1, <4>2
    <3>4. ASSUME s = current
          PROVE  \E e \in Executables : Exists(maps'[e][s]) /\ maps'[e][s].size = unified'[s].size
      <4>1. CASE Exists(unified[s])
        <5>1. PICK e \in Executables : Exists(maps[e][s]) /\ maps[e][s].size = unified[s].size
          BY <1>1, <4>1 DEF Paired
        <5>2. CASE e # exe
          BY <2>4, <2>12, <3>4, <4>1, <5>1, <5>2
        <5>3. CASE e = exe
          <6>1. m.size = length
            BY <1>12, <2>5, <3>4, <5>1, <5>3 DEF SameLength
          <6>2. QED
            BY <1>2, <2>7, <2>12, <3>4, <4>1, <5>1, <5>3, <6>1 DEF n
        <5>4. QED
          BY <5>2, <5>3
      <4>2. CASE ~Exists(unified[s])
        BY <1>2, <2>7, <2>12, <3>4, <4>2 DEF n
      <4>3. QED
        BY <4>1, <4>2
    <3>5. QED
      BY <2>12, <3>2, <3>3, <3>4
  <2>18. \A s \in Desired : Clear(unified'[s])
    BY <1>1, <2>12
  <2>19. \A e \in Executables, s \in Desired : Clear(maps'[e][s])
    BY <1>1, <2>4, <2>7 DEF n
  <2>20. QED
    BY <1>2, <1>6, <2>1, <2>2, <2>8, <2>9, <2>10, <2>11, <2>12, <2>16, <2>17, <2>18, <2>19
<1>13. QED
  BY <1>11, <1>12

\* With or without a symbol to finalize, the tables and maps stay sound.
LEMMA FinalizedCurrent ==
  ASSUME CovoarInv, phase = "load", in' = in, NEW last \in Address,
         current # NoSymbol =>
           /\ last < Word - 1
           /\ \A j \in DOMAIN lines : IsInsn(lines[j]) =>
                lines[j].offset + Room(in.cpu, lines[j]) <= last + 1
           /\ \E j \in DOMAIN lines : Real(in.cpu, lines[j]),
         NEW next, FinalizeCurrent(last, next)
  PROVE  /\ Domains' /\ Table' /\ Tied' /\ MapsFit' /\ UnifiedFit' /\ Paired'
         /\ \A s \in Desired : Clear(unified'[s])
         /\ \A e \in Executables, s \in Desired : Clear(maps'[e][s])
         /\ sizeInBytes' \in [Desired -> Address]
         /\ phase' \in {next, "exited"}
         /\ \A e \in Executables : e # exe => contents'[e] = contents[e]
         /\ \A t \in contents'[exe] :
              t \in contents[exe] \/ (current # NoSymbol /\ t.high <= last)
<1>1. CASE current = NoSymbol
  <2>1. phase' = next /\ UNCHANGED symbols
    BY <1>1 DEF FinalizeCurrent
  <2>2. UNCHANGED << contents, info, maps, saved, sizeInBytes, unified >>
    BY <2>1 DEF symbols
  <2>3. Executables' = Executables
    BY DEF Executables
  <2>4. /\ LoadOK /\ Domains /\ Table /\ Tied /\ MapsFit /\ UnifiedFit /\ Paired
        /\ \A s \in Desired : Clear(unified[s])
        /\ \A e \in Executables, s \in Desired : Clear(maps[e][s])
    BY DEF CovoarInv, Fresh
  <2>5. Domains' /\ Table'
    BY <2>2, <2>3, <2>4 DEF Domains, Table
  <2>6. Tied' /\ MapsFit'
    BY <2>2, <2>3, <2>4 DEF Tied, MapsFit
  <2>7. UnifiedFit' /\ Paired'
    BY <2>2, <2>3, <2>4 DEF UnifiedFit, Paired
  <2>8. sizeInBytes' \in [Desired -> Address]
    BY <2>2, <2>4 DEF LoadOK
  <2>9. QED
    BY <2>1, <2>2, <2>4, <2>5, <2>6, <2>7, <2>8
<1>2. CASE current # NoSymbol
  <2>1. FinalizeSymbol(last, next)
    BY <1>2 DEF FinalizeCurrent
  <2>2. QED
    BY <1>2, <2>1, Finalized
<1>3. QED
  BY <1>1, <1>2

\* The invariant holds before the first line is read.
LEMMA InitSoundInv == Init => SoundInv
<1>1. SUFFICES ASSUME Init, WellFormed(in) PROVE CovoarInv
  BY DEF SoundInv
<1>2. /\ in \in Inputs /\ phase = "load" /\ exe = 1 /\ line = 1 /\ current = NoSymbol
      /\ low = 0 /\ offset = 0 /\ lines = << >> /\ file = 1 /\ count = 0 /\ log = << >>
      /\ contents = [e \in Executables |-> {}]
      /\ info = [e \in Executables |-> [s \in Desired |-> << >>]]
      /\ maps = [e \in Executables |-> [s \in Desired |-> NoMap]]
      /\ saved = [s \in Desired |-> [instructions |-> {}, base |-> 0]]
      /\ sizeInBytes = [s \in Desired |-> 0]
      /\ unified = [s \in Desired |-> NoMap]
  BY <1>1 DEF Init
<1>3. 0 \in Address /\ MaxEntries \in Nat
  BY WordAssumption, InputAssumption DEF Address
<1>4. /\ Executables \subseteq Nat /\ 1 \in Executables /\ in.files \in Nat \ {0}
      /\ DOMAIN in.dumps = Executables
      /\ \A e \in Executables : in.dumps[e] \in Seq(LineType)
  BY <1>2, InputFacts
<1>5. LoadOK
  BY <1>2, <1>3, <1>4 DEF LoadOK
<1>6. Domains
  BY <1>2, <1>3 DEF Domains
<1>7. Position
  <2>1. Len(in.dumps[exe]) \in Nat
    BY <1>2, <1>4, LenProperties
  <2>2. QED
    BY <1>2, <2>1 DEF Position
<1>8. Collected
  BY <1>2 DEF Collected
<1>9. Table /\ Behind
  BY <1>2, <1>4 DEF Table, Behind
<1>10. NoMap.ranges = << >> /\ Fits(NoMap)
  BY NoMapFits DEF NoMap, MapOf
<1>11. Tied
  BY <1>2, <1>10 DEF Tied
<1>12. NoMap.size = 0 /\ Clear(NoMap)
  BY DEF NoMap, MapOf, Clear
<1>13. MapsFit /\ UnifiedFit
  BY <1>2, <1>10, <1>12 DEF MapsFit, UnifiedFit, Exists
<1>14. Paired /\ Fresh
  BY <1>2, <1>10, <1>12 DEF Paired, Fresh, Exists
<1>15. QED
  BY <1>5, <1>6, <1>7, <1>8, <1>9, <1>11, <1>13, <1>14 DEF CovoarInv

(***************************************************************************)
(* What a sound disassembly says of the line at hand and the ones after it.*)
(***************************************************************************)
LEMMA PlacedFacts ==
  ASSUME in \in Inputs, exe \in Executables, WellFormed(in)
  PROVE  /\ Len(in.dumps[exe]) \in Nat /\ DOMAIN in.dumps[exe] = 1 .. Len(in.dumps[exe])
         /\ in.loadAddress[exe] \in Int /\ in.loadAddress[exe] \in Address
         /\ \A k \in DOMAIN in.dumps[exe] :
              /\ in.dumps[exe][k] \in LineType
              /\ Room(in.cpu, in.dumps[exe][k]) \in Nat
              /\ Placed(in.dumps[exe][k]) =>
                   /\ in.dumps[exe][k].offset \in Address /\ in.dumps[exe][k].offset \in Int
                   /\ At(k) \in Address /\ At(k) \in Int /\ At(k) < Word - 1
                   /\ Load(in.dumps[exe][k].offset) = At(k)
         /\ \A j, k \in DOMAIN in.dumps[exe] :
              j < k /\ Placed(in.dumps[exe][j]) /\ Placed(in.dumps[exe][k]) =>
                /\ At(j) + Room(in.cpu, in.dumps[exe][j]) <= At(k) /\ At(j) <= At(k)
                /\ in.dumps[exe][k].kind = "label" => At(j) < At(k)
         /\ NotEmpty(in.cpu, in.dumps[exe])
<1> DEFINE d == in.dumps[exe]
<1> DEFINE base == in.loadAddress[exe]
<1>1. d \in Seq(LineType) /\ base \in Address /\ in.cpu \in Cpus /\ exe \in DOMAIN in.dumps
  BY InputFacts
<1>2. InPlace(in.cpu, d, base) /\ NotEmpty(in.cpu, d)
  BY <1>1 DEF WellFormed
<1>3. Address \subseteq Int /\ \A x \in Address : x >= 0
  BY WordAssumption DEF Address
<1>4. Len(d) \in Nat /\ DOMAIN d = 1 .. Len(d)
  BY <1>1, LenProperties
<1>5. \A k \in DOMAIN d : At(k) = base + d[k].offset
  BY DEF At
<1>6. \A k \in DOMAIN d : Load(d[k].offset) = Wrap(At(k))
  BY DEF Load, At
<1> HIDE DEF d, base
<1>7. \A k \in DOMAIN d : d[k] \in LineType /\ Room(in.cpu, d[k]) \in Nat
  BY <1>1, <1>4, ElementOfSeq, RoomType
<1>8. ASSUME NEW k \in DOMAIN d, Placed(d[k])
      PROVE  /\ d[k].offset \in Address /\ d[k].offset \in Int
             /\ At(k) \in Address /\ At(k) \in Int /\ At(k) < Word - 1
             /\ Load(d[k].offset) = At(k)
  <2>1. d[k].offset \in Address
    BY <1>7, <1>8, LineFacts
  <2>2. base + d[k].offset < Word - 1
    BY <1>2, <1>8 DEF InPlace
  <2>3. d[k].offset \in Int /\ base \in Int /\ d[k].offset >= 0 /\ base >= 0 /\ Word \in Int
    <3>1. d[k].offset \in Int /\ base \in Int /\ d[k].offset >= 0 /\ base >= 0
      BY <1>1, <1>3, <2>1
    <3>2. Word \in Int
      BY WordAssumption
    <3>3. QED
      BY <3>1, <3>2
  <2>4. base + d[k].offset \in Address
    BY <2>2, <2>3 DEF Address
  <2>5. QED
    BY <1>3, <1>5, <1>6, <2>1, <2>2, <2>3, <2>4, WrapSame
<1>9. ASSUME NEW j \in DOMAIN d, NEW k \in DOMAIN d, j < k, Placed(d[j]), Placed(d[k])
      PROVE  /\ At(j) + Room(in.cpu, d[j]) <= At(k) /\ At(j) <= At(k)
             /\ d[k].kind = "label" => At(j) < At(k)
  <2>1. /\ d[j].offset + Room(in.cpu, d[j]) <= d[k].offset
        /\ d[k].kind = "label" => d[j].offset < d[k].offset
    BY <1>2, <1>9 DEF InPlace
  <2>2. d[j].offset \in Int /\ d[k].offset \in Int /\ base \in Int /\ Room(in.cpu, d[j]) \in Nat
    BY <1>1, <1>3, <1>7, <1>8, <1>9
  <2>3. At(j) = base + d[j].offset /\ At(k) = base + d[k].offset
    BY <1>5
  <2>4. QED
    BY <2>1, <2>2, <2>3
<1>10. base \in Int
  BY <1>1, <1>3
<1>11. QED
  BY <1>1, <1>2, <1>4, <1>7, <1>8, <1>9, <1>10 DEF d, base

(***************************************************************************)
(* The symbol a label ends: its instructions lie before the label, and one *)
(* of them is no nop.                                                      *)
(***************************************************************************)
LEMMA EndedByLabel ==
  ASSUME CovoarInv, WellFormed(in), phase = "load", current # NoSymbol,
         line \in DOMAIN in.dumps[exe], in.dumps[exe][line].kind = "label"
  PROVE  LET last == Wrap(At(line) - 1)
         IN  /\ last = At(line) - 1 /\ last < Word - 1 /\ low < At(line)
             /\ \A j \in DOMAIN lines : IsInsn(lines[j]) =>
                  lines[j].offset + Room(in.cpu, lines[j]) <= last + 1
             /\ \E j \in DOMAIN lines : Real(in.cpu, lines[j])
<1> DEFINE d == in.dumps[exe]
<1> DEFINE at == At(line)
<1> DEFINE last == Wrap(at - 1)
<1>1. Collected /\ in \in Inputs /\ exe \in Executables /\ low \in Address
  BY DEF CovoarInv, LoadOK
<1>2. Len(d) \in Nat /\ DOMAIN d = 1 .. Len(d)
  BY <1>1, PlacedFacts
<1>3. at \in Address /\ at \in Int /\ at < Word - 1 /\ Placed(d[line])
  <2>1. Placed(d[line])
    BY DEF Placed
  <2>2. QED
    BY <1>1, <2>1, PlacedFacts
<1>4. line \in Rest /\ line \in Int
  BY <1>2 DEF Rest
<1>5. Before /\ RealAhead
  BY <1>1 DEF Collected
<1>6. low < at
  BY <1>3, <1>4, <1>5 DEF Before
<1>7. at - 1 \in Address
  BY <1>1, <1>3, <1>6, WordAssumption DEF Address
<1>8. last = at - 1
  BY <1>7, WrapSame
<1>9. last + 1 = at /\ last < Word - 1
  <2>1. Word \in Int
    BY WordAssumption
  <2>2. QED
    BY <1>3, <1>8, <2>1
<1>10. \A j \in DOMAIN lines : IsInsn(lines[j]) =>
        lines[j].offset + Room(in.cpu, lines[j]) <= at
  BY <1>3, <1>4, <1>5 DEF Before
<1>11. \E j \in DOMAIN lines : Real(in.cpu, lines[j])
  <2>1. ASSUME NEW j \in Rest, \A i \in line .. j : d[i].kind # "label" PROVE FALSE
    <3>1. line \in line .. j
      BY <1>2, <1>4, <2>1 DEF Rest
    <3>2. QED
      BY <2>1, <3>1
  <2>2. QED
    BY <1>5, <2>1 DEF RealAhead
<1> HIDE DEF last, at
<1>12. QED
  BY <1>6, <1>8, <1>9, <1>10, <1>11 DEF last, at

(***************************************************************************)
(* A label: the symbol before it is finalized, its own symbol begins.      *)
(***************************************************************************)
LEMMA LoadLabelInv ==
  ASSUME CovoarInv, WellFormed(in), LoadLabel
  PROVE  CovoarInv'
<1>1. /\ LoadOK /\ Domains /\ Position /\ Collected /\ Table /\ Behind /\ Tied
      /\ MapsFit /\ UnifiedFit
  BY DEF CovoarInv
<1>2. /\ phase = "load" /\ line <= Len(in.dumps[exe]) /\ Line.kind = "label"
      /\ FinalizeCurrent(Wrap(Load(Line.offset) - 1), "load")
      /\ IF Line.symbol \in Desired
           THEN current' = Line.symbol /\ low' = Load(Line.offset) /\ lines' = << Text >>
           ELSE current' = NoSymbol /\ low' = 0 /\ lines' = << >>
      /\ offset' = Line.offset /\ line' = line + 1
      /\ in' = in /\ exe' = exe /\ file' = file /\ count' = count /\ log' = log
  BY DEF LoadLabel, reading
<1>3. in \in Inputs /\ exe \in Executables /\ line \in Nat \ {0} /\ low \in Address
  BY <1>1 DEF LoadOK
<1> DEFINE d == in.dumps[exe]
<1>4. /\ Len(d) \in Nat /\ DOMAIN d = 1 .. Len(d)
      /\ \A k \in DOMAIN d : /\ d[k] \in LineType
                             /\ Placed(d[k]) => At(k) \in Int /\ At(k) \in Address
      /\ \A j, k \in DOMAIN d : j < k /\ Placed(d[j]) /\ Placed(d[k]) =>
           At(j) <= At(k) /\ (d[k].kind = "label" => At(j) < At(k))
      /\ NotEmpty(in.cpu, d)
  BY <1>3, PlacedFacts
<1>5. line \in DOMAIN d /\ Line = d[line] /\ Placed(d[line]) /\ d[line].kind = "label"
  BY <1>2, <1>3, <1>4 DEF Line, Placed
<1> DEFINE at == At(line)
<1>6. at \in Address /\ at \in Int /\ at < Word - 1 /\ Load(Line.offset) = at /\ Line.offset \in Address
  BY <1>3, <1>5, PlacedFacts
<1> DEFINE last == Wrap(at - 1)
<1>7. last \in Address
  <2>1. at - 1 \in Int
    BY <1>6
  <2>2. QED
    BY <2>1, WrapType
<1>8. line \in Rest
  BY <1>2, <1>3, <1>4 DEF Rest
<1>9. ASSUME current # NoSymbol
      PROVE  /\ last = at - 1 /\ last < Word - 1
             /\ \A j \in DOMAIN lines : IsInsn(lines[j]) =>
                  lines[j].offset + Room(in.cpu, lines[j]) <= last + 1
             /\ \E j \in DOMAIN lines : Real(in.cpu, lines[j])
  BY <1>2, <1>5, <1>9, EndedByLabel
<1>10. FinalizeCurrent(last, "load")
  BY <1>2, <1>6
<1>11. /\ Domains' /\ Table' /\ Tied' /\ MapsFit' /\ UnifiedFit' /\ Paired'
       /\ \A s \in Desired : Clear(unified'[s])
       /\ \A e \in Executables, s \in Desired : Clear(maps'[e][s])
       /\ sizeInBytes' \in [Desired -> Address] /\ phase' \in {"load", "exited"}
       /\ \A e \in Executables : e # exe => contents'[e] = contents[e]
       /\ \A t \in contents'[exe] :
            t \in contents[exe] \/ (current # NoSymbol /\ t.high <= last)
  <2> HIDE DEF last
  <2>1. QED
    BY <1>2, <1>7, <1>9, <1>10, FinalizedCurrent
<1>12. Executables' = Executables
  BY <1>2 DEF Executables
<1>13. LoadOK'
  <2>1. current' \in Desired \cup {NoSymbol} /\ low' \in Address
    BY <1>2, <1>6, WordAssumption DEF Address
  <2>2. lines' \in Seq(LineType)
    <3>1. Text \in LineType
      BY DEF Text, LineType
    <3> HIDE DEF d, at
    <3>2. lines' = << >> \/ lines' = << Text >>
      BY <1>2
    <3> HIDE DEF Text, LineType
    <3>3. << >> \in Seq(LineType) /\ << Text >> \in Seq(LineType)
      BY ONLY <3>1
    <3>4. QED
      BY <3>2, <3>3
  <2>3. line' \in Nat \ {0}
    BY <1>2, <1>3
  <2>4. QED
    BY <1>1, <1>2, <1>6, <1>11, <1>12, <2>1, <2>2, <2>3 DEF LoadOK
<1>14. Position'
  BY <1>2, <1>3, <1>4 DEF Position
<1>15. Rest' = line + 1 .. Len(d) /\ \A k \in DOMAIN d : At(k)' = At(k)
  BY <1>2 DEF Rest, At
<1>16. \A k \in Rest' : k \in DOMAIN d /\ line < k
  BY <1>3, <1>4, <1>15
<1>17. Collected'
  <2>1. SUFFICES ASSUME current' # NoSymbol PROVE Sorted' /\ Before' /\ RealAhead' /\ RealLast'
    BY DEF Collected
  <2>2. d[line].symbol \in Desired /\ low' = at /\ lines' = << Text >>
    BY <1>2, <1>5, <1>6, <2>1
  <2>3. \A j \in DOMAIN lines' : ~IsInsn(lines'[j])
    BY <2>2 DEF Text, IsInsn
  <2>4. Sorted'
    BY <2>3 DEF Sorted, IsInsn
  <2>5. Before'
    <3>1. \A k \in Rest' : Placed(d[k]) => at <= At(k) /\ (d[k].kind = "label" => at < At(k))
      BY <1>4, <1>5, <1>16
    <3> HIDE DEF at
    <3>2. QED
      BY <1>2, <1>15, <1>16, <2>2, <2>3, <3>1 DEF Before, IsInsn
  <2>6. PICK j \in line + 1 .. Len(d) :
          Real(in.cpu, d[j]) /\ \A i \in line + 1 .. j : d[i].kind # "label"
    BY <1>4, <1>5, <2>2 DEF NotEmpty
  <2>7. RealAhead'
    BY <1>2, <1>15, <2>6 DEF RealAhead, Real
  <2>8. RealLast'
    BY <1>2, <1>15, <2>6 DEF RealLast, Real, Placed
  <2>9. QED
    BY <2>4, <2>5, <2>7, <2>8
<1>18. Behind'
  <2>1. ASSUME NEW t \in contents'[exe] PROVE t.high < at
    <3>1. CASE t \in contents[exe]
      BY <1>1, <1>2, <1>5, <1>8, <3>1 DEF Behind
    <3>2. CASE current # NoSymbol /\ t.high <= last
      <4>1. last = at - 1
        BY <1>9, <3>2
      <4>2. t.high \in Int
        <5>1. t \in [low : Address, high : Address, symbol : Desired]
          BY <1>3, <1>11, <1>12, <2>1 DEF Table
        <5>2. QED
          BY <5>1, WordAssumption DEF Address
      <4>3. QED
        BY <1>6, <3>2, <4>1, <4>2
    <3>3. QED
      BY <1>11, <3>1, <3>2
  <2>2. ASSUME NEW t \in contents'[exe], NEW k \in Rest', d[k].kind = "label" PROVE t.high < At(k)
    <3>1. at < At(k) /\ At(k) \in Int
      BY <1>4, <1>5, <1>16, <2>2 DEF Placed
    <3>2. t.high \in Int
      <4>1. t \in [low : Address, high : Address, symbol : Desired]
        BY <1>3, <1>11, <1>12, <2>2 DEF Table
      <4>2. QED
        BY <4>1, WordAssumption DEF Address
    <3>3. QED
      BY <1>6, <2>1, <3>1, <3>2
  <2>3. current' # NoSymbol => low' = at
    BY <1>2, <1>6
  <2>4. \A e \in Executables : e > exe => contents'[e] = {}
    <3>1. exe \in Int /\ Executables \subseteq Int
      BY <1>3, InputFacts
    <3>2. \A e \in Executables : e > exe => e # exe
      BY <3>1
    <3>3. QED
      BY <1>1, <1>2, <1>11, <3>2 DEF Behind
  <2> HIDE DEF at
  <2>5. QED
    BY <1>2, <1>12, <1>15, <1>16, <2>1, <2>2, <2>3, <2>4 DEF Behind
<1>19. Fresh'
  <2>1. /\ file' = 1 /\ log' = << >>
        /\ log' \in Seq([exe : Executables', entry : Entries])
    BY <1>2, <1>12 DEF CovoarInv, Fresh
  <2>2. QED
    BY <1>11, <1>12, <2>1 DEF Fresh
<1>20. QED
  BY <1>11, <1>13, <1>14, <1>17, <1>18, <1>19 DEF CovoarInv

(***************************************************************************)
(* Any other line, which is kept for the current symbol.                   *)
(***************************************************************************)
LEMMA LoadLineInv ==
  ASSUME CovoarInv, WellFormed(in), LoadLine
  PROVE  CovoarInv'
<1>1. /\ LoadOK /\ Domains /\ Position /\ Collected /\ Table /\ Behind /\ Tied
      /\ MapsFit /\ UnifiedFit /\ Paired /\ Fresh
  BY DEF CovoarInv
<1> DEFINE new == IF IsInsn(Line) THEN [Line EXCEPT !.offset = Load(@)] ELSE Text
<1>2. /\ phase = "load" /\ line <= Len(in.dumps[exe]) /\ Line.kind # "label"
      /\ lines' = IF current = NoSymbol THEN lines ELSE Append(lines, new)
      /\ offset' = IF IsInsn(Line) THEN Line.offset ELSE offset
      /\ line' = line + 1 /\ phase' = phase /\ current' = current /\ low' = low
      /\ in' = in /\ exe' = exe /\ file' = file /\ count' = count /\ log' = log
      /\ contents' = contents /\ info' = info /\ maps' = maps /\ saved' = saved
      /\ sizeInBytes' = sizeInBytes /\ unified' = unified
  BY DEF LoadLine, reading, symbols
<1>3. /\ in \in Inputs /\ exe \in Executables /\ line \in Nat \ {0} /\ low \in Address
      /\ lines \in Seq(LineType) /\ offset \in Address
  BY <1>1 DEF LoadOK
<1> DEFINE d == in.dumps[exe]
<1>4. /\ Len(d) \in Nat /\ DOMAIN d = 1 .. Len(d)
      /\ in.loadAddress[exe] \in Int
      /\ \A k \in DOMAIN d : /\ d[k] \in LineType /\ Room(in.cpu, d[k]) \in Nat
                             /\ Placed(d[k]) => At(k) \in Int /\ At(k) \in Address
      /\ \A j, k \in DOMAIN d : j < k /\ Placed(d[j]) /\ Placed(d[k]) =>
           /\ At(j) + Room(in.cpu, d[j]) <= At(k) /\ At(j) <= At(k)
           /\ (d[k].kind = "label" => At(j) < At(k))
      /\ NotEmpty(in.cpu, d)
  BY <1>3, PlacedFacts
<1>5. line \in DOMAIN d /\ Line = d[line] /\ d[line] \in LineType
  BY <1>2, <1>3, <1>4 DEF Line
<1>6. line \in Rest
  BY <1>2, <1>3, <1>4 DEF Rest
<1>7. /\ IsInsn(d[line]) => /\ Placed(d[line]) /\ d[line].offset \in Address
                           /\ Load(d[line].offset) = At(line)
                           /\ At(line) \in Address /\ At(line) \in Int /\ At(line) < Word - 1
      /\ ~IsInsn(d[line]) => ~Placed(d[line])
  <2>1. IsInsn(d[line]) => Placed(d[line])
    BY DEF IsInsn, Placed
  <2>2. ~IsInsn(d[line]) => ~Placed(d[line])
    BY <1>2, <1>5, LineFacts DEF IsInsn, Placed
  <2>3. QED
    BY <1>3, <1>5, <2>1, <2>2, PlacedFacts
<1>8. /\ new \in LineType /\ (IsInsn(new) <=> IsInsn(d[line]))
      /\ IsInsn(new) => /\ new.offset = At(line)
                       /\ Room(in.cpu, new) = Room(in.cpu, d[line])
      /\ Real(in.cpu, new) <=> Real(in.cpu, d[line])
  <2>1. CASE IsInsn(d[line])
    <3>1. d[line] \in [kind : {"insn"}, offset : Address, op : STRING]
      BY <1>5, <2>1 DEF LineType, IsInsn
    <3>2. new = [d[line] EXCEPT !.offset = At(line)]
      BY <1>5, <1>7, <2>1
    <3> HIDE DEF new, d
    <3>3. new \in [kind : {"insn"}, offset : Address, op : STRING]
      BY <1>7, <2>1, <3>1, <3>2
    <3>4. new.offset = At(line) /\ new.kind = d[line].kind /\ new.op = d[line].op
      BY <3>1, <3>2
    <3>5. QED
      BY <3>3, <3>4, <2>1 DEF LineType, IsInsn, Room, Real
  <2>2. CASE ~IsInsn(d[line])
    <3>1. new = Text
      BY <1>5, <2>2
    <3> HIDE DEF new, d
    <3>2. new \in LineType /\ ~IsInsn(new) /\ ~Real(in.cpu, new) /\ ~Real(in.cpu, d[line])
      BY <2>2, <3>1 DEF Text, LineType, IsInsn, Real
    <3>3. QED
      BY <2>2, <3>2
  <2>3. QED
    BY <2>1, <2>2
<1>9. Executables' = Executables
  BY <1>2 DEF Executables
<1> HIDE DEF new
<1>10. LoadOK'
  <2>1. lines' \in Seq(LineType)
    BY <1>2, <1>3, <1>8, AppendProperties
  <2>2. line' \in Nat \ {0}
    BY <1>2, <1>3
  <2>3. offset' \in Address
    BY <1>2, <1>3, <1>5, <1>7
  <2>4. QED
    BY <1>1, <1>2, <1>9, <2>1, <2>2, <2>3 DEF LoadOK
<1>11. Position'
  BY <1>2, <1>3, <1>4 DEF Position
<1>12. Domains' /\ Table' /\ Tied' /\ MapsFit' /\ UnifiedFit' /\ Paired' /\ Fresh'
  <2>1. Domains' /\ Table'
    BY <1>1, <1>2, <1>9 DEF Domains, Table
  <2>2. Tied'
    BY <1>1, <1>2, <1>9 DEF Tied
  <2>3. MapsFit'
    BY <1>1, <1>2, <1>9 DEF MapsFit
  <2>4. UnifiedFit'
    BY <1>1, <1>2 DEF UnifiedFit
  <2>5. Paired'
    BY <1>1, <1>2, <1>9 DEF Paired
  <2>6. Fresh'
    BY <1>1, <1>2, <1>9 DEF Fresh
  <2>7. QED
    BY <2>1, <2>2, <2>3, <2>4, <2>5, <2>6
<1>13. /\ Rest = line .. Len(d) /\ Rest' = line + 1 .. Len(d)
       /\ \A k \in DOMAIN d : At(k)' = At(k)
  BY <1>2 DEF Rest, At
<1>14. \A k \in Rest' : k \in DOMAIN d /\ line < k /\ k \in Rest
  BY <1>3, <1>4, <1>13
<1>15. \A k \in Rest : k = line \/ k \in Rest'
  BY <1>3, <1>4, <1>13
<1>16. Behind'
  BY <1>1, <1>2, <1>9, <1>13, <1>14 DEF Behind
<1>17. Collected'
  <2>1. SUFFICES ASSUME current # NoSymbol PROVE Sorted' /\ Before' /\ RealAhead' /\ RealLast'
    BY <1>2 DEF Collected
  <2>2. Sorted /\ Before /\ RealAhead /\ RealLast
    BY <1>1, <1>2, <2>1 DEF Collected
  <2> DEFINE n == Len(lines) + 1
  <2>3. /\ lines' = Append(lines, new) /\ Len(lines) \in Nat
        /\ DOMAIN lines = 1 .. Len(lines) /\ DOMAIN lines' = 1 .. n
        /\ lines'[n] = new /\ \A j \in DOMAIN lines : lines'[j] = lines[j]
    <3>1. lines' = Append(lines, new)
      BY <1>2, <2>1
    <3>2. Len(lines) \in Nat /\ DOMAIN lines = 1 .. Len(lines)
      BY <1>3, LenProperties
    <3>3. /\ lines' \in Seq(LineType) /\ Len(lines') = Len(lines) + 1
          /\ \A j \in 1 .. Len(lines) : lines'[j] = lines[j]
          /\ lines'[Len(lines) + 1] = new
      BY <1>3, <1>8, <3>1, AppendProperties
    <3>4. DOMAIN lines' = 1 .. Len(lines')
      BY <3>3, LenProperties
    <3>5. QED
      BY <3>1, <3>2, <3>3, <3>4
  <2> HIDE DEF n
  <2>4. \A j \in DOMAIN lines' : j = n \/ (j \in DOMAIN lines /\ j < n /\ lines'[j] = lines[j])
    BY <2>3 DEF n
  <2>5. n \in DOMAIN lines' /\ DOMAIN lines \subseteq DOMAIN lines' /\ DOMAIN lines' \subseteq Int /\ n \in Int
    BY <2>3 DEF n
  <2>6. \A j \in DOMAIN lines : IsInsn(lines[j]) /\ IsInsn(new) =>
          lines[j].offset + Room(in.cpu, lines[j]) <= At(line)
    BY <1>6, <1>7, <1>8, <2>2 DEF Before
  <2>7. IsInsn(new) => low <= At(line)
    BY <1>6, <1>7, <1>8, <2>2 DEF Before
  <2>8. Sorted'
    <3>1. ASSUME NEW j \in DOMAIN lines', IsInsn(lines'[j]) PROVE low <= lines'[j].offset
      <4>1. CASE j = n
        BY <1>8, <2>3, <2>7, <3>1, <4>1
      <4>2. CASE j \in DOMAIN lines /\ lines'[j] = lines[j]
        BY <2>2, <3>1, <4>2 DEF Sorted
      <4>3. QED
        BY <2>4, <4>1, <4>2
    <3>2. ASSUME NEW i \in DOMAIN lines', NEW j \in DOMAIN lines', i < j,
                 IsInsn(lines'[i]), IsInsn(lines'[j])
          PROVE  lines'[i].offset + Room(in.cpu, lines'[i]) <= lines'[j].offset
      <4>1. i \in DOMAIN lines /\ lines'[i] = lines[i]
        <5>1. i # n
          BY <2>4, <2>5, <3>2
        <5>2. QED
          BY <2>4, <5>1
      <4>2. CASE j = n
        BY <1>8, <2>3, <2>6, <3>2, <4>1, <4>2
      <4>3. CASE j \in DOMAIN lines /\ lines'[j] = lines[j]
        BY <2>2, <3>2, <4>1, <4>3 DEF Sorted
      <4>4. QED
        BY <2>4, <4>2, <4>3
    <3>3. QED
      BY <1>2, <3>1, <3>2 DEF Sorted
  <2>9. Before'
    <3>1. ASSUME NEW j \in DOMAIN lines', NEW k \in Rest', IsInsn(lines'[j]), Placed(d[k])
          PROVE  lines'[j].offset + Room(in.cpu, lines'[j]) <= At(k)
      <4>1. CASE j = n
        <5>1. Placed(d[line]) /\ line < k /\ k \in DOMAIN d /\ lines'[j].offset = At(line)
              /\ Room(in.cpu, lines'[j]) = Room(in.cpu, d[line])
          BY <1>7, <1>8, <1>14, <2>3, <3>1, <4>1
        <5>2. QED
          BY <1>4, <1>5, <3>1, <5>1
      <4>2. CASE j \in DOMAIN lines /\ lines'[j] = lines[j]
        BY <1>14, <2>2, <3>1, <4>2 DEF Before
      <4>3. QED
        BY <2>4, <4>1, <4>2
    <3>2. \A k \in Rest' : Placed(d[k]) =>
            low <= At(k) /\ (d[k].kind = "label" => low < At(k))
      BY <1>14, <2>2 DEF Before
    <3>3. QED
      BY <1>2, <1>13, <1>14, <3>1, <3>2 DEF Before
  <2>10. RealAhead'
    <3>1. CASE \E j \in DOMAIN lines : Real(in.cpu, lines[j])
      BY <1>2, <2>3, <2>5, <3>1 DEF RealAhead
    <3>2. CASE \E j \in Rest : Real(in.cpu, d[j]) /\ \A i \in line .. j : d[i].kind # "label"
      <4>1. PICK j \in Rest : Real(in.cpu, d[j]) /\ \A i \in line .. j : d[i].kind # "label"
        BY <3>2
      <4>2. CASE j = line
        <5>1. Real(in.cpu, lines'[n])
          BY <1>8, <2>3, <4>1, <4>2
        <5>2. QED
          BY <1>2, <2>5, <5>1 DEF RealAhead
      <4>3. CASE j \in Rest'
        <5>1. \A i \in line + 1 .. j : i \in line .. j
          BY <1>3, <1>4, <1>13, <4>3
        <5>2. QED
          BY <1>2, <4>1, <4>3, <5>1 DEF RealAhead
      <4>4. QED
        BY <1>15, <4>1, <4>2, <4>3
    <3>3. QED
      BY <2>2, <3>1, <3>2 DEF RealAhead
  <2>11. RealLast'
    <3>1. SUFFICES ASSUME \A k \in Rest' : ~Placed(d[k]) PROVE RealLast'
      BY <1>2 DEF RealLast
    <3>2. CASE IsInsn(d[line])
      <4>1. Real(in.cpu, d[line])
        <5>1. SUFFICES ASSUME ~Real(in.cpu, d[line]) PROVE FALSE
          OBVIOUS
        <5>2. PICK j \in line + 1 .. Len(d) : Placed(d[j])
          BY <1>4, <1>5, <3>2, <5>1 DEF NotEmpty, IsInsn
        <5>3. QED
          BY <1>13, <3>1, <5>2
      <4>2. Real(in.cpu, lines'[n]) /\ lines'[n].offset = At(line)
        BY <1>8, <2>3, <3>2, <4>1
      <4>3. At(line) = in.loadAddress[exe] + offset' /\ At(line) < Word - 1
        BY <1>2, <1>5, <1>7, <3>2 DEF At
      <4>4. \A j \in DOMAIN lines' : ~(j > n)
        BY <2>4, <2>5
      <4>5. QED
        BY <1>2, <2>5, <4>2, <4>3, <4>4 DEF RealLast
    <3>3. CASE ~IsInsn(d[line])
      <4>1. \A k \in Rest : ~Placed(d[k])
        BY <1>7, <1>15, <3>1, <3>3
      <4>2. PICK c \in DOMAIN lines :
              /\ Real(in.cpu, lines[c])
              /\ lines[c].offset = in.loadAddress[exe] + offset /\ lines[c].offset < Word - 1
              /\ \A j \in DOMAIN lines : j > c => ~IsInsn(lines[j])
        BY <2>2, <4>1 DEF RealLast
      <4>3. lines'[c] = lines[c] /\ c \in DOMAIN lines' /\ offset' = offset
        BY <1>2, <1>5, <2>3, <2>5, <3>3
      <4>4. \A j \in DOMAIN lines' : j > c => ~IsInsn(lines'[j])
        BY <1>8, <2>3, <2>4, <3>3, <4>2
      <4>5. QED
        BY <1>2, <4>2, <4>3, <4>4 DEF RealLast
    <3>4. QED
      BY <3>2, <3>3
  <2>12. QED
    BY <2>8, <2>9, <2>10, <2>11
<1>18. QED
  BY <1>10, <1>11, <1>12, <1>16, <1>17 DEF CovoarInv

(***************************************************************************)
(* The symbol the end of a disassembly ends: its last instruction is no    *)
(* nop, and the last line scanned.                                         *)
(***************************************************************************)
LEMMA EndedByFile ==
  ASSUME CovoarInv, WellFormed(in), phase = "load", current # NoSymbol,
         line > Len(in.dumps[exe])
  PROVE  LET last == Load(offset)
         IN  /\ last < Word - 1
             /\ \A j \in DOMAIN lines : IsInsn(lines[j]) =>
                  lines[j].offset + Room(in.cpu, lines[j]) <= last + 1
             /\ \E j \in DOMAIN lines : Real(in.cpu, lines[j])
             /\ Rest = {}
<1> DEFINE last == Load(offset)
<1>1. /\ Collected /\ in \in Inputs /\ exe \in Executables /\ line \in Nat \ {0}
      /\ lines \in Seq(LineType) /\ offset \in Address
  BY DEF CovoarInv, LoadOK
<1>2. Len(in.dumps[exe]) \in Nat /\ in.loadAddress[exe] \in Int /\ in.cpu \in Cpus
  BY <1>1, PlacedFacts, InputFacts
<1>3. Address \subseteq Int
  BY WordAssumption DEF Address
<1>4. Sorted /\ RealLast
  BY <1>1 DEF Collected
<1>5. \A k \in Rest : FALSE
  BY <1>1, <1>2 DEF Rest
<1>6. PICK c \in DOMAIN lines :
        /\ Real(in.cpu, lines[c])
        /\ lines[c].offset = in.loadAddress[exe] + offset /\ lines[c].offset < Word - 1
        /\ \A j \in DOMAIN lines : j > c => ~IsInsn(lines[j])
  BY <1>4, <1>5 DEF RealLast
<1>7. \A j \in DOMAIN lines : j \in Int /\ lines[j] \in LineType
  BY <1>1, LenProperties, ElementOfSeq
<1>8. \A j \in DOMAIN lines : IsInsn(lines[j]) =>
        /\ lines[j].offset \in Address /\ lines[j].offset \in Int
        /\ Room(in.cpu, lines[j]) \in Nat
  <2>1. \A j \in DOMAIN lines : IsInsn(lines[j]) => lines[j].offset \in Address
    BY <1>7, LineFacts DEF IsInsn
  <2>2. QED
    BY <1>2, <1>3, <2>1, RoomType
<1>9. IsInsn(lines[c]) /\ Room(in.cpu, lines[c]) = 1
  BY <1>2, <1>6, RoomType DEF Real, IsInsn
<1>10. last = lines[c].offset
  BY <1>6, <1>8, <1>9, WrapSame DEF Load
<1> HIDE DEF last
<1>11. ASSUME NEW j \in DOMAIN lines, IsInsn(lines[j])
      PROVE  lines[j].offset + Room(in.cpu, lines[j]) <= last + 1
  <2>1. CASE j = c
    BY <1>8, <1>9, <1>10, <2>1
  <2>2. CASE j < c
    <3>1. lines[j].offset + Room(in.cpu, lines[j]) <= lines[c].offset
      BY <1>4, <1>9, <1>11, <2>2 DEF Sorted
    <3>2. QED
      BY <1>8, <1>9, <1>10, <1>11, <3>1
  <2>3. QED
    BY <1>6, <1>7, <1>11, <2>1, <2>2
<1>12. QED
  BY <1>5, <1>6, <1>10, <1>11 DEF last

(***************************************************************************)
(* The end of a disassembly: the last symbol is finalized.                 *)
(***************************************************************************)
LEMMA LoadEndInv ==
  ASSUME CovoarInv, WellFormed(in), LoadEnd
  PROVE  CovoarInv'
<1>1. /\ LoadOK /\ Domains /\ Position /\ Collected /\ Table /\ Behind /\ Tied
      /\ MapsFit /\ UnifiedFit
  BY DEF CovoarInv
<1> DEFINE next == IF exe = Len(in.dumps) THEN "read" ELSE "load"
<1> DEFINE last == Load(offset)
<1>2. /\ phase = "load" /\ line > Len(in.dumps[exe])
      /\ FinalizeCurrent(last, next)
      /\ exe' = IF exe = Len(in.dumps) THEN exe ELSE exe + 1
      /\ line' = 1 /\ current' = NoSymbol /\ low' = 0 /\ offset' = 0 /\ lines' = << >>
      /\ in' = in /\ file' = file /\ count' = count /\ log' = log
  BY DEF LoadEnd, reading
<1>3. /\ in \in Inputs /\ exe \in Executables /\ line \in Nat \ {0} /\ low \in Address
      /\ lines \in Seq(LineType) /\ offset \in Address
  BY <1>1 DEF LoadOK
<1>4. /\ Len(in.dumps[exe]) \in Nat /\ in.loadAddress[exe] \in Int
      /\ in.loadAddress[exe] \in Address /\ in.cpu \in Cpus
  BY <1>3, PlacedFacts, InputFacts
<1>5. Address \subseteq Int
  BY WordAssumption DEF Address
<1>6. last \in Address
  <2>1. in.loadAddress[exe] + offset \in Int
    BY <1>3, <1>4, <1>5
  <2>2. QED
    BY <2>1, WrapType DEF Load
<1>7. ASSUME current # NoSymbol
      PROVE  /\ last < Word - 1
             /\ \A j \in DOMAIN lines : IsInsn(lines[j]) =>
                  lines[j].offset + Room(in.cpu, lines[j]) <= last + 1
             /\ \E j \in DOMAIN lines : Real(in.cpu, lines[j])
  BY <1>2, <1>7, EndedByFile
<1>8. /\ Domains' /\ Table' /\ Tied' /\ MapsFit' /\ UnifiedFit' /\ Paired'
      /\ \A s \in Desired : Clear(unified'[s])
      /\ \A e \in Executables, s \in Desired : Clear(maps'[e][s])
      /\ sizeInBytes' \in [Desired -> Address] /\ phase' \in {next, "exited"}
      /\ \A e \in Executables : e # exe => contents'[e] = contents[e]
  <2> HIDE DEF last, next
  <2>1. QED
    BY <1>2, <1>6, <1>7, FinalizedCurrent
<1>9. Executables' = Executables
  BY <1>2 DEF Executables
<1>10. exe \in Nat /\ Executables \subseteq Nat /\ exe' \in Executables
  <2>1. Len(in.dumps) \in Nat /\ Executables = 1 .. Len(in.dumps)
    BY <1>3, InputFacts DEF Executables
  <2>2. QED
    BY <1>2, <1>3, <2>1
<1>11. LoadOK'
  <2>1. 0 \in Address
    BY WordAssumption DEF Address
  <2>2. QED
    BY <1>1, <1>2, <1>8, <1>9, <1>10, <2>1 DEF LoadOK
<1>12. Position'
  <2>1. in.dumps[exe'] \in Seq(LineType)
    BY <1>3, <1>10, InputFacts
  <2>2. Len(in.dumps[exe']) \in Nat
    BY <2>1, LenProperties
  <2>3. QED
    BY <1>2, <2>2 DEF Position
<1>13. Collected'
  BY <1>2 DEF Collected
<1>14. Behind'
  <2>1. SUFFICES ASSUME phase' = "load" PROVE Behind'
    BY DEF Behind
  <2>2. exe' = exe + 1
    BY <1>2, <1>8, <2>1
  <2>3. \A e \in Executables : e > exe => contents'[e] = {}
    <3>1. \A e \in Executables : e > exe => contents[e] = {}
      BY <1>1, <1>2 DEF Behind
    <3>2. \A e \in Executables : e > exe => e # exe
      BY <1>10
    <3>3. QED
      BY <1>8, <3>1, <3>2
  <2>4. contents'[exe'] = {}
    BY <1>10, <2>2, <2>3
  <2>5. \A e \in Executables : e > exe' => contents'[e] = {}
    <3>1. \A e \in Executables : e > exe' => e > exe
      BY <1>10, <2>2
    <3>2. QED
      BY <2>3, <3>1
  <2>6. QED
    BY <1>9, <2>4, <2>5 DEF Behind
<1>15. Fresh'
  <2>1. /\ file' = 1 /\ log' = << >>
        /\ log' \in Seq([exe : Executables', entry : Entries])
    BY <1>2, <1>9 DEF CovoarInv, Fresh
  <2>2. QED
    BY <1>8, <1>9, <2>1 DEF Fresh
<1>16. QED
  BY <1>8, <1>11, <1>12, <1>13, <1>14, <1>15 DEF CovoarInv

(***************************************************************************)
(* Reading, merging and preprocessing only write into the maps.            *)
(***************************************************************************)
LEMMA PastLoading ==
  ASSUME CovoarInv, phase' # "load", phase' \in {"read", "preprocess", "analyze", "exited"},
         UNCHANGED << in, loading, contents, info, saved, sizeInBytes >>,
         file' \in 1 .. in.files, count' \in 0 .. MaxEntries
  PROVE  /\ LoadOK' /\ Position' /\ Collected' /\ Table' /\ Behind'
         /\ Executables' = Executables
<1>1. /\ in' = in /\ exe' = exe /\ line' = line /\ current' = current /\ low' = low
      /\ offset' = offset /\ lines' = lines /\ contents' = contents
      /\ sizeInBytes' = sizeInBytes
  BY DEF loading
<1>2. Executables' = Executables
  BY <1>1 DEF Executables
<1>3. LoadOK /\ Table
  BY DEF CovoarInv
<1>4. LoadOK'
  BY <1>1, <1>2, <1>3 DEF LoadOK
<1>5. Table'
  BY <1>1, <1>2, <1>3 DEF Table
<1>6. Position' /\ Collected' /\ Behind'
  BY DEF Position, Collected, Behind
<1>7. QED
  BY <1>2, <1>4, <1>5, <1>6

\* An entry makes the maps of one executable grow.
LEMMA EntryGrown ==
  ASSUME CovoarInv, ReadEntry
  PROVE  \A e \in Executables, s \in Desired :
           Fits(maps[e][s]) /\ Grown(maps[e][s], maps'[e][s])
<1>1. LoadOK /\ Domains /\ MapsFit
  BY DEF CovoarInv
<1>3. PICK x \in Entries :
        maps' = [maps EXCEPT ![Reader] =
                   [s \in Desired |-> IF Lookup(Reader, x.pc, s)
                                        THEN Marked(maps[Reader][s], x)
                                        ELSE maps[Reader][s]]]
  BY DEF ReadEntry
<1>6. /\ x \in EntryType /\ CoverUnit \in Nat
      /\ in.format \in {"QEMU", "TSIM", "Skyeye", "RTEMS"}
  <2>1. in \in Inputs
    BY <1>1 DEF LoadOK
  <2>2. QED
    BY <2>1, InputFacts, InputAssumption
<1>7. DOMAIN maps = Executables /\ \A e \in Executables : DOMAIN maps[e] = Desired
  BY <1>1 DEF Domains
<1>8. \A e \in Executables, s \in Desired : Fits(maps[e][s]) /\ Grown(maps[e][s], maps'[e][s])
  <2>1. SUFFICES ASSUME NEW e \in Executables, NEW s \in Desired
                 PROVE  Fits(maps[e][s]) /\ Grown(maps[e][s], maps'[e][s])
    OBVIOUS
  <2>2. Fits(maps[e][s])
    BY <1>1 DEF MapsFit
  <2>3. Grown(maps[e][s], maps[e][s]) /\ Grown(maps[e][s], Marked(maps[e][s], x))
    BY <1>6, <2>2, GrownSelf, MarkedGrown
  <2>4. maps'[e][s] \in {maps[e][s], Marked(maps[e][s], x)}
    BY <1>3, <1>7
  <2>5. QED
    BY <2>2, <2>3, <2>4
<1>9. QED
  BY <1>8

\* Reading an entry keeps the invariant,
LEMMA ReadEntryInv ==
  ASSUME CovoarInv, ReadEntry
  PROVE  CovoarInv'
<1>1. LoadOK /\ Domains /\ Tied /\ MapsFit /\ UnifiedFit /\ Paired /\ Fresh
  BY DEF CovoarInv
<1>2. /\ phase = "read" /\ count < MaxEntries /\ count' = count + 1
      /\ in' = in /\ phase' = phase /\ contents' = contents /\ info' = info
      /\ saved' = saved /\ sizeInBytes' = sizeInBytes /\ unified' = unified /\ file' = file
      /\ UNCHANGED loading
  BY DEF ReadEntry
<1>3. PICK x \in Entries :
        /\ maps' = [maps EXCEPT ![Reader] =
                      [s \in Desired |-> IF Lookup(Reader, x.pc, s)
                                           THEN Marked(maps[Reader][s], x)
                                           ELSE maps[Reader][s]]]
        /\ log' = Append(log, [exe |-> Reader, entry |-> x])
  BY DEF ReadEntry
<1>4. count' \in 0 .. MaxEntries /\ file' \in 1 .. in.files
  <2>1. MaxEntries \in Nat
    BY InputAssumption
  <2>2. count \in 0 .. MaxEntries /\ file \in 1 .. in.files
    BY <1>1 DEF LoadOK
  <2>3. QED
    BY <1>2, <2>1, <2>2
<1>5. /\ LoadOK' /\ Position' /\ Collected' /\ Table' /\ Behind'
      /\ Executables' = Executables
  BY <1>2, <1>4, PastLoading
<1>7. DOMAIN maps = Executables /\ \A e \in Executables : DOMAIN maps[e] = Desired
  BY <1>1 DEF Domains
<1>8. \A e \in Executables, s \in Desired : Fits(maps[e][s]) /\ Grown(maps[e][s], maps'[e][s])
  BY EntryGrown
<1>9. \A e \in Executables, s \in Desired :
        /\ Fits(maps'[e][s]) /\ maps'[e][s].ranges = maps[e][s].ranges
        /\ maps'[e][s].size = maps[e][s].size
  BY <1>8 DEF Grown
<1>10. DOMAIN maps' = Executables /\ \A e \in Executables : DOMAIN maps'[e] = Desired
  BY <1>3, <1>7
<1>11. Domains'
  BY <1>1, <1>2, <1>5, <1>10 DEF Domains
<1>12. Tied'
  BY <1>1, <1>2, <1>5, <1>9 DEF Tied
<1>13. MapsFit'
  BY <1>1, <1>2, <1>5, <1>9 DEF MapsFit, Exists
<1>14. UnifiedFit'
  BY <1>1, <1>2 DEF UnifiedFit
<1>15. Paired'
  BY <1>1, <1>2, <1>5, <1>9 DEF Paired, Exists
<1>16. Fresh'
  <2> DEFINE entry == [exe |-> Reader, entry |-> x]
  <2> DEFINE LT == [exe : Executables, entry : Entries]
  <2>a. log' \in Seq(LT) /\ log' # << >>
    <3>1. in \in Inputs /\ file \in 1 .. in.files
      BY <1>1 DEF LoadOK
    <3>2. entry \in LT
      BY <1>3, <3>1, InputFacts DEF Reader, Executables
    <3>3. log \in Seq(LT) /\ log' = Append(log, entry)
      BY <1>1, <1>3 DEF Fresh
    <3> HIDE DEF entry, LT
    <3>4. QED
      BY <3>2, <3>3, AppendProperties
  <2>1. SUFFICES ASSUME ~in.single, NEW e \in Executables, NEW s \in Desired, e > file
                 PROVE  Clear(maps'[e][s])
    BY <1>2, <1>5, <2>a DEF Fresh
  <2>2. Reader # e
    <3>1. e \in Int /\ file \in Int
      BY <1>1, InputFacts DEF LoadOK
    <3>2. QED
      BY <2>1, <3>1 DEF Reader
  <2>3. maps'[e][s] = maps[e][s]
    BY <1>3, <1>7, <2>2
  <2>4. QED
    BY <1>1, <1>2, <2>1, <2>3 DEF Fresh
<1>17. QED
  BY <1>5, <1>11, <1>12, <1>13, <1>14, <1>15, <1>16 DEF CovoarInv

\* ... merging a coverage file does,
LEMMA EndOfFileInv ==
  ASSUME CovoarInv, EndOfFile
  PROVE  CovoarInv'
<1>1. LoadOK /\ Domains /\ Tied /\ MapsFit /\ UnifiedFit /\ Paired /\ Fresh
  BY DEF CovoarInv
<1>2. /\ phase = "read" /\ count' = 0
      /\ unified' = [s \in Desired |->
                       IF Exists(maps[Reader][s]) THEN MergeCoverageMap(s, maps[Reader][s])
                                                  ELSE unified[s]]
      /\ phase' = IF file = in.files THEN "preprocess" ELSE "read"
      /\ file' = IF file = in.files THEN file ELSE file + 1
      /\ in' = in /\ contents' = contents /\ info' = info /\ maps' = maps
      /\ saved' = saved /\ sizeInBytes' = sizeInBytes /\ log' = log /\ UNCHANGED loading
  BY DEF EndOfFile
<1>3. in \in Inputs /\ file \in 1 .. in.files /\ sizeInBytes \in [Desired -> Address]
  BY <1>1 DEF LoadOK
<1>4. count' \in 0 .. MaxEntries /\ file' \in 1 .. in.files
  <2>1. MaxEntries \in Nat
    BY InputAssumption
  <2>2. in.files \in Nat
    BY <1>3, InputFacts
  <2>3. QED
    BY <1>2, <1>3, <2>1, <2>2
<1>5. /\ LoadOK' /\ Position' /\ Collected' /\ Table' /\ Behind'
      /\ Executables' = Executables
  BY <1>2, <1>4, PastLoading
<1>6. Reader \in Executables
  BY <1>3, InputFacts DEF Reader, Executables
<1>7. ASSUME NEW s \in Desired
      PROVE  /\ Fits(unified'[s])
             /\ unified'[s].ranges = unified[s].ranges /\ unified'[s].size = unified[s].size
             /\ Clear(unified[s]) /\ Clear(maps[Reader][s]) => Clear(unified'[s])
             /\ Exists(unified'[s]) => /\ Unified(unified'[s])
                                       /\ unified'[s].size >= 1
                                       /\ unified'[s].size <= sizeInBytes'[s]
  <2> DEFINE m == maps[Reader][s]
  <2>1. /\ Fits(m) /\ Fits(unified[s])
        /\ Exists(unified[s]) => /\ Unified(unified[s])
                                 /\ unified[s].size >= 1
                                 /\ unified[s].size <= sizeInBytes[s]
    BY <1>1, <1>6 DEF MapsFit, UnifiedFit
  <2>2. unified'[s] = IF Exists(m) THEN MergeCoverageMap(s, m) ELSE unified[s]
    BY <1>2
  <2>3. sizeInBytes[s] \in Nat
    BY <1>3, WordAssumption DEF Address
  <2> HIDE DEF m
  <2>4. CASE unified'[s] = unified[s]
    BY <1>2, <2>1, <2>4
  <2>5. CASE Exists(m) /\ unified'[s] = Merge(unified[s], m, sizeInBytes[s])
    <3>1. Exists(unified[s]) /\ Unified(unified[s])
      BY <1>1, <1>6, <2>1, <2>5 DEF Paired, m
    <3>2. /\ Fits(unified'[s]) /\ unified'[s].ranges = unified[s].ranges
          /\ unified'[s].size = unified[s].size
      BY <2>1, <2>3, <2>5, <3>1, MergeFits
    <3>3. ASSUME Clear(unified[s]), Clear(m) PROVE Clear(unified'[s])
      <4>1. SUFFICES ASSUME NEW o \in 0 .. unified[s].size - 1 PROVE unified'[s].exec[o] = 0
        BY <3>2 DEF Clear
      <4>2. unified'[s].exec[o] = unified[s].exec[o] +
              IF o < sizeInBytes[s] THEN ReadAt(m, m.exec, m.ranges[1].low + o) ELSE 0
        BY <2>1, <2>3, <2>5, <3>1, MergeFits
      <4>3. unified[s].exec[o] = 0
        BY <3>3 DEF Clear
      <4>4. ReadAt(m, m.exec, m.ranges[1].low + o) = 0
        <5>1. m.ranges[1].low \in Int /\ o \in Int
          <6>1. MapOK(m) /\ m.ranges # << >> /\ m.ranges \in Seq([low : Address, high : Address])
            BY <2>1, <2>5 DEF Fits, MapOK, Exists
          <6>2. 1 \in DOMAIN m.ranges
            BY <6>1, EmptySeq, LenProperties
          <6>3. QED
            BY <6>1, <6>2, RangeFacts
        <5>2. m.ranges[1].low + o \in Int
          BY <5>1
        <5>3. InMap(m, m.ranges[1].low + o) => Offset(m, m.ranges[1].low + o) \in 0 .. m.size - 1
          BY <2>1, <5>2, OffsetInBounds
        <5>4. QED
          BY <3>3, <5>3 DEF ReadAt, Clear
      <4>5. QED
        BY <4>2, <4>3, <4>4
    <3>4. QED
      BY <1>2, <2>1, <3>1, <3>2, <3>3 DEF Unified, m
  <2>6. QED
    BY <2>2, <2>4, <2>5 DEF MergeCoverageMap
<1>8. Domains'
  BY <1>1, <1>2, <1>5 DEF Domains
<1>9. Tied'
  <2>1. maps' = maps /\ contents' = contents
    BY <1>2
  <2>2. QED
    BY <1>1, <1>5, <2>1 DEF Tied
<1>10. MapsFit'
  BY <1>1, <1>2, <1>5 DEF MapsFit
<1>11. UnifiedFit'
  BY <1>7 DEF UnifiedFit
<1>12. Paired'
  BY <1>1, <1>2, <1>5, <1>7 DEF Paired, Exists
<1>13. Fresh'
  <2>a. /\ log' \in Seq([exe : Executables', entry : Entries])
        /\ log' = << >> =>
             /\ \A s \in Desired : Clear(unified'[s])
             /\ \A e \in Executables, s \in Desired : Clear(maps'[e][s])
    BY <1>1, <1>2, <1>5, <1>6, <1>7 DEF Fresh
  <2>1. SUFFICES ASSUME phase' = "read", ~in.single, NEW e \in Executables, NEW s \in Desired,
                        e > file'
                 PROVE  Clear(maps'[e][s])
    BY <1>2, <1>5, <2>a DEF Fresh
  <2>2. e > file
    <3>1. e \in Int /\ file \in Int /\ file' = file + 1
      BY <1>2, <1>3, <2>1, InputFacts
    <3>2. QED
      BY <2>1, <3>1
  <2>3. QED
    BY <1>1, <1>2, <2>1, <2>2 DEF Fresh
<1>14. QED
  BY <1>5, <1>8, <1>9, <1>10, <1>11, <1>12, <1>13 DEF CovoarInv

\* ... flagging branches and nops does, and leaves the counts alone,
LEMMA PreprocessInv ==
  ASSUME CovoarInv, Preprocess
  PROVE  /\ CovoarInv'
         /\ \A s \in Desired : unified'[s].size = unified[s].size
                              /\ unified'[s].exec = unified[s].exec
<1>1. LoadOK /\ Domains /\ Tied /\ MapsFit /\ UnifiedFit /\ Paired /\ Fresh
  BY DEF CovoarInv
<1> DEFINE Insns(s)    == {l \in saved[s].instructions : IsInsn(l)}
<1> DEFINE Branches(s) == Flagged(s, {l \in Insns(s) : IsBranch(in.cpu, l.op)})
<1> DEFINE Nops(s)     == Flagged(s, {l \in Insns(s) : IsNop(l)})
<1>2. /\ phase = "preprocess" /\ phase' = "analyze"
      /\ unified' = [s \in Desired |->
                       IF Exists(unified[s])
                         THEN SetNops(SetBranches(unified[s], Branches(s)), Nops(s))
                         ELSE unified[s]]
      /\ in' = in /\ contents' = contents /\ info' = info /\ maps' = maps
      /\ saved' = saved /\ sizeInBytes' = sizeInBytes /\ file' = file /\ count' = count /\ log' = log
      /\ UNCHANGED loading
  BY DEF Preprocess, reading
<1>3. /\ LoadOK' /\ Position' /\ Collected' /\ Table' /\ Behind'
      /\ Executables' = Executables
  <2>1. file' \in 1 .. in.files /\ count' \in 0 .. MaxEntries
    BY <1>1, <1>2 DEF LoadOK
  <2>2. QED
    BY <1>2, <2>1, PastLoading
<1>4. \A s \in Desired : Branches(s) \in SUBSET Int /\ Nops(s) \in SUBSET Int
  <2>1. ASSUME NEW s \in Desired, NEW l \in Insns(s) PROVE Wrap(l.offset - saved[s].base) \in Int
    <3>1. saved[s].instructions \subseteq LineType /\ saved[s].base \in Address
      BY <1>1 DEF Domains
    <3>2. l \in LineType /\ Placed(l)
      BY <2>1, <3>1 DEF IsInsn, Placed
    <3>3. l.offset \in Address
      BY <3>2, LineFacts
    <3>4. Address \subseteq Int
      BY WordAssumption DEF Address
    <3>5. l.offset - saved[s].base \in Int
      <4>1. l.offset \in Int /\ saved[s].base \in Int
        BY <3>1, <3>3, <3>4
      <4>2. QED
        BY <4>1
    <3>6. QED
      BY <3>4, <3>5, WrapType
  <2>2. QED
    BY <2>1 DEF Flagged
<1> HIDE DEF Insns, Branches, Nops
<1>5. ASSUME NEW s \in Desired
      PROVE  /\ Fits(unified'[s])
             /\ unified'[s].ranges = unified[s].ranges /\ unified'[s].size = unified[s].size
             /\ unified'[s].exec = unified[s].exec
             /\ Exists(unified'[s]) => /\ Unified(unified'[s])
                                       /\ unified'[s].size >= 1
                                       /\ unified'[s].size <= sizeInBytes'[s]
  <2>1. /\ Fits(unified[s])
        /\ Exists(unified[s]) => /\ Unified(unified[s])
                                 /\ unified[s].size >= 1
                                 /\ unified[s].size <= sizeInBytes[s]
    BY <1>1 DEF UnifiedFit
  <2> DEFINE b == SetBranches(unified[s], Branches(s))
  <2>2. /\ Fits(b) /\ b.ranges = unified[s].ranges /\ b.size = unified[s].size
        /\ b.exec = unified[s].exec
    BY <1>4, <2>1, FlagsFit
  <2> HIDE DEF b
  <2>3. /\ Fits(SetNops(b, Nops(s))) /\ SetNops(b, Nops(s)).ranges = b.ranges
        /\ SetNops(b, Nops(s)).size = b.size /\ SetNops(b, Nops(s)).exec = b.exec
    BY <1>4, <2>2, FlagsFit
  <2>4. unified'[s] = IF Exists(unified[s]) THEN SetNops(b, Nops(s)) ELSE unified[s]
    BY <1>2 DEF b
  <2>5. QED
    BY <1>2, <2>1, <2>2, <2>3, <2>4 DEF Unified
<1>6. Domains'
  BY <1>1, <1>2, <1>3 DEF Domains
<1>7. Tied'
  BY <1>1, <1>2, <1>3 DEF Tied
<1>8. MapsFit'
  BY <1>1, <1>2, <1>3 DEF MapsFit
<1>9. UnifiedFit'
  BY <1>5 DEF UnifiedFit
<1>10. Paired'
  BY <1>1, <1>2, <1>3, <1>5 DEF Paired, Exists
<1>11. Fresh'
  BY <1>1, <1>2, <1>3, <1>5 DEF Fresh, Clear
<1>12. QED
  BY <1>3, <1>5, <1>6, <1>7, <1>8, <1>9, <1>10, <1>11 DEF CovoarInv

\* ... an unreadable header does,
LEMMA BadHeaderInv ==
  ASSUME CovoarInv, BadHeader
  PROVE  CovoarInv'
<1>1. LoadOK /\ Domains /\ Tied /\ MapsFit /\ UnifiedFit /\ Paired /\ Fresh
  BY DEF CovoarInv
<1>2. /\ phase' = "exited" /\ in' = in /\ contents' = contents /\ info' = info
      /\ maps' = maps /\ saved' = saved /\ sizeInBytes' = sizeInBytes
      /\ unified' = unified /\ file' = file /\ count' = count /\ log' = log /\ UNCHANGED loading
  BY DEF BadHeader, symbols, reading
<1>3. /\ LoadOK' /\ Position' /\ Collected' /\ Table' /\ Behind'
      /\ Executables' = Executables
  <2>1. file' \in 1 .. in.files /\ count' \in 0 .. MaxEntries
    BY <1>1, <1>2 DEF LoadOK
  <2>2. QED
    BY <1>2, <2>1, PastLoading
<1>4. Domains'
  BY <1>1, <1>2, <1>3 DEF Domains
<1>5. Tied'
  BY <1>1, <1>2, <1>3 DEF Tied
<1>6. MapsFit'
  BY <1>1, <1>2, <1>3 DEF MapsFit
<1>7. UnifiedFit' /\ Paired'
  BY <1>1, <1>2, <1>3 DEF UnifiedFit, Paired
<1>8. Fresh'
  BY <1>1, <1>2, <1>3 DEF Fresh
<1>9. QED
  BY <1>3, <1>4, <1>5, <1>6, <1>7, <1>8 DEF CovoarInv

\* ... and a step that changes nothing.
LEMMA StutterInv ==
  ASSUME CovoarInv, UNCHANGED vars
  PROVE  CovoarInv'
<1>1. /\ LoadOK /\ Domains /\ Position /\ Collected /\ Table /\ Behind /\ Tied
      /\ MapsFit /\ UnifiedFit /\ Paired /\ Fresh
  BY DEF CovoarInv
<1>2. /\ in' = in /\ phase' = phase /\ exe' = exe /\ line' = line /\ current' = current
      /\ low' = low /\ offset' = offset /\ lines' = lines /\ contents' = contents
      /\ info' = info /\ maps' = maps /\ saved' = saved /\ sizeInBytes' = sizeInBytes
      /\ unified' = unified /\ file' = file /\ count' = count /\ log' = log
  BY DEF vars
<1>3. Executables' = Executables /\ Rest' = Rest /\ \A k : At(k)' = At(k)
  BY <1>2 DEF Executables, Rest, At
<1>4. LoadOK' /\ Domains' /\ Position'
  BY <1>1, <1>2, <1>3 DEF LoadOK, Domains, Position
<1>5. Collected'
  <2>1. SUFFICES ASSUME phase = "load", current # NoSymbol
                 PROVE  Sorted' /\ Before' /\ RealAhead' /\ RealLast'
    BY <1>2 DEF Collected
  <2>2. Sorted /\ Before /\ RealAhead /\ RealLast
    BY <1>1, <2>1 DEF Collected
  <2>3. Sorted'
    BY <1>2, <2>2 DEF Sorted
  <2>4. Before'
    BY <1>2, <1>3, <2>2 DEF Before
  <2>5. RealAhead' /\ RealLast'
    BY <1>2, <1>3, <2>2 DEF RealAhead, RealLast
  <2>6. QED
    BY <2>3, <2>4, <2>5
<1>6. Table'
  BY <1>1, <1>2, <1>3 DEF Table
<1>7. Behind'
  BY <1>1, <1>2, <1>3 DEF Behind
<1>8. Tied'
  BY <1>1, <1>2, <1>3 DEF Tied
<1>9. MapsFit'
  BY <1>1, <1>2, <1>3 DEF MapsFit
<1>10. UnifiedFit' /\ Paired'
  BY <1>1, <1>2, <1>3 DEF UnifiedFit, Paired
<1>11. Fresh'
  BY <1>1, <1>2, <1>3 DEF Fresh
<1>12. QED
  BY <1>4, <1>5, <1>6, <1>7, <1>8, <1>9, <1>10, <1>11 DEF CovoarInv

\* Every step keeps the invariant for a sound input.
LEMMA NextSoundInv == SoundInv /\ [Next]_vars => SoundInv'
<1>1. SUFFICES ASSUME SoundInv, [Next]_vars, WellFormed(in)' PROVE CovoarInv'
  BY DEF SoundInv
<1>2. in' = in
  BY <1>1 DEF Next, LoadLabel, LoadLine, LoadEnd, ReadEntry, BadHeader, EndOfFile, Preprocess, vars
<1>3. WellFormed(in)
  BY <1>1, <1>2
<1>4. CovoarInv
  BY <1>1, <1>3 DEF SoundInv
<1>5. CASE LoadLabel
  BY <1>3, <1>4, <1>5, LoadLabelInv
<1>6. CASE LoadLine
  BY <1>3, <1>4, <1>6, LoadLineInv
<1>7. CASE LoadEnd
  BY <1>3, <1>4, <1>7, LoadEndInv
<1>8. CASE ReadEntry
  BY <1>4, <1>8, ReadEntryInv
<1>9. CASE BadHeader
  BY <1>4, <1>9, BadHeaderInv
<1>10. CASE EndOfFile
  BY <1>4, <1>10, EndOfFileInv
<1>11. CASE Preprocess
  BY <1>4, <1>11, PreprocessInv
<1>12. CASE UNCHANGED vars
  BY <1>4, <1>12, StutterInv
<1>13. QED
  BY <1>1, <1>5, <1>6, <1>7, <1>8, <1>9, <1>10, <1>11, <1>12 DEF Next

(***************************************************************************)
(* For sound disassemblies the inductive invariant holds throughout.       *)
(***************************************************************************)
THEOREM CovoarInvariant == Spec => []SoundInv
BY InitSoundInv, NextSoundInv, PTL DEF Spec

(***************************************************************************)
(* The variables stay within their types: no offset, length or count of a  *)
(* map leaves the range the code's integers have.                          *)
(***************************************************************************)
THEOREM TypeCorrect == Spec => [](WellFormed(in) => TypeOK)
<1>1. SoundInv => (WellFormed(in) => TypeOK)
  <2>1. SUFFICES ASSUME CovoarInv PROVE TypeOK
    BY DEF SoundInv
  <2>2. LoadOK /\ Domains /\ MapsFit /\ UnifiedFit
    BY <2>1 DEF CovoarInv
  <2>3. \A e \in Executables, s \in Desired : MapOK(maps[e][s])
    BY <2>2 DEF MapsFit, Fits
  <2>4. \A s \in Desired : MapOK(unified[s]) /\ saved[s].instructions \subseteq LineType
    BY <2>2 DEF UnifiedFit, Fits, Domains
  <2>5. QED
    BY <2>2, <2>3, <2>4 DEF TypeOK
<1>2. QED
  BY <1>1, CovoarInvariant, PTL

(***************************************************************************)
(* Every address a coverage map takes for its own indexes its Info         *)
(* (CoverageMapBase.cc 53-77 checks nothing): the ranges of one symbol are *)
(* all as long as the first.                                               *)
(***************************************************************************)
THEOREM OffsetsStayInBounds == Spec => [](WellFormed(in) => InfoInBounds)
<1>1. SoundInv => (WellFormed(in) => InfoInBounds)
  BY FitsInBounds DEF SoundInv, CovoarInv, MapsFit, UnifiedFit, InfoInBounds
<1>2. QED
  BY <1>1, CovoarInvariant, PTL

(***************************************************************************)
(* getCoverageMap finds the map of a symbol for exactly the addresses of   *)
(* the map (ExecutableInfo.cc 54-68, SymbolTable.cc 86-106): the ranges in *)
(* the symbol table do not overlap, so the first one that ends behind an   *)
(* address is the one that holds it.                                       *)
(***************************************************************************)
LEMMA LookupFacts ==
  ASSUME CovoarInv, NEW e \in Executables, NEW s \in Desired, NEW x \in Int
  PROVE  Lookup(e, x, s) <=> Exists(maps[e][s]) /\ InMap(maps[e][s], x)
<1> DEFINE m == maps[e][s]
<1>1. /\ contents[e] \subseteq [low : Address, high : Address, symbol : Desired]
      /\ \A t \in contents[e] : t.low <= t.high
      /\ \A t, u \in contents[e] : t = u \/ t.high < u.low \/ u.high < t.low
  BY DEF CovoarInv, Table
<1>2. /\ \A i \in DOMAIN m.ranges :
           [low |-> m.ranges[i].low, high |-> m.ranges[i].high, symbol |-> s] \in contents[e]
      /\ \A t \in contents[e] : t.symbol = s =>
           \E i \in DOMAIN m.ranges : m.ranges[i].low = t.low /\ m.ranges[i].high = t.high
  BY DEF CovoarInv, Tied
<1>3. \A t \in contents[e] : t.low \in Int /\ t.high \in Int
  <2>1. Address \subseteq Int
    BY WordAssumption DEF Address
  <2>2. QED
    BY <1>1, <2>1
<1> HIDE DEF m
<1>4. ASSUME Lookup(e, x, s) PROVE Exists(m) /\ InMap(m, x)
  <2>1. PICK t \in contents[e] : t.symbol = s /\ x <= t.high /\ t.low <= x
    BY <1>4 DEF Lookup
  <2>2. PICK i \in DOMAIN m.ranges : m.ranges[i].low = t.low /\ m.ranges[i].high = t.high
    BY <1>2, <2>1
  <2>3. InMap(m, x)
    BY <2>1, <2>2 DEF InMap, Holds
  <2>4. m.ranges # << >>
    BY <2>2
  <2>5. QED
    BY <2>3, <2>4 DEF Exists
<1>5. ASSUME InMap(m, x) PROVE Lookup(e, x, s)
  <2>1. PICK i \in DOMAIN m.ranges : m.ranges[i].low <= x /\ x <= m.ranges[i].high
    BY <1>5 DEF InMap, Holds
  <2> DEFINE t == [low |-> m.ranges[i].low, high |-> m.ranges[i].high, symbol |-> s]
  <2>2. t \in contents[e] /\ t.symbol = s /\ t.low <= x /\ x <= t.high
    BY <1>2, <2>1
  <2> HIDE DEF t
  <2>3. ASSUME NEW u \in contents[e], x <= u.high PROVE t.high <= u.high
    BY <1>1, <1>3, <2>2, <2>3
  <2>4. QED
    BY <2>2, <2>3 DEF Lookup
<1>6. QED
  BY <1>4, <1>5 DEF m

\* The symbol table and the coverage maps agree on every address.
THEOREM LookupCorrect == Spec => [](WellFormed(in) => LookupExact)
<1>1. SoundInv => (WellFormed(in) => LookupExact)
  <2>1. Address \subseteq Int
    BY WordAssumption DEF Address
  <2>2. QED
    BY <2>1, LookupFacts DEF SoundInv, LookupExact
<1>2. QED
  BY <1>1, CovoarInvariant, PTL
-----------------------------------------------------------------------------
(***************************************************************************)
(* Covoar implements CoverageLedger.                                       *)
(***************************************************************************)
Covered == BytesIn(unified)
Seen    == BytesIn(maps[Reader])

\* What it is for a byte of a symbol to be covered.
LEMMA BytesInFacts ==
  ASSUME NEW of, NEW b
  PROVE  b \in BytesIn(of) <=> \E s \in Desired : \E o \in DOMAIN of[s].exec :
                                b = << s, o >> /\ OneSize(s) /\ of[s].exec[o] > 0
BY DEF BytesIn

\* The open file is that of an executable, and its maps hold counts.
LEMMA ReaderFacts ==
  ASSUME CovoarInv
  PROVE  /\ Reader \in Executables
         /\ \A e \in Executables, s \in Desired :
              /\ Fits(maps[e][s]) /\ Fits(unified[s])
              /\ maps[e][s].exec \in [0 .. maps[e][s].size - 1 -> Nat]
              /\ unified[s].exec \in [0 .. unified[s].size - 1 -> Nat]
<1>1. in \in Inputs /\ file \in 1 .. in.files
  BY DEF CovoarInv, LoadOK
<1>2. Reader \in Executables
  BY <1>1, InputFacts DEF Reader, Executables
<1>3. \A e \in Executables, s \in Desired : Fits(maps[e][s]) /\ Fits(unified[s])
  BY DEF CovoarInv, MapsFit, UnifiedFit
<1>4. ASSUME NEW m, Fits(m) PROVE m.exec \in [0 .. m.size - 1 -> Nat]
  BY <1>4 DEF Fits, MapOK
<1>5. QED
  BY <1>2, <1>3, <1>4

\* When executables agree on the size of a symbol, all its maps have it.
LEMMA SizesEqual ==
  ASSUME CovoarInv, NEW e \in Executables, NEW s \in Desired, OneSize(s), Exists(maps[e][s])
  PROVE  /\ Exists(unified[s]) /\ Unified(unified[s])
         /\ maps[e][s].size = sizeInBytes[s] /\ unified[s].size = sizeInBytes[s]
<1>1. maps[e][s].size = sizeInBytes[s] /\ Exists(unified[s])
  BY DEF OneSize, CovoarInv, Paired
<1>2. PICK f \in Executables : Exists(maps[f][s]) /\ maps[f][s].size = unified[s].size
  BY <1>1 DEF CovoarInv, Paired
<1>3. unified[s].size = sizeInBytes[s]
  BY <1>2 DEF OneSize
<1>4. Unified(unified[s])
  BY <1>1 DEF CovoarInv, UnifiedFit
<1>5. QED
  BY <1>1, <1>3, <1>4

SizesAgreed ==
  \A e \in Executables, s \in Desired :
    OneSize(s) /\ Exists(maps[e][s]) => maps[e][s].size = unified[s].size

\* When all executables have the symbol at one size, so has the unified map.
LEMMA SizesAgree == CovoarInv => SizesAgreed
BY SizesEqual DEF SizesAgreed

\* mergeCoverage adds the counts of a map to those of its symbol.
LEMMA MergeAdds ==
  ASSUME CovoarInv, EndOfFile, NEW s \in Desired, OneSize(s)
  PROVE  /\ DOMAIN unified'[s].exec = DOMAIN unified[s].exec
         /\ DOMAIN maps[Reader][s].exec \subseteq DOMAIN unified[s].exec
         /\ \A o \in DOMAIN unified[s].exec :
              /\ unified[s].exec[o] \in Nat
              /\ IF Exists(maps[Reader][s])
                   THEN /\ o \in DOMAIN maps[Reader][s].exec
                        /\ maps[Reader][s].exec[o] \in Nat
                        /\ unified'[s].exec[o] = unified[s].exec[o] + maps[Reader][s].exec[o]
                   ELSE /\ unified'[s].exec[o] = unified[s].exec[o]
                        /\ o \notin DOMAIN maps[Reader][s].exec
<1> DEFINE m == maps[Reader][s]
<1> DEFINE d == unified[s]
<1>1. Reader \in Executables
  BY ReaderFacts
<1>2. /\ Fits(m) /\ Fits(d)
      /\ m.exec \in [0 .. m.size - 1 -> Nat] /\ d.exec \in [0 .. d.size - 1 -> Nat]
  BY <1>1, ReaderFacts
<1>3. Exists(m) => /\ m.size = sizeInBytes[s] /\ Exists(d) /\ Unified(d)
                   /\ d.size = sizeInBytes[s]
  BY <1>1, SizesEqual
<1>4. unified'[s] = IF Exists(m) THEN MergeCoverageMap(s, m) ELSE d
  BY DEF EndOfFile
<1>5. ~Exists(m) => m.size = 0
  BY <1>1 DEF CovoarInv, MapsFit
<1>6. Exists(m) => MergeCoverageMap(s, m) = Merge(d, m, d.size)
  BY <1>3 DEF MergeCoverageMap
<1> HIDE DEF m, d
<1>7. CASE Exists(m)
  <2>1. unified'[s] = Merge(d, m, d.size) /\ m.size = d.size
    BY <1>3, <1>4, <1>6, <1>7
  <2>2. d.size \in Nat
    BY <1>2, WordAssumption DEF Fits, MapOK, Address
  <2>3. Fits(unified'[s]) /\ unified'[s].size = d.size
    BY <1>2, <1>3, <1>7, <2>1, <2>2, MergeFits
  <2>4. DOMAIN unified'[s].exec = 0 .. d.size - 1
    BY <2>3 DEF Fits, MapOK
  <2>5. \A o \in 0 .. d.size - 1 : unified'[s].exec[o] = d.exec[o] + m.exec[o]
    BY <1>2, <1>3, <1>7, <2>1, MergeSame
  <2>6. \A o \in 0 .. d.size - 1 : d.exec[o] \in Nat /\ m.exec[o] \in Nat
    BY <1>2, <2>1
  <2>7. QED
    BY <1>2, <1>7, <2>1, <2>4, <2>5, <2>6 DEF m, d
<1>8. CASE ~Exists(m)
  <2>1. unified'[s] = d /\ DOMAIN m.exec = {}
    BY <1>2, <1>4, <1>5, <1>8
  <2>2. \A o \in DOMAIN d.exec : d.exec[o] \in Nat
    BY <1>2
  <2>3. QED
    BY <1>8, <2>1, <2>2 DEF m, d
<1>9. QED
  BY <1>7, <1>8

\* Before any coverage file is read nothing is covered.
LEMMA ClearNothing == CovoarInv /\ log = << >> => Covered = {} /\ Seen = {}
<1> SUFFICES ASSUME CovoarInv, log = << >> PROVE Covered = {} /\ Seen = {}
  OBVIOUS
<1>1. /\ \A s \in Desired : Clear(unified[s])
      /\ \A s \in Desired : Clear(maps[Reader][s])
  BY ReaderFacts DEF CovoarInv, Fresh
<1>2. /\ \A s \in Desired : \A o \in DOMAIN unified[s].exec : unified[s].exec[o] = 0
      /\ \A s \in Desired : \A o \in DOMAIN maps[Reader][s].exec : maps[Reader][s].exec[o] = 0
  BY <1>1, ReaderFacts DEF Clear
<1>3. QED
  BY <1>2, BytesInFacts DEF Covered, Seen

\* The ledger starts out empty.
LEMMA LedgerInit ==
  ASSUME Init, WellFormed(in)
  PROVE  Ledger!Init
<1>1. CovoarInv
  BY InitSoundInv DEF SoundInv
<1>2. log = << >> /\ phase = "load" /\ file = 1
  BY DEF Init
<1>3. Covered = {} /\ Seen = {}
  BY <1>1, <1>2, ClearNothing
<1>4. FilesMerged = 0
  BY <1>2 DEF FilesMerged
<1>5. QED
  BY <1>3, <1>4 DEF Ledger!Init, Covered, Seen

\* What the ledger keeps: the steps that leave it alone.
LedgerSame ==
  FilesMerged' = FilesMerged /\ Covered' = Covered /\ (Seen \ Covered)' = Seen \ Covered

\* Loading a disassembly leaves the ledger alone,
LEMMA LedgerLoad ==
  ASSUME CovoarInv, CovoarInv', LoadLabel \/ LoadLine \/ LoadEnd
  PROVE  LedgerSame
<1>1. phase = "load" /\ log' = log /\ file' = file /\ in' = in
  BY DEF LoadLabel, LoadLine, LoadEnd, reading
<1>2. log = << >>
  BY <1>1 DEF CovoarInv, Fresh
<1>3. Covered = {} /\ Seen = {}
  BY <1>2, ClearNothing
<1>4. Covered' = {} /\ Seen' = {}
  <2>1. CovoarInv' /\ (log = << >>)' => (Covered = {} /\ Seen = {})'
    BY ClearNothing, PTL
  <2>2. QED
    BY <1>1, <1>2, <2>1
<1>5. phase' \in {"load", "read", "exited"}
  BY <1>1 DEF LoadLabel, LoadLine, LoadEnd, FinalizeCurrent, FinalizeSymbol
<1>6. FilesMerged = file - 1 /\ FilesMerged' = file - 1
  BY <1>1, <1>5 DEF FilesMerged
<1>7. QED
  BY <1>3, <1>4, <1>6 DEF LedgerSame

\* Steps that change neither ranges nor sizes leave OneSize alone, and so the
\* bytes of a family of maps whose counts stay.
LEMMA SameSizes ==
  ASSUME in' = in, sizeInBytes' = sizeInBytes,
         \A e \in Executables, s \in Desired :
           maps'[e][s].ranges = maps[e][s].ranges /\ maps'[e][s].size = maps[e][s].size
  PROVE  \A s \in Desired : OneSize(s)' <=> OneSize(s)
<1>1. Executables' = Executables
  BY DEF Executables
<1>2. QED
  BY <1>1 DEF OneSize, Exists

\* ... as do an unreadable header
LEMMA LedgerBadHeader ==
  ASSUME BadHeader
  PROVE  LedgerSame
<1>1. /\ phase = "read" /\ phase' = "exited" /\ in' = in /\ maps' = maps
      /\ unified' = unified /\ sizeInBytes' = sizeInBytes /\ file' = file
  BY DEF BadHeader, symbols, reading
<1>2. FilesMerged' = FilesMerged
  BY <1>1 DEF FilesMerged
<1>3. \A s \in Desired : OneSize(s)' <=> OneSize(s)
  BY <1>1, SameSizes
<1>4. Covered' = Covered /\ Seen' = Seen
  BY <1>1, <1>3 DEF Covered, Seen, BytesIn, Reader
<1>5. QED
  BY <1>2, <1>4 DEF LedgerSame

\* ... and the flags.
LEMMA LedgerPreprocess ==
  ASSUME CovoarInv, Preprocess
  PROVE  LedgerSame
<1>1. /\ phase = "preprocess" /\ phase' = "analyze" /\ in' = in /\ maps' = maps
      /\ sizeInBytes' = sizeInBytes /\ file' = file
  BY DEF Preprocess, reading
<1>2. FilesMerged' = FilesMerged
  BY <1>1 DEF FilesMerged
<1>3. \A s \in Desired : OneSize(s)' <=> OneSize(s)
  BY <1>1, SameSizes
<1>4. \A s \in Desired : unified'[s].exec = unified[s].exec
  BY PreprocessInv
<1>5. Covered' = Covered
  BY <1>3, <1>4 DEF Covered, BytesIn
<1>6. Seen' = Seen
  BY <1>1, <1>3 DEF Seen, BytesIn, Reader
<1>7. QED
  BY <1>2, <1>5, <1>6 DEF LedgerSame

\* The entries read from the open file are seen.
LEMMA LedgerReadEntry ==
  ASSUME CovoarInv, CovoarInv', ReadEntry
  PROVE  Ledger!See
<1>1. /\ phase = "read" /\ phase' = "read" /\ in' = in /\ unified' = unified
      /\ sizeInBytes' = sizeInBytes /\ file' = file
  BY DEF ReadEntry
<1>2. FilesMerged' = FilesMerged
  BY <1>1 DEF FilesMerged
<1>3. \A e \in Executables, s \in Desired :
        Fits(maps[e][s]) /\ Grown(maps[e][s], maps'[e][s])
  BY EntryGrown
<1>4. \A s \in Desired : OneSize(s)' <=> OneSize(s)
  BY <1>1, <1>3, SameSizes DEF Grown
<1>5. Covered' = Covered
  BY <1>1, <1>4 DEF Covered, BytesIn
<1>6. Reader' = Reader /\ Reader \in Executables
  BY <1>1, ReaderFacts DEF Reader
<1>7. Seen \subseteq Seen'
  <2>1. SUFFICES ASSUME NEW s \in Desired, NEW o \in DOMAIN maps[Reader][s].exec, OneSize(s),
                        maps[Reader][s].exec[o] > 0
                 PROVE  << s, o >> \in Seen'
    BY BytesInFacts DEF Seen
  <2> DEFINE m == maps[Reader][s]
  <2> DEFINE n == maps'[Reader][s]
  <2>2. Fits(m) /\ Grown(m, n)
    BY <1>3, <1>6
  <2>3. n = maps[Reader][s]'
    BY <1>6
  <2> HIDE DEF m, n
  <2>4. m.exec \in [0 .. m.size - 1 -> Nat] /\ n.exec \in [0 .. m.size - 1 -> Nat]
    BY <2>2 DEF Grown, Fits, MapOK
  <2>5. o \in 0 .. m.size - 1 /\ m.exec[o] > 0
    BY <2>1, <2>4 DEF m
  <2>6. n.exec[o] > 0 /\ o \in DOMAIN n.exec
    <3>1. n.exec[o] >= m.exec[o] /\ n.exec[o] \in Nat /\ m.exec[o] \in Nat
      BY <2>2, <2>4, <2>5 DEF Grown
    <3>2. n.exec[o] > 0
      BY <2>5, <3>1
    <3>3. o \in DOMAIN n.exec
      BY <2>4, <2>5
    <3>4. QED
      BY <3>2, <3>3
  <2>7. OneSize(s)'
    BY <1>4, <2>1
  <2>8. QED
    BY <2>3, <2>6, <2>7 DEF Seen, BytesIn
<1>8. QED
  BY <1>2, <1>5, <1>7 DEF Ledger!See, Covered, Seen

\* Merging the open file commits what was seen in it.
LEMMA LedgerEndOfFile ==
  ASSUME CovoarInv, CovoarInv', EndOfFile
  PROVE  Ledger!Commit
<1>1. /\ phase = "read" /\ in' = in /\ maps' = maps /\ sizeInBytes' = sizeInBytes
      /\ unified' = [s \in Desired |->
                       IF Exists(maps[Reader][s]) THEN MergeCoverageMap(s, maps[Reader][s])
                                                  ELSE unified[s]]
      /\ phase' = IF file = in.files THEN "preprocess" ELSE "read"
      /\ file' = IF file = in.files THEN file ELSE file + 1
  BY DEF EndOfFile
<1>2. in \in Inputs /\ file \in 1 .. in.files /\ in.files \in Nat
  BY InputFacts DEF CovoarInv, LoadOK
<1>3. FilesMerged' = FilesMerged + 1
  BY <1>1, <1>2 DEF FilesMerged
<1>4. \A s \in Desired : OneSize(s)' <=> OneSize(s)
  BY <1>1, SameSizes
<1>5. Reader \in Executables /\ Reader' \in Executables
  <2>1. CovoarInv' => (Reader \in Executables)'
    BY ReaderFacts, PTL
  <2>2. Executables' = Executables
    BY <1>1 DEF Executables
  <2>3. QED
    BY <2>1, <2>2, ReaderFacts
\* Byte by byte, for the symbols of one size.
<1>6. ASSUME NEW s \in Desired, OneSize(s)
      PROVE  /\ DOMAIN unified'[s].exec = DOMAIN unified[s].exec
             /\ DOMAIN maps[Reader][s].exec \subseteq DOMAIN unified[s].exec
             /\ \A o \in DOMAIN unified[s].exec :
                  unified'[s].exec[o] > 0 <=>
                    \/ unified[s].exec[o] > 0
                    \/ o \in DOMAIN maps[Reader][s].exec /\ maps[Reader][s].exec[o] > 0
  <2>1. ASSUME NEW o \in DOMAIN unified[s].exec
        PROVE  unified'[s].exec[o] > 0 <=>
                 \/ unified[s].exec[o] > 0
                 \/ o \in DOMAIN maps[Reader][s].exec /\ maps[Reader][s].exec[o] > 0
    BY <1>6, MergeAdds
  <2>2. QED
    BY <1>6, <2>1, MergeAdds
<1>7. Covered' = Covered \cup Seen
  <2>1. \A b : b \in Covered' <=>
          \E s \in Desired : \E o \in DOMAIN unified'[s].exec :
            b = << s, o >> /\ OneSize(s) /\ unified'[s].exec[o] > 0
    BY <1>4 DEF Covered, BytesIn
  <2>2. \A b : b \in Covered \cup Seen <=>
          \E s \in Desired : \/ \E o \in DOMAIN unified[s].exec :
                                 b = << s, o >> /\ OneSize(s) /\ unified[s].exec[o] > 0
                            \/ \E o \in DOMAIN maps[Reader][s].exec :
                                 b = << s, o >> /\ OneSize(s) /\ maps[Reader][s].exec[o] > 0
    BY BytesInFacts DEF Covered, Seen
  <2>3. \A b : b \in Covered' <=> b \in Covered \cup Seen
    BY <1>6, <2>1, <2>2
  <2>4. QED
    BY <2>3
\* What the maps of the next executable hold, if it is another one.
<1>8. Seen' \subseteq Covered'
  <2>1. SUFFICES ASSUME NEW s \in Desired, OneSize(s), NEW o \in DOMAIN maps[Reader'][s].exec,
                        maps[Reader'][s].exec[o] > 0
                 PROVE  << s, o >> \in Covered'
    BY <1>1, <1>4 DEF Seen, BytesIn
  <2>2. CASE Reader' = Reader
    <3>1. << s, o >> \in Seen
      BY <2>1, <2>2 DEF Seen, BytesIn
    <3>2. QED
      BY <1>7, <3>1
  <2>3. CASE Reader' # Reader
    <3>1. ~in.single /\ Reader' = file + 1 /\ Reader' > file
      BY <1>1, <1>2, <2>3 DEF Reader
    <3>2. Clear(maps[Reader'][s])
      BY <1>1, <1>5, <3>1 DEF CovoarInv, Fresh
    <3>3. DOMAIN maps[Reader'][s].exec = 0 .. maps[Reader'][s].size - 1
      BY <1>5, ReaderFacts
    <3>4. QED
      BY <2>1, <3>2, <3>3 DEF Clear
  <2>4. QED
    BY <2>2, <2>3
<1>9. /\ Covered' = Covered \cup (Seen \ Covered)
      /\ (Seen \ Covered)' = {}
  BY <1>7, <1>8
<1>10. QED
  BY <1>3, <1>9 DEF Ledger!Commit, Covered, Seen

(***************************************************************************)
(* Each coverage file is committed as a whole: what its entries add to the *)
(* maps of their executable beyond the unified maps is merged into these   *)
(* by mergeCoverage, all of it and once, whether every file belongs to an  *)
(* executable of its own or all to one (ExecutableInfo.cc 116-122,         *)
(* DesiredSymbols.cc 623-690).                                             *)
(***************************************************************************)
THEOREM Ledgers == Spec /\ WellFormed(in) => LedgerSpec
<1>1. Init /\ WellFormed(in) => Ledger!Init
  BY LedgerInit
<1>2. WellFormed(in) /\ [Next]_vars => WellFormed(in)'
  BY DEF Next, LoadLabel, LoadLine, LoadEnd, ReadEntry, BadHeader, EndOfFile, Preprocess, vars
<1>3. WellFormed(in) /\ SoundInv /\ SoundInv' /\ [Next]_vars =>
        [Ledger!Next]_<< FilesMerged, Covered, Seen \ Covered >>
  <2>1. SUFFICES ASSUME CovoarInv, CovoarInv', [Next]_vars
                 PROVE  Ledger!Next \/ LedgerSame
    BY <1>2 DEF SoundInv, LedgerSame
  <2>2. CASE LoadLabel \/ LoadLine \/ LoadEnd
    BY <2>1, <2>2, LedgerLoad
  <2>3. CASE ReadEntry
    BY <2>1, <2>3, LedgerReadEntry DEF Ledger!Next
  <2>4. CASE BadHeader
    BY <2>4, LedgerBadHeader
  <2>5. CASE EndOfFile
    BY <2>1, <2>5, LedgerEndOfFile DEF Ledger!Next
  <2>6. CASE Preprocess
    BY <2>1, <2>6, LedgerPreprocess
  <2>7. CASE UNCHANGED vars
    <3>1. /\ in' = in /\ phase' = phase /\ maps' = maps /\ unified' = unified
          /\ sizeInBytes' = sizeInBytes /\ file' = file
      BY <2>7 DEF vars
    <3>2. \A s \in Desired : OneSize(s)' <=> OneSize(s)
      BY <3>1, SameSizes
    <3>3. QED
      BY <3>1, <3>2 DEF LedgerSame, FilesMerged, Covered, Seen, BytesIn, Reader
  <2>8. QED
    BY <2>1, <2>2, <2>3, <2>4, <2>5, <2>6, <2>7 DEF Next
<1>4. Spec => []SoundInv
  BY CovoarInvariant
<1>5. QED
  BY <1>1, <1>2, <1>3, <1>4, PTL DEF Spec, LedgerSpec, Ledger!Spec, Covered, Seen
-----------------------------------------------------------------------------
(***************************************************************************)
(* The counts.  An entry raises the count of each offset by the number of  *)
(* its addresses with that offset.                                         *)
(***************************************************************************)
LEMMA MarkedCounts ==
  ASSUME NEW m, Fits(m), NEW x \in EntryType, in.format \in {"QEMU", "TSIM", "Skyeye", "RTEMS"},
         CoverUnit \in Nat
  PROVE  \A o \in 0 .. m.size - 1 : Marked(m, x).exec[o] = m.exec[o] + Hits(m, ExecutedBy(x), o)
<1>1. x.pc \in Int /\ x.size \in Int
  BY WordAssumption DEF EntryType, Address
<1>2. /\ IsFiniteSet(x.pc .. x.pc + x.size - 1) /\ IsFiniteSet({x.pc})
      /\ IsFiniteSet(x.pc .. x.pc + CoverUnit - 1)
  <2>1. x.pc + x.size - 1 \in Int /\ x.pc + CoverUnit - 1 \in Int
    BY <1>1
  <2>2. QED
    BY <1>1, <2>1, FS_Interval, FS_Singleton
<1>3. m.exec \in [0 .. m.size - 1 -> Nat]
  BY DEF Fits, MapOK
<1>4. ASSUME NEW n, NEW X, IsFiniteSet(X), n.exec = SetExecuted(m, X).exec
      PROVE  \A o \in 0 .. m.size - 1 : n.exec[o] = m.exec[o] + Hits(m, X, o)
  <2>1. n.exec = Raised(m, m.exec, X)
    BY <1>4, ExecutedGrown
  <2>2. \A o \in 0 .. m.size - 1 : Raised(m, m.exec, X)[o] = m.exec[o] + Hits(m, X, o)
    <3> DEFINE S == 0 .. m.size - 1
    <3> DEFINE f == m.exec
    <3>1. f \in [S -> Nat] /\ IsFiniteSet(X)
      BY <1>3, <1>4
    <3> HIDE DEF S, f
    <3>2. \A o \in S : Raised(m, f, X)[o] = f[o] + Hits(m, X, o)
      BY <3>1, RaisedFacts
    <3>3. QED
      BY <3>2 DEF S, f
  <2>3. QED
    BY <2>1, <2>2
<1>5. CASE "block" \notin x.op
  <2>1. ExecutedBy(x) = {}
    BY <1>5 DEF ExecutedBy
  <2>2. \A o : Hits(m, {}, o) = 0
    <3>1. \A o : {y \in {} : InMap(m, y) /\ Offset(m, y) = o} = {}
      OBVIOUS
    <3>2. QED
      BY <3>1, FS_EmptySet DEF Hits
  <2>3. Marked(m, x).exec = m.exec
    <3>1. CASE in.format = "QEMU"
      <4>1. \/ Marked(m, x) = m
            \/ \E op, y : Marked(m, x) = Directions(m, op, y)
        BY <1>5, <3>1 DEF Marked, MarkQEMU
      <4>2. QED
        BY <4>1, DirectionsGrown
    <3>2. CASE in.format \in {"TSIM", "Skyeye", "RTEMS"}
      <4>1. Marked(m, x) = m
        BY <1>5, <3>2 DEF Marked, MarkTSIM, MarkSkyeye, MarkRTEMS
      <4>2. QED
        BY <4>1
    <3>3. QED
      BY <3>1, <3>2
  <2>4. \A o \in 0 .. m.size - 1 : m.exec[o] \in Nat
    BY <1>3
  <2>5. QED
    BY <2>1, <2>2, <2>3, <2>4
<1>6. CASE "block" \in x.op /\ in.format = "QEMU"
  <2> DEFINE X == x.pc .. x.pc + x.size - 1
  <2>1. ExecutedBy(x) = X
    BY <1>6 DEF ExecutedBy
  <2> DEFINE marked == SetExecuted(m, X)
  <2>2. Fits(marked)
    BY <1>2, ExecutedGrown DEF Grown
  <2>3. \/ Marked(m, x) = marked
        \/ \E op, y : Marked(m, x) = Directions(marked, op, y)
    BY <1>6 DEF Marked, MarkQEMU
  <2> HIDE DEF marked
  <2>4. Marked(m, x).exec = marked.exec
    BY <2>2, <2>3, DirectionsGrown
  <2> HIDE DEF X
  <2>5. IsFiniteSet(X)
    BY <1>2 DEF X
  <2>6. QED
    BY <1>4, <2>1, <2>4, <2>5 DEF marked
<1>7. CASE "block" \in x.op /\ in.format \in {"TSIM", "Skyeye"}
  <2> DEFINE X == x.pc .. x.pc + CoverUnit - 1
  <2>1. ExecutedBy(x) = X
    BY <1>7 DEF ExecutedBy
  <2> DEFINE marked == SetExecuted(m, X)
  <2>2. Fits(marked)
    BY <1>2, ExecutedGrown DEF Grown
  <2>3. \/ Marked(m, x) = marked
        \/ \E op, y : Marked(m, x) = Directions(marked, op, y)
    BY <1>7 DEF Marked, MarkTSIM, MarkSkyeye
  <2> HIDE DEF marked
  <2>4. Marked(m, x).exec = marked.exec
    BY <2>2, <2>3, DirectionsGrown
  <2> HIDE DEF X
  <2>5. IsFiniteSet(X)
    BY <1>2 DEF X
  <2>6. QED
    BY <1>4, <2>1, <2>4, <2>5 DEF marked
<1>8. CASE "block" \in x.op /\ in.format = "RTEMS"
  <2>1. ExecutedBy(x) = x.pc .. x.pc + 1 - 1
    BY <1>8 DEF ExecutedBy
  <2>2. x.pc .. x.pc + 1 - 1 = {x.pc}
    BY <1>1
  <2>3. Marked(m, x) = SetExecuted(m, {x.pc})
    BY <1>8 DEF Marked, MarkRTEMS
  <2>4. QED
    BY <1>2, <1>4, <2>1, <2>2, <2>3
<1>9. QED
  BY <1>5, <1>6, <1>7, <1>8

\* Only the ranges of a map say which addresses are in it.
LEMMA SameRanges ==
  ASSUME NEW m, NEW n, n.ranges = m.ranges
  PROVE  \A x : (InMap(n, x) <=> InMap(m, x)) /\ Offset(n, x) = Offset(m, x)
BY DEF InMap, Offset

\* An entry stands for finitely many addresses.
LEMMA ExecutedByFinite ==
  ASSUME NEW x \in EntryType, CoverUnit \in Nat
  PROVE  IsFiniteSet(ExecutedBy(x))
<1>1. x.pc \in Int /\ x.size \in Int
  BY WordAssumption DEF EntryType, Address
<1> DEFINE n == CASE in.format = "QEMU"  -> x.size
                  [] in.format = "RTEMS" -> 1
                  [] OTHER               -> CoverUnit
<1>2. n \in Int
  BY <1>1
<1>3. ExecutedBy(x) = {} \/ ExecutedBy(x) = x.pc .. x.pc + n - 1
  BY DEF ExecutedBy
<1> HIDE DEF n
<1>4. x.pc + n - 1 \in Int
  BY <1>1, <1>2
<1>5. QED
  BY <1>1, <1>3, <1>4, FS_Interval, FS_EmptySet

(***************************************************************************)
(* The invariant behind CountsExact: what the unified map holds and what   *)
(* the map of the executable whose file is open holds make up what all     *)
(* entries read so far say.                                                *)
(***************************************************************************)
Open(s, o) == IF phase = "read" /\ Exists(maps[file][s]) THEN maps[file][s].exec[o] ELSE 0
Counting ==
  phase \in {"read", "preprocess", "analyze"} /\ ~in.single =>
    \A s \in Desired : OneSize(s) =>
      \A o \in DOMAIN unified[s].exec : Executions(s, o) = unified[s].exec[o] + Open(s, o)

\* The executions one entry adds to byte o of a map.
Adds(m, x, o) ==
  Cardinality({y \in ExecutedBy(x) : InMap(m, x.pc) /\ InMap(m, y) /\ Offset(m, y) = o})
Counts(s, o) == [k \in DOMAIN log |-> Adds(maps[log[k].exe][s], log[k].entry, o)]

\* Executions is the sum of what each entry of the log counts.
LEMMA ExecutionsSum ==
  ASSUME NEW s, NEW o
  PROVE  Executions(s, o) = SumFunctionOnSet(Counts(s, o), DOMAIN log)
<1>1. Executions(s, o) = SumFunction(Counts(s, o))
  BY DEF Executions, Counts, Adds
<1>2. DOMAIN Counts(s, o) = DOMAIN log
  BY DEF Counts
<1>3. QED
  BY <1>1, <1>2 DEF SumFunction

\* What an entry counts for a byte is what SetExecuted raises it by.
LEMMA AddsFacts ==
  ASSUME NEW m, NEW x \in EntryType, NEW o, CoverUnit \in Nat
  PROVE  /\ Adds(m, x, o) \in Nat
         /\ InMap(m, x.pc) => Adds(m, x, o) = Hits(m, ExecutedBy(x), o)
         /\ ~InMap(m, x.pc) => Adds(m, x, o) = 0
<1> DEFINE Y == {y \in ExecutedBy(x) : InMap(m, x.pc) /\ InMap(m, y) /\ Offset(m, y) = o}
<1>1. Y \subseteq ExecutedBy(x) /\ IsFiniteSet(ExecutedBy(x))
  BY ExecutedByFinite
<1>2. IsFiniteSet(Y) /\ Adds(m, x, o) = Cardinality(Y)
  <2>1. Adds(m, x, o) = Cardinality(Y)
    BY DEF Adds
  <2> HIDE DEF Y
  <2>2. QED
    BY <1>1, <2>1, FS_Subset
<1>3. InMap(m, x.pc) => Y = {y \in ExecutedBy(x) : InMap(m, y) /\ Offset(m, y) = o}
  OBVIOUS
<1>4. ~InMap(m, x.pc) => Y = {}
  OBVIOUS
<1> HIDE DEF Y
<1>5. QED
  BY <1>2, <1>3, <1>4, FS_CardinalityType, FS_EmptySet DEF Hits

\* It only depends on the ranges of the map.
LEMMA SameAdds ==
  ASSUME NEW m, NEW n, n.ranges = m.ranges, NEW x, NEW o
  PROVE  Adds(n, x, o) = Adds(m, x, o)
<1>1. \A y : (InMap(n, y) <=> InMap(m, y)) /\ Offset(n, y) = Offset(m, y)
  BY SameRanges
<1> DEFINE Y(h) == {y \in ExecutedBy(x) : InMap(h, x.pc) /\ InMap(h, y) /\ Offset(h, y) = o}
<1>2. Y(n) = Y(m)
  BY <1>1
<1>3. Adds(n, x, o) = Cardinality(Y(n)) /\ Adds(m, x, o) = Cardinality(Y(m))
  BY DEF Adds
<1>4. QED
  BY <1>2, <1>3

\* The counts of the log are finitely many numbers.
LEMMA CountsFacts ==
  ASSUME CovoarInv, NEW s \in Desired, NEW o
  PROVE  IsFiniteSet(DOMAIN log) /\ \A k \in DOMAIN log : Counts(s, o)[k] \in Nat
<1>1. log \in Seq([exe : Executables, entry : Entries])
  BY DEF CovoarInv, Fresh
<1>2. Len(log) \in Nat /\ DOMAIN log = 1 .. Len(log)
  BY <1>1, LenProperties
<1>3. IsFiniteSet(1 .. Len(log))
  <2>1. Len(log) \in Int /\ 1 \in Int
    BY <1>2
  <2>2. QED
    BY ONLY <2>1, FS_Interval
<1>4. ASSUME NEW k \in DOMAIN log PROVE Counts(s, o)[k] \in Nat
  <2>1. log[k] \in [exe : Executables, entry : Entries]
    BY <1>1, <1>2, ElementOfSeq
  <2>2. log[k].entry \in EntryType /\ CoverUnit \in Nat
    BY <2>1, InputAssumption
  <2>3. Adds(maps[log[k].exe][s], log[k].entry, o) \in Nat
    BY <2>2, AddsFacts
  <2>4. QED
    BY <2>3 DEF Counts
<1>5. QED
  BY <1>2, <1>3, <1>4

\* The same in the next state.
LEMMA PrimedSum ==
  ASSUME NEW s, NEW o
  PROVE  Executions(s, o)' = SumFunctionOnSet(Counts(s, o)', DOMAIN log')
<1>1. Executions(s, o)' = SumFunction(Counts(s, o)')
  BY DEF Executions, Counts, Adds
<1>2. DOMAIN (Counts(s, o)') = DOMAIN log'
  BY DEF Counts
<1>3. QED
  BY <1>1, <1>2 DEF SumFunction

\* The counts of the log after a step.
LEMMA PrimedCounts ==
  ASSUME in' = in, NEW s, NEW o
  PROVE  \A k \in DOMAIN log' :
           Counts(s, o)'[k] = Adds(maps'[log'[k].exe][s], log'[k].entry, o)
<1>1. \A x : ExecutedBy(x)' = ExecutedBy(x)
  BY DEF ExecutedBy
<1>2. \A k \in DOMAIN log' :
        Counts(s, o)'[k] = Cardinality({y \in ExecutedBy(log[k].entry)' :
                             /\ InMap(maps'[log'[k].exe][s], log'[k].entry.pc)
                             /\ InMap(maps'[log'[k].exe][s], y)
                             /\ Offset(maps'[log'[k].exe][s], y) = o})
  BY DEF Counts, Adds
<1>3. \A k : ExecutedBy(log[k].entry)' = ExecutedBy(log'[k].entry)
  BY DEF ExecutedBy
<1>4. QED
  BY <1>2, <1>3 DEF Adds

\* Nothing but an entry read changes it.
LEMMA ExecutionsSame ==
  ASSUME CovoarInv, in' = in, log' = log, NEW s \in Desired, NEW o,
         \A e \in Executables : maps'[e][s].ranges = maps[e][s].ranges
  PROVE  Executions(s, o)' = Executions(s, o)
<1>1. log \in Seq([exe : Executables, entry : Entries])
  BY DEF CovoarInv, Fresh
<1>2. ASSUME NEW k \in DOMAIN log
      PROVE  Adds(maps'[log[k].exe][s], log[k].entry, o) = Adds(maps[log[k].exe][s], log[k].entry, o)
  <2>1. log[k] \in [exe : Executables, entry : Entries]
    BY <1>1, LenProperties, ElementOfSeq
  <2>2. maps'[log[k].exe][s].ranges = maps[log[k].exe][s].ranges
    BY <2>1
  <2>3. QED
    BY <2>2, SameAdds
<1>3. Executions(s, o)' = SumFunctionOnSet(Counts(s, o)', DOMAIN log)
  BY PrimedSum
<1>4. \A k \in DOMAIN log : Counts(s, o)'[k] = Counts(s, o)[k]
  BY <1>2, PrimedCounts DEF Counts
<1>5. SumFunctionOnSet(Counts(s, o)', DOMAIN log) = SumFunctionOnSet(Counts(s, o), DOMAIN log)
  <2> DEFINE f == Counts(s, o)'
  <2> DEFINE g == Counts(s, o)
  <2>1. IsFiniteSet(DOMAIN log) /\ \A k \in DOMAIN log : f[k] = g[k]
    BY <1>4, CountsFacts
  <2> HIDE DEF f, g
  <2>2. SumFunctionOnSet(f, DOMAIN log) = SumFunctionOnSet(g, DOMAIN log)
    BY <2>1, SumEqual
  <2>3. QED
    BY <2>2 DEF f, g
<1>6. QED
  BY <1>3, <1>5, ExecutionsSum

\* No counts are there while disassemblies are loaded.
LEMMA CountingLoad ==
  ASSUME CovoarInv, CovoarInv', LoadLabel \/ LoadLine \/ LoadEnd
  PROVE  Counting'
<1>1. phase = "load" /\ log' = log /\ file' = file /\ in' = in
  BY DEF LoadLabel, LoadLine, LoadEnd, reading
<1>2. log' = << >> /\ DOMAIN log' = {}
  BY <1>1 DEF CovoarInv, Fresh
<1>3. /\ \A s \in Desired : Clear(unified'[s])
      /\ \A e \in Executables, s \in Desired : Clear(maps'[e][s])
  BY <1>1, <1>2 DEF CovoarInv, Fresh, Executables
<1>4. \A e \in Executables, s \in Desired : Fits(maps'[e][s]) /\ Fits(unified'[s])
  BY <1>1 DEF CovoarInv, MapsFit, UnifiedFit, Executables
<1>5. SUFFICES ASSUME ~in.single, NEW s \in Desired, OneSize(s)', NEW o \in DOMAIN unified'[s].exec
               PROVE  Executions(s, o)' = unified'[s].exec[o] + Open(s, o)'
  BY <1>1 DEF Counting
<1>6. Executions(s, o)' = 0
  BY <1>2, PrimedSum, SumEmpty
<1>7. file \in Executables
  BY <1>1, <1>5, InputFacts DEF CovoarInv, LoadOK, Executables
<1>8. unified'[s].exec[o] = 0 /\ o \in 0 .. unified'[s].size - 1
  BY <1>3, <1>4, <1>5, <1>7 DEF Clear, Fits, MapOK
<1>9. Open(s, o)' = 0
  <2>1. SUFFICES ASSUME Exists(maps'[file][s]) PROVE maps'[file][s].exec[o] = 0
    BY <1>1 DEF Open
  <2>2. CovoarInv' => SizesAgreed'
    BY SizesAgree, PTL
  <2>3. maps'[file][s].size = unified'[s].size
    BY <1>1, <1>5, <1>7, <2>1, <2>2 DEF SizesAgreed, Executables
  <2>4. QED
    BY <1>3, <1>7, <1>8, <2>3 DEF Clear
<1>10. QED
  BY <1>6, <1>8, <1>9

\* An entry is counted where it is read,
LEMMA CountingReadEntry ==
  ASSUME CovoarInv, Counting, ReadEntry
  PROVE  Counting'
<1>1. PICK x \in Entries :
        /\ maps' = [maps EXCEPT ![Reader] =
                      [s \in Desired |-> IF Lookup(Reader, x.pc, s)
                                           THEN Marked(maps[Reader][s], x)
                                           ELSE maps[Reader][s]]]
        /\ log' = Append(log, [exe |-> Reader, entry |-> x])
  BY DEF ReadEntry
<1>2. /\ phase = "read" /\ phase' = phase /\ in' = in /\ unified' = unified
      /\ file' = file /\ sizeInBytes' = sizeInBytes
  BY DEF ReadEntry
<1>3. \A e \in Executables, s \in Desired :
        Fits(maps[e][s]) /\ Grown(maps[e][s], maps'[e][s])
  BY EntryGrown
<1>4. /\ in \in Inputs /\ x \in EntryType /\ CoverUnit \in Nat /\ x.pc \in Int
      /\ in.format \in {"QEMU", "TSIM", "Skyeye", "RTEMS"}
  <2>1. in \in Inputs /\ x \in EntryType /\ CoverUnit \in Nat
    BY InputAssumption DEF CovoarInv, LoadOK
  <2>2. x.pc \in Int
    BY <2>1, WordAssumption DEF EntryType, Address
  <2>3. QED
    BY <2>1, <2>2, InputFacts
<1>5. \A s \in Desired : OneSize(s)' <=> OneSize(s)
  BY <1>2, <1>3, SameSizes DEF Grown
<1>6. SUFFICES ASSUME ~in.single, NEW s \in Desired, OneSize(s), NEW o \in DOMAIN unified[s].exec
               PROVE  Executions(s, o)' = unified[s].exec[o] + Open(s, o)'
  BY <1>2, <1>5 DEF Counting
<1>7. Executions(s, o) = unified[s].exec[o] + Open(s, o)
  BY <1>2, <1>6 DEF Counting
<1>8. Reader = file /\ file \in Executables
  BY <1>6, ReaderFacts DEF Reader
<1> DEFINE m == maps[file][s]
<1> DEFINE n == maps'[file][s]
<1>9. Fits(m) /\ n.ranges = m.ranges /\ n = IF Lookup(file, x.pc, s) THEN Marked(m, x) ELSE m
  <2>1. DOMAIN maps = Executables /\ DOMAIN maps[file] = Desired
    BY <1>8 DEF CovoarInv, Domains
  <2>2. QED
    BY <1>1, <1>3, <1>8, <2>1 DEF Grown
<1>10. Lookup(file, x.pc, s) <=> Exists(m) /\ InMap(m, x.pc)
  BY <1>4, <1>8, LookupFacts
\* The sum has one term more.
<1> DEFINE last == Len(log) + 1
<1> DEFINE entry == [exe |-> Reader, entry |-> x]
<1>11. /\ DOMAIN log' = DOMAIN log \cup {last} /\ last \notin DOMAIN log
       /\ log'[last] = entry /\ \A k \in DOMAIN log : log'[k] = log[k]
  <2> DEFINE LT == [exe : Executables, entry : Entries]
  <2>1. log \in Seq(LT) /\ entry \in LT /\ log' = Append(log, entry)
    BY <1>1, <1>8 DEF CovoarInv, Fresh
  <2> HIDE DEF LT, entry
  <2>2. Len(log) \in Nat /\ DOMAIN log = 1 .. Len(log)
    BY <2>1, LenProperties
  <2>3. /\ log' \in Seq(LT) /\ Len(log') = Len(log) + 1
        /\ \A i \in 1 .. Len(log) : log'[i] = log[i]
        /\ log'[Len(log) + 1] = entry
    BY <2>1, AppendProperties
  <2>4. DOMAIN log' = 1 .. Len(log) + 1
    BY <2>3, LenProperties
  <2>5. QED
    BY <2>2, <2>3, <2>4
<1> HIDE DEF last
<1>12. Counts(s, o)'[last] = Adds(m, x, o)
  <2>1. Counts(s, o)'[last] = Adds(n, x, o)
    BY <1>2, <1>8, <1>11, PrimedCounts
  <2> HIDE DEF m, n
  <2>2. Adds(n, x, o) = Adds(m, x, o)
    BY <1>9, SameAdds
  <2>3. QED
    BY <2>1, <2>2
<1>13. \A k \in DOMAIN log : Counts(s, o)'[k] = Counts(s, o)[k]
  <2> SUFFICES ASSUME NEW k \in DOMAIN log PROVE Counts(s, o)'[k] = Counts(s, o)[k]
    OBVIOUS
  <2>1. k \in DOMAIN log' /\ log'[k] = log[k]
    BY <1>11
  <2>2. Counts(s, o)'[k] = Adds(maps'[log'[k].exe][s], log'[k].entry, o)
    BY <1>2, <2>1, PrimedCounts
  <2>3. log[k].exe \in Executables
    <3>1. log \in Seq([exe : Executables, entry : Entries])
      BY DEF CovoarInv, Fresh
    <3>2. log[k] \in [exe : Executables, entry : Entries]
      BY <3>1, LenProperties, ElementOfSeq
    <3>3. QED
      BY ONLY <3>2
  <2>4. maps'[log[k].exe][s].ranges = maps[log[k].exe][s].ranges
    BY <1>3, <2>3 DEF Grown
  <2>5. Adds(maps'[log[k].exe][s], log[k].entry, o) = Adds(maps[log[k].exe][s], log[k].entry, o)
    BY <2>4, SameAdds
  <2>6. QED
    BY <2>1, <2>2, <2>5 DEF Counts
<1>14. Executions(s, o)' = Adds(m, x, o) + Executions(s, o)
  <2> DEFINE f == Counts(s, o)'
  <2> DEFINE g == Counts(s, o)
  <2> DEFINE D == DOMAIN log
  <2>1. IsFiniteSet(D) /\ \A k \in D : g[k] \in Nat
    BY CountsFacts
  <2>2. Adds(m, x, o) \in Nat
    BY <1>4, AddsFacts
  <2>3. /\ f[last] = Adds(m, x, o) /\ last \notin D
        /\ \A k \in D : f[k] = g[k]
    BY <1>11, <1>12, <1>13
  <2>4. Executions(s, o)' = SumFunctionOnSet(f, D \cup {last})
    BY <1>11, PrimedSum
  <2>5. Executions(s, o) = SumFunctionOnSet(g, D)
    BY ExecutionsSum
  <2> HIDE DEF f, g, D, m
  <2>6. \A k \in D \cup {last} : f[k] \in Nat
    BY <2>1, <2>2, <2>3
  <2>7. SumFunctionOnSet(f, D \cup {last}) = f[last] + SumFunctionOnSet(f, D)
    BY <2>1, <2>3, <2>6, SumAdd
  <2>8. SumFunctionOnSet(f, D) = SumFunctionOnSet(g, D)
    BY <2>1, <2>3, SumEqual
  <2>9. QED
    BY <2>3, <2>4, <2>5, <2>7, <2>8
\* The open map has as many more.
<1>15. Open(s, o) \in Nat /\ Open(s, o)' = Open(s, o) + Adds(m, x, o)
  <2>1. Open(s, o)' = IF Exists(n) THEN n.exec[o] ELSE 0
    BY <1>2 DEF Open
  <2>2. Open(s, o) = IF Exists(m) THEN m.exec[o] ELSE 0
    BY <1>2 DEF Open
  <2>3. Adds(m, x, o) \in Nat
    BY <1>4, AddsFacts
  <2>4. CASE ~Exists(m)
    <3>1. m.ranges = << >>
      BY <2>4 DEF Exists
    <3> HIDE DEF m, n
    <3>2. ~InMap(m, x.pc)
      BY <3>1 DEF InMap
    <3>3. Adds(m, x, o) = 0 /\ ~Exists(n)
      BY <1>4, <1>9, <2>4, <3>2, AddsFacts DEF Exists
    <3>4. QED
      BY <2>1, <2>2, <2>4, <3>3
  <2>5. CASE Exists(m)
    <3>1. o \in 0 .. m.size - 1
      <4>1. m.size = unified[s].size
        BY <1>6, <1>8, <2>5, SizesAgree DEF SizesAgreed
      <4>2. DOMAIN unified[s].exec = 0 .. unified[s].size - 1
        BY <1>8, ReaderFacts
      <4>3. QED
        BY <1>6, <4>1, <4>2
    <3> HIDE DEF m, n
    <3>2. Exists(n)
      BY <1>9, <2>5 DEF Exists
    <3>3. m.exec[o] \in Nat
      BY <1>9, <3>1 DEF Fits, MapOK
    <3>4. CASE InMap(m, x.pc)
      <4>1. n.exec[o] = m.exec[o] + Hits(m, ExecutedBy(x), o)
        BY <1>4, <1>9, <1>10, <2>5, <3>1, <3>4, MarkedCounts
      <4>2. QED
        BY <1>4, <2>1, <2>2, <2>5, <3>2, <3>3, <3>4, <4>1, AddsFacts
    <3>5. CASE ~InMap(m, x.pc)
      <4>1. n = m /\ Adds(m, x, o) = 0
        BY <1>4, <1>9, <1>10, <3>5, AddsFacts
      <4>2. QED
        BY <2>1, <2>2, <2>5, <3>3, <4>1
    <3>6. QED
      BY <3>4, <3>5
  <2>6. QED
    BY <2>4, <2>5
<1>16. unified[s].exec[o] \in Nat /\ Adds(m, x, o) \in Nat
  BY <1>4, <1>6, <1>8, ReaderFacts, AddsFacts
<1> HIDE DEF m, n
<1>17. QED
  BY <1>7, <1>14, <1>15, <1>16

\* ... a merge moves the counts of the open file to the unified maps,
LEMMA CountingEndOfFile ==
  ASSUME CovoarInv, Counting, EndOfFile
  PROVE  Counting'
<1>1. /\ phase = "read" /\ in' = in /\ maps' = maps /\ sizeInBytes' = sizeInBytes /\ log' = log
      /\ phase' = IF file = in.files THEN "preprocess" ELSE "read"
      /\ file' = IF file = in.files THEN file ELSE file + 1
  BY DEF EndOfFile
<1>2. in \in Inputs /\ file \in 1 .. in.files /\ in.files \in Nat
  BY InputFacts DEF CovoarInv, LoadOK
<1>3. \A s \in Desired : OneSize(s)' <=> OneSize(s)
  BY <1>1, SameSizes
<1>4. SUFFICES ASSUME ~in.single, NEW s \in Desired, OneSize(s), NEW o \in DOMAIN unified[s].exec
               PROVE  Executions(s, o)' = unified'[s].exec[o] + Open(s, o)'
  <2>1. \A s \in Desired : OneSize(s) => DOMAIN unified'[s].exec = DOMAIN unified[s].exec
    BY MergeAdds
  <2>2. QED
    BY <1>1, <1>3, <2>1 DEF Counting
<1>5. Executions(s, o) = unified[s].exec[o] + Open(s, o)
  BY <1>1, <1>4 DEF Counting
<1>6. Executions(s, o)' = Executions(s, o)
  BY <1>1, ExecutionsSame
<1>7. Reader = file /\ file \in Executables
  BY <1>4, ReaderFacts DEF Reader
<1>8. /\ unified[s].exec[o] \in Nat /\ Open(s, o) \in Nat
      /\ unified'[s].exec[o] = unified[s].exec[o] + Open(s, o)
  <2>1. Open(s, o) = IF Exists(maps[file][s]) THEN maps[file][s].exec[o] ELSE 0
    BY <1>1 DEF Open
  <2>2. /\ unified[s].exec[o] \in Nat
        /\ IF Exists(maps[file][s])
             THEN /\ maps[file][s].exec[o] \in Nat
                  /\ unified'[s].exec[o] = unified[s].exec[o] + maps[file][s].exec[o]
             ELSE unified'[s].exec[o] = unified[s].exec[o]
    BY <1>4, <1>7, MergeAdds
  <2>3. QED
    BY <2>1, <2>2
<1>9. Open(s, o)' = 0
  <2>1. SUFFICES ASSUME phase' = "read", Exists(maps[file'][s]) PROVE maps[file'][s].exec[o] = 0
    BY <1>1 DEF Open
  <2>2. file' = file + 1 /\ file' \in Executables /\ file' > file
    BY <1>1, <1>2, <1>4, <2>1, InputFacts DEF Executables
  <2>3. Clear(maps[file'][s])
    BY <1>1, <1>4, <2>2 DEF CovoarInv, Fresh
  <2>4. maps[file'][s].size = unified[s].size
    BY <1>4, <2>1, <2>2, SizesAgree DEF SizesAgreed
  <2>5. DOMAIN unified[s].exec = 0 .. unified[s].size - 1
    BY <1>7, ReaderFacts
  <2>6. QED
    BY <1>4, <2>3, <2>4, <2>5 DEF Clear
<1>10. QED
  BY <1>5, <1>6, <1>8, <1>9

\* ... and the flags leave them alone,
LEMMA CountingPreprocess ==
  ASSUME CovoarInv, Counting, Preprocess
  PROVE  Counting'
<1>1. /\ phase = "preprocess" /\ phase' = "analyze" /\ in' = in /\ maps' = maps
      /\ sizeInBytes' = sizeInBytes /\ log' = log
  BY DEF Preprocess, reading
<1>2. \A s \in Desired : OneSize(s)' <=> OneSize(s)
  BY <1>1, SameSizes
<1>3. \A s \in Desired : unified'[s].exec = unified[s].exec
  BY PreprocessInv
<1>4. SUFFICES ASSUME ~in.single, NEW s \in Desired, OneSize(s), NEW o \in DOMAIN unified[s].exec
               PROVE  Executions(s, o)' = unified[s].exec[o] + Open(s, o)'
  BY <1>1, <1>2, <1>3 DEF Counting
<1>5. Executions(s, o) = unified[s].exec[o] + Open(s, o)
  BY <1>1, <1>4 DEF Counting
<1>6. Executions(s, o)' = Executions(s, o)
  BY <1>1, ExecutionsSame
<1>7. Open(s, o) = 0 /\ Open(s, o)' = 0
  BY <1>1 DEF Open
<1>8. QED
  BY <1>5, <1>6, <1>7

\* ... like a step that changes nothing.
LEMMA CountingStutter ==
  ASSUME CovoarInv, Counting, UNCHANGED vars
  PROVE  Counting'
<1>1. /\ phase' = phase /\ in' = in /\ maps' = maps /\ unified' = unified /\ file' = file
      /\ sizeInBytes' = sizeInBytes /\ log' = log
  BY DEF vars
<1>2. \A s \in Desired : OneSize(s)' <=> OneSize(s)
  BY <1>1, SameSizes
<1>3. \A s \in Desired : \A o : Executions(s, o)' = Executions(s, o) /\ Open(s, o)' = Open(s, o)
  BY <1>1, ExecutionsSame DEF Open
<1>4. QED
  BY <1>1, <1>2, <1>3 DEF Counting

(***************************************************************************)
(* When all coverage files are merged, each byte of a symbol that all      *)
(* executables hold in one size was executed as often as their entries     *)
(* say: none is lost, counted twice or booked on another byte, wherever    *)
(* the linker put the copies of the symbol.                                *)
(***************************************************************************)
THEOREM CountsCorrect == Spec => [](WellFormed(in) => CountsExact)
<1>1. Init => (WellFormed(in) => Counting)
  BY DEF Init, Counting
<1>2. SoundInv /\ SoundInv' /\ (WellFormed(in) => Counting) /\ [Next]_vars
        => (WellFormed(in) => Counting)'
  <2>1. SUFFICES ASSUME SoundInv, SoundInv', WellFormed(in) => Counting, [Next]_vars,
                        WellFormed(in)'
                 PROVE  Counting'
    OBVIOUS
  <2>2. in' = in
    BY <2>1 DEF Next, LoadLabel, LoadLine, LoadEnd, ReadEntry, BadHeader, EndOfFile, Preprocess, vars
  <2>3. WellFormed(in)
    BY <2>1, <2>2
  <2>4. CovoarInv /\ CovoarInv' /\ Counting
    BY <2>1, <2>3 DEF SoundInv
  <2>5. CASE LoadLabel \/ LoadLine \/ LoadEnd
    BY <2>4, <2>5, CountingLoad
  <2>6. CASE ReadEntry
    BY <2>4, <2>6, CountingReadEntry
  <2>7. CASE BadHeader
    BY <2>7 DEF BadHeader, Counting
  <2>8. CASE EndOfFile
    BY <2>4, <2>8, CountingEndOfFile
  <2>9. CASE Preprocess
    BY <2>4, <2>9, CountingPreprocess
  <2>10. CASE UNCHANGED vars
    BY <2>4, <2>10, CountingStutter
  <2>11. QED
    BY <2>1, <2>5, <2>6, <2>7, <2>8, <2>9, <2>10 DEF Next
<1>3. SoundInv /\ (WellFormed(in) => Counting) => (WellFormed(in) => CountsExact)
  <2>1. SUFFICES ASSUME CovoarInv, Counting, phase \in {"preprocess", "analyze"}, ~in.single,
                        NEW s \in Desired, OneSize(s), NEW o \in DOMAIN unified[s].exec
                 PROVE  unified[s].exec[o] = Executions(s, o)
    BY DEF SoundInv, CountsExact, Counted
  <2>2. Executions(s, o) = unified[s].exec[o] + Open(s, o) /\ Open(s, o) = 0
    BY <2>1 DEF Counting, Open
  <2>3. unified[s].exec[o] \in Nat
    BY <2>1, ReaderFacts
  <2>4. QED
    BY <2>2, <2>3
<1>4. Spec => []SoundInv
  BY CovoarInvariant
<1>5. QED
  BY <1>1, <1>2, <1>3, <1>4, PTL DEF Spec
-----------------------------------------------------------------------------
(***************************************************************************)
(* Two ranges of a map are one and the same or lie apart: an address then  *)
(* has the same offset in every range that holds it.                       *)
(***************************************************************************)
Apart(m) ==
  \A i, j \in DOMAIN m.ranges : \/ m.ranges[i].low = m.ranges[j].low
                                \/ m.ranges[i].high < m.ranges[j].low
                                \/ m.ranges[j].high < m.ranges[i].low

\* An address in such a map has the offset its range gives it.
LEMMA ApartOffset ==
  ASSUME NEW m, MapOK(m), Apart(m), NEW i \in DOMAIN m.ranges,
         NEW x \in Int, Holds(m.ranges[i], x)
  PROVE  InMap(m, x) /\ Offset(m, x) = x - m.ranges[i].low
<1>1. InMap(m, x)
  BY DEF InMap
<1>2. PICK j \in DOMAIN m.ranges : Holds(m.ranges[j], x) /\ Offset(m, x) = x - m.ranges[j].low
  BY <1>1, OffsetFacts
<1>3. /\ m.ranges[i].low \in Int /\ m.ranges[i].high \in Int
      /\ m.ranges[j].low \in Int /\ m.ranges[j].high \in Int
  BY RangeFacts
<1>4. m.ranges[i].low = m.ranges[j].low
  BY <1>2, <1>3 DEF Apart, Holds
<1>5. QED
  BY <1>1, <1>2, <1>4

(***************************************************************************)
(* The ranges of the map of an executable do not overlap: they belong to   *)
(* copies of the symbol the table keeps apart.                             *)
(***************************************************************************)
LEMMA MapsApart ==
  ASSUME Table, Tied, MapsFit, NEW e \in Executables, NEW s \in Desired
  PROVE  Apart(maps[e][s])
<1> DEFINE r == maps[e][s].ranges
<1>1. SUFFICES ASSUME NEW i \in DOMAIN r, NEW j \in DOMAIN r
               PROVE  r[i].low = r[j].low \/ r[i].high < r[j].low \/ r[j].high < r[i].low
  BY DEF Apart
<1> DEFINE t == [low |-> r[i].low, high |-> r[i].high, symbol |-> s]
<1> DEFINE u == [low |-> r[j].low, high |-> r[j].high, symbol |-> s]
<1>2. t \in contents[e] /\ u \in contents[e]
  BY DEF Tied
<1>3. t = u \/ t.high < u.low \/ u.high < t.low
  BY <1>2 DEF Table
<1>4. QED
  BY <1>3

(***************************************************************************)
(* LastStart finds the instruction that holds the address: the last start  *)
(* at or before it, in the same range.                                     *)
(***************************************************************************)
LEMMA LastStartFacts ==
  ASSUME NEW m, Fits(m), Apart(m), 0 \in m.start, NEW x \in Int, InMap(m, x)
  PROVE  /\ LastStart(m, x) \in Int
         /\ Offset(m, LastStart(m, x)) \in m.start
         /\ Offset(m, LastStart(m, x)) <= Offset(m, x)
         /\ \A p \in Offset(m, LastStart(m, x)) + 1 .. Offset(m, x) : p \notin m.start
<1> DEFINE starts == {a \in Address : IsStart(m, a)}
<1> DEFINE below  == {a \in starts : a <= x}
<1>1. MapOK(m) /\ Address \subseteq Int
  BY WordAssumption DEF Fits, Address
<1>2. PICK i \in DOMAIN m.ranges : Holds(m.ranges[i], x)
  BY DEF InMap
<1> DEFINE l == m.ranges[i].low
<1>3. /\ l \in Int /\ l \in Address /\ m.ranges[i].high \in Int /\ m.ranges[i].high \in Address
      /\ l <= x /\ x <= m.ranges[i].high /\ l <= m.ranges[i].high
  BY <1>1, <1>2, RangeFacts DEF Fits, Holds
<1>4. \A a \in Int : l <= a /\ a <= x => InMap(m, a) /\ Offset(m, a) = a - l
  <2>1. SUFFICES ASSUME NEW a \in Int, l <= a, a <= x PROVE InMap(m, a) /\ Offset(m, a) = a - l
    OBVIOUS
  <2>2. Holds(m.ranges[i], a)
    BY <1>3, <2>1 DEF Holds
  <2>3. QED
    BY <1>1, <2>2, ApartOffset
<1>5. l \in below
  <2>1. InMap(m, l) /\ Offset(m, l) = 0
    BY <1>3, <1>4
  <2>2. QED
    BY <1>3, <2>1 DEF IsStart
<1>6. LastStart(m, x) = Max(below)
  BY <1>5 DEF LastStart
<1> DEFINE y == LastStart(m, x)
<1>7. y \in below /\ \A a \in below : y >= a
  <2>1. below \subseteq Int /\ below # {} /\ \A a \in below : a <= x
    BY <1>1, <1>5
  <2> HIDE DEF below
  <2>2. QED
    BY <1>6, <2>1, MaxFacts
<1> HIDE DEF y
<1>8. y \in Int /\ l <= y /\ y <= x /\ IsStart(m, y)
  BY <1>1, <1>5, <1>7
<1>9. Offset(m, y) = y - l /\ Offset(m, x) = x - l /\ Offset(m, y) \in m.start
  BY <1>3, <1>4, <1>8 DEF IsStart
<1>10. ASSUME NEW p \in y - l + 1 .. x - l, p \in m.start PROVE FALSE
  <2> DEFINE a == l + p
  <2>1. a \in Int /\ l <= a /\ a <= x /\ y < a /\ a - l = p
    BY <1>3, <1>8, <1>10
  <2>2. IsStart(m, a)
    BY <1>4, <1>10, <2>1 DEF IsStart
  <2>3. a \in Address
    <3>1. l >= 0 /\ m.ranges[i].high <= Word - 1 /\ Word \in Int
      BY <1>3, WordAssumption DEF Address
    <3>2. QED
      BY <1>3, <2>1, <3>1 DEF Address
  <2> HIDE DEF a
  <2>4. a \in below
    BY <2>1, <2>2, <2>3
  <2> HIDE DEF below
  <2>5. QED
    BY <1>7, <1>8, <2>1, <2>4
<1>11. QED
  BY <1>3, <1>8, <1>9, <1>10 DEF y

(***************************************************************************)
(* What the maps hand over to the scan, and the directions.  HandInv holds *)
(* along with CovoarInv: the instruction at the address of a symbol is     *)
(* kept or still to come, so offset 0 starts one in every map;             *)
(***************************************************************************)
HeadAhead ==
  \/ \E j \in DOMAIN lines : IsInsn(lines[j]) /\ lines[j].offset = low
  \/ \E j \in Rest : in.dumps[exe][j].kind = "insn" /\ At(j) = low
Heading == phase = "load" /\ current # NoSymbol => HeadAhead
Heads   == \A e \in Executables, s \in Desired : Exists(maps[e][s]) => 0 \in maps[e][s].start

\* ... some executable holds the longest version of a symbol;
Longest ==
  \A s \in Desired : Exists(unified[s]) =>
    \E e \in Executables : Exists(maps[e][s]) /\ maps[e][s].size = sizeInBytes[s]

\* ... the instructions saved of a symbol are at different addresses, and
\* those within its unified map start where a map of that size says so;
OneByOne(ls) ==
  \A k, l \in ls : IsInsn(k) /\ IsInsn(l) /\ k.offset = l.offset => k = l
StartsSaved(s, m) ==
  \A l \in saved[s].instructions : IsInsn(l) =>
    /\ saved[s].base <= l.offset
    /\ l.offset - saved[s].base < m.size => l.offset - saved[s].base \in m.start
Remembered ==
  \A s \in Desired :
    /\ OneByOne(saved[s].instructions)
    /\ saved[s].instructions = {} <=> ~Exists(unified[s])
    /\ Exists(unified[s]) =>
         \E e \in Executables : /\ Exists(maps[e][s]) /\ maps[e][s].size = unified[s].size
                                /\ StartsSaved(s, maps[e][s])

\* ... the starts of an executable that is through are in the unified map;
Through(e) == \/ phase \in {"preprocess", "analyze"}
              \/ phase = "read" /\ ~in.single /\ e < file
Handed ==
  \A e \in Executables, s \in Desired :
    Through(e) /\ Exists(maps[e][s]) /\ maps[e][s].size = sizeInBytes[s] =>
      \A o \in maps[e][s].start : o < unified[s].size => o \in unified[s].start

\* ... only preprocess flags branches and nops;
Flags ==
  \A s \in Desired :
    LET m == unified[s]
    IN  IF phase = "analyze"
          THEN /\ m.branch \cap m.nop = {}
               /\ m.size = sizeInBytes[s] => m.branch \cup m.nop \subseteq m.start
          ELSE m.branch = {} /\ m.nop = {}

\* ... and every direction was seen at the end of a block.
Saw(e, s, d, o) ==
  \E k \in DOMAIN log : /\ log[k].exe = e /\ d \in log[k].entry.op
                        /\ EndsAt(maps[e][s], log[k].entry, o)
Directed ==
  in.format = "QEMU" =>
    \A e \in Executables, s \in Desired : \A o \in 0 .. maps[e][s].size - 1 :
      /\ maps[e][s].taken[o] > 0 => Saw(e, s, "taken", o)
      /\ maps[e][s].notTaken[o] > 0 => Saw(e, s, "notTaken", o)

HandInv == Heading /\ Heads /\ Longest /\ Remembered /\ Handed /\ Flags /\ Directed

(***************************************************************************)
(* No trailing nop stands before an instruction other than a nop, so what  *)
(* finalizeSymbol keeps holds that instruction and the one at the address  *)
(* of the symbol.                                                          *)
(***************************************************************************)
LEMMA KeptFacts ==
  ASSUME in.cpu \in Cpus, lines \in Seq(LineType), Sorted, low \in Address,
         \E j \in DOMAIN lines : Real(in.cpu, lines[j]),
         \E j \in DOMAIN lines : IsInsn(lines[j]) /\ lines[j].offset = low
  PROVE  /\ Kept(lines) # {} /\ low \in Starts(lines) /\ OneByOne(Kept(lines))
         /\ \A l \in Kept(lines) : IsInsn(l) =>
              l.offset \in Address /\ low <= l.offset /\ l.offset \in Starts(lines)
<1>1. Len(lines) \in Nat /\ DOMAIN lines = 1 .. Len(lines) /\ DOMAIN lines \subseteq Int
  <2>1. Len(lines) \in Nat /\ DOMAIN lines = 1 .. Len(lines)
    BY LenProperties
  <2>2. QED
    BY <2>1
<1>2. Address \subseteq Int
  BY WordAssumption DEF Address
<1>3. \A j \in DOMAIN lines :
        /\ lines[j] \in LineType /\ Room(in.cpu, lines[j]) \in Nat
        /\ IsInsn(lines[j]) => /\ lines[j].offset \in Address
                               /\ lines[j].offset \in Int
                               /\ Room(in.cpu, lines[j]) >= 1
  <2>1. \A j \in DOMAIN lines : lines[j] \in LineType
    BY <1>1, ElementOfSeq
  <2>2. \A j \in DOMAIN lines : IsInsn(lines[j]) => lines[j].offset \in Address
    BY <2>1, LineFacts DEF IsInsn
  <2>3. QED
    BY <1>2, <2>1, <2>2, RoomType DEF IsInsn
<1>4. PICK c \in DOMAIN lines : Real(in.cpu, lines[c])
  OBVIOUS
<1>5. IsInsn(lines[c]) /\ ~IsNop(lines[c])
  BY <1>4 DEF Real, IsInsn, IsNop
<1>6. ASSUME NEW j \in DOMAIN lines, j <= c PROVE j \notin Trailing(lines)
  <2>1. SUFFICES ASSUME j \in Trailing(lines) PROVE FALSE
    OBVIOUS
  <2>2. PICK last \in j .. Len(lines) :
          /\ \A i \in last + 1 .. Len(lines) : ~IsInsn(lines[i])
          /\ \A i \in j .. last : IsNop(lines[i])
    BY <2>1 DEF Trailing
  <2>3. c \in j .. last \/ c \in last + 1 .. Len(lines)
    BY <1>1, <1>6, <2>2
  <2>4. QED
    BY <1>5, <2>2, <2>3
<1>7. lines[c] \in Kept(lines)
  <2>1. c <= c
    BY <1>1
  <2>2. QED
    BY <1>6, <2>1 DEF Kept
<1>8. PICK j \in DOMAIN lines : IsInsn(lines[j]) /\ lines[j].offset = low
  OBVIOUS
<1>9. j <= c
  <2>1. SUFFICES ASSUME c < j PROVE FALSE
    BY <1>1
  <2>2. lines[c].offset + Room(in.cpu, lines[c]) <= lines[j].offset /\ low <= lines[c].offset
    BY <1>5, <1>8, <2>1 DEF Sorted
  <2>3. /\ lines[c].offset \in Int /\ low \in Int /\ Room(in.cpu, lines[c]) \in Nat
        /\ Room(in.cpu, lines[c]) >= 1
    BY <1>2, <1>3, <1>5
  <2>4. lines[c].offset + Room(in.cpu, lines[c]) <= low
    BY <1>8, <2>2
  <2>5. QED
    BY <2>2, <2>3, <2>4
<1>10. lines[j] \in Kept(lines)
  BY <1>6, <1>9 DEF Kept
<1>11. low \in Starts(lines)
  BY <1>8, <1>10 DEF Starts
<1>12. ASSUME NEW i \in DOMAIN lines, NEW k \in DOMAIN lines, IsInsn(lines[i]), IsInsn(lines[k]),
              i < k
       PROVE  lines[i].offset # lines[k].offset
  <2>1. lines[i].offset + Room(in.cpu, lines[i]) <= lines[k].offset
    BY <1>12 DEF Sorted
  <2>2. /\ lines[i].offset \in Int /\ Room(in.cpu, lines[i]) \in Nat
        /\ Room(in.cpu, lines[i]) >= 1
    BY <1>3, <1>12
  <2>3. QED
    BY <2>1, <2>2
<1>13. OneByOne(Kept(lines))
  <2>1. SUFFICES ASSUME NEW i \in DOMAIN lines, NEW k \in DOMAIN lines, IsInsn(lines[i]),
                        IsInsn(lines[k]), lines[i].offset = lines[k].offset
                 PROVE  lines[i] = lines[k]
    BY DEF OneByOne, Kept
  <2>2. i = k \/ i < k \/ k < i
    BY <1>1
  <2>3. QED
    BY <1>12, <2>1, <2>2
<1>14. \A l \in Kept(lines) : IsInsn(l) =>
         l.offset \in Address /\ low <= l.offset /\ l.offset \in Starts(lines)
  <2>1. \A i \in DOMAIN lines : IsInsn(lines[i]) => lines[i].offset \in Address
    BY <1>3
  <2>2. \A i \in DOMAIN lines : IsInsn(lines[i]) => low <= lines[i].offset
    BY DEF Sorted
  <2>3. QED
    BY <2>1, <2>2 DEF Kept, Starts
<1>15. QED
  BY <1>7, <1>11, <1>13, <1>14

(***************************************************************************)
(* The map of the symbol at hand in the executable at hand once it is      *)
(* finalized: the new range comes last and lies behind the others, so what *)
(* an address in it is told is told of the right byte.                     *)
(***************************************************************************)
LEMMA MapMade ==
  ASSUME NEW m, Fits(m), NEW lo \in Address, NEW hi \in Address, lo <= hi, hi - lo + 1 < Word,
         Exists(m) => m.size = hi - lo + 1,
         \A i \in DOMAIN m.ranges : m.ranges[i].high < lo,
         NEW X \in SUBSET Address,
         NEW n, n = SetStarts(IF Exists(m) THEN Add(m, lo, hi) ELSE NewMap(lo, hi), X)
  PROVE  /\ Exists(n) /\ n.size = hi - lo + 1
         /\ Exists(m) => m.start \subseteq n.start
         /\ \A x \in X : lo <= x /\ x <= hi => x - lo \in n.start
         /\ \A o \in 0 .. n.size - 1 :
              /\ n.taken[o] > 0 => Exists(m) /\ m.taken[o] > 0
              /\ n.notTaken[o] > 0 => Exists(m) /\ m.notTaken[o] > 0
<1> DEFINE b == IF Exists(m) THEN Add(m, lo, hi) ELSE NewMap(lo, hi)
<1> DEFINE r == [low |-> lo, high |-> hi]
<1>1. Address \subseteq Int /\ lo \in Int /\ hi \in Int
  BY WordAssumption DEF Address
<1>2. m.ranges \in Seq([low : Address, high : Address]) /\ MapOK(m)
  BY DEF Fits, MapOK
<1>3. r \in [low : Address, high : Address] /\ r.low = lo /\ r.high = hi
  OBVIOUS
<1>4. CASE Exists(m)
  <2>1. b = Add(m, lo, hi)
    BY <1>4
  <2> HIDE DEF b
  <2>2. /\ Fits(b) /\ b.ranges = Append(m.ranges, r) /\ b.size = m.size /\ b.start = m.start
        /\ b.taken = m.taken /\ b.notTaken = m.notTaken
    BY <1>4, <2>1, AddFits
  <2> HIDE DEF r
  <2>3. /\ Len(b.ranges) = Len(m.ranges) + 1
        /\ \A i \in 1 .. Len(m.ranges) : b.ranges[i] = m.ranges[i]
        /\ b.ranges[Len(m.ranges) + 1] = r
        /\ DOMAIN b.ranges = 1 .. Len(b.ranges)
        /\ Len(m.ranges) \in Nat /\ DOMAIN m.ranges = 1 .. Len(m.ranges)
    BY <1>2, <1>3, <2>2, AppendProperties, LenProperties
  <2>4. MapOK(b)
    BY <2>2 DEF Fits
  <2>5. ASSUME NEW x \in X, lo <= x, x <= hi PROVE InMap(b, x) /\ Offset(b, x) = x - lo
    <3>1. x \in Int
      BY <1>1
    <3>2. Len(m.ranges) + 1 \in DOMAIN b.ranges
      BY <2>3
    <3>3. Holds(b.ranges[Len(m.ranges) + 1], x)
      BY <1>3, <2>3, <2>5 DEF Holds
    <3>4. InMap(b, x)
      BY <3>2, <3>3 DEF InMap
    <3>5. PICK i \in DOMAIN b.ranges : Holds(b.ranges[i], x) /\ Offset(b, x) = x - b.ranges[i].low
      BY <2>4, <3>1, <3>4, OffsetFacts
    <3>6. CASE i \in DOMAIN m.ranges
      <4>1. b.ranges[i] = m.ranges[i] /\ m.ranges[i].high < lo /\ m.ranges[i].high \in Int
        BY <1>2, <2>3, <3>6, RangeFacts
      <4>2. x <= m.ranges[i].high
        BY <3>5, <4>1 DEF Holds
      <4>3. QED
        BY <1>1, <2>5, <3>1, <4>1, <4>2
    <3>7. CASE i = Len(m.ranges) + 1
      BY <1>3, <2>3, <3>4, <3>5, <3>7
    <3>8. QED
      BY <2>3, <3>6, <3>7
  <2>6. /\ n.ranges = b.ranges /\ n.size = b.size /\ n.taken = b.taken /\ n.notTaken = b.notTaken
        /\ n.start = b.start \cup Offsets(b, X)
    <3>1. X \in SUBSET Int
      BY <1>1
    <3>2. n = SetStarts(b, X)
      BY DEF b
    <3>3. QED
      BY <2>2, <3>1, <3>2, StartsFit
  <2>7. Exists(n)
    <3>1. b.ranges # << >>
      BY <1>2, <1>3, <2>2, AppendProperties
    <3>2. QED
      BY <2>6, <3>1 DEF Exists
  <2>8. \A x \in X : lo <= x /\ x <= hi => x - lo \in n.start
    BY <2>5, <2>6 DEF Offsets
  <2>9. QED
    BY <1>4, <2>2, <2>6, <2>7, <2>8
<1>5. CASE ~Exists(m)
  <2>1. b = NewMap(lo, hi)
    BY <1>5
  <2> HIDE DEF b
  <2>2. /\ Fits(b) /\ b.ranges = << r >> /\ b.size = hi - lo + 1
        /\ \A o \in 0 .. b.size - 1 : b.taken[o] = 0 /\ b.notTaken[o] = 0
    BY <2>1, NewMapFits
  <2>3. MapOK(b) /\ DOMAIN b.ranges = {1} /\ b.ranges[1] = r
    BY <2>2 DEF Fits
  <2>4. ASSUME NEW x \in X, lo <= x, x <= hi PROVE InMap(b, x) /\ Offset(b, x) = x - lo
    <3>1. x \in Int
      BY <1>1
    <3>2. InMap(b, x)
      BY <1>3, <2>3, <2>4 DEF InMap, Holds
    <3>3. PICK i \in DOMAIN b.ranges : Holds(b.ranges[i], x) /\ Offset(b, x) = x - b.ranges[i].low
      BY <2>3, <3>1, <3>2, OffsetFacts
    <3>4. QED
      BY <1>3, <2>3, <3>2, <3>3
  <2>5. /\ n.ranges = b.ranges /\ n.size = b.size /\ n.taken = b.taken /\ n.notTaken = b.notTaken
        /\ n.start = b.start \cup Offsets(b, X)
    <3>1. X \in SUBSET Int
      BY <1>1
    <3>2. n = SetStarts(b, X)
      BY DEF b
    <3>3. QED
      BY <2>2, <3>1, <3>2, StartsFit
  <2>6. Exists(n)
    BY <2>2, <2>5 DEF Exists
  <2>7. \A x \in X : lo <= x /\ x <= hi => x - lo \in n.start
    BY <2>4, <2>5 DEF Offsets
  <2>8. \A o \in 0 .. n.size - 1 : ~(n.taken[o] > 0) /\ ~(n.notTaken[o] > 0)
    <3>1. \A o \in 0 .. n.size - 1 : n.taken[o] = 0 /\ n.notTaken[o] = 0
      BY <2>2, <2>5
    <3>2. QED
      BY <3>1
  <2>9. QED
    BY <1>5, <2>2, <2>5, <2>6, <2>7, <2>8
<1>6. QED
  BY <1>4, <1>5

\* No direction is recorded in the map.
Undirected(m) == \A o \in 0 .. m.size - 1 : ~(m.taken[o] > 0) /\ ~(m.notTaken[o] > 0)

(***************************************************************************)
(* Before any coverage file is read no direction is recorded.              *)
(***************************************************************************)
LEMMA NotDirected ==
  ASSUME Directed, in.format = "QEMU", log = << >>
  PROVE  \A e \in Executables, s \in Desired : Undirected(maps[e][s])
<1>1. \A e, s, d, o : ~Saw(e, s, d, o)
  BY DEF Saw
<1>2. QED
  BY <1>1 DEF Directed, Undirected

(***************************************************************************)
(* finalizeSymbol, for HandInv: when it exits over another length it saves *)
(* nothing, since the symbol has a unified map by then; and the map it     *)
(* makes or extends starts with an instruction.                            *)
(***************************************************************************)
LEMMA HandFinalized ==
  ASSUME CovoarInv, HandInv, phase = "load", current # NoSymbol, in' = in, log' = log,
         NEW last \in Address, last < Word - 1,
         \A j \in DOMAIN lines : IsInsn(lines[j]) =>
           lines[j].offset + Room(in.cpu, lines[j]) <= last + 1,
         \E j \in DOMAIN lines : Real(in.cpu, lines[j]),
         \E j \in DOMAIN lines : IsInsn(lines[j]) /\ lines[j].offset = low,
         NEW next \in {"load", "read"}, FinalizeSymbol(last, next)
  PROVE  Heads' /\ Longest' /\ Remembered' /\ Flags' /\ Directed'
<1>1. /\ LoadOK /\ Domains /\ Collected /\ Table /\ Behind /\ Tied /\ MapsFit /\ UnifiedFit
      /\ Paired /\ log = << >>
  BY DEF CovoarInv, Fresh
<1>2. /\ in \in Inputs /\ exe \in Executables /\ current \in Desired
      /\ low \in Address /\ lines \in Seq(LineType) /\ sizeInBytes \in [Desired -> Address]
  BY <1>1 DEF LoadOK
<1>3. in.cpu \in Cpus
  BY <1>2, InputFacts
<1>4. Address \subseteq Int
  BY WordAssumption DEF Address
<1>5. Sorted
  BY <1>1 DEF Collected
<1>6. Heads /\ Longest /\ Remembered /\ Flags /\ Directed
  BY DEF HandInv
<1> DEFINE high == Wrap(last - NopBytes(lines))
<1> DEFINE length == Wrap(high - low + 1)
<1>7. /\ high \in Address /\ low <= high /\ high <= last
      /\ length = high - low + 1 /\ length \in Address /\ length >= 1
  BY <1>2, <1>3, <1>5, FinalRange
<1> HIDE DEF high, length
<1>8. /\ saved' = IF saved[current].instructions = {}
                    THEN [saved EXCEPT ![current] = [instructions |-> Kept(lines), base |-> low]]
                    ELSE saved
      /\ IF SameLength(current, length)
           THEN /\ AddSymbol(current, low, high, length)
                /\ CreateExecutableMap(current, low, high)
                /\ CreateUnifiedMap(current, length)
                /\ phase' = next
           ELSE /\ phase' = "exited"
                /\ UNCHANGED << contents, info, maps, unified, sizeInBytes >>
  BY DEF FinalizeSymbol, high, length
<1>9. Executables' = Executables
  BY DEF Executables
<1>10. phase' # "analyze"
  BY <1>8
<1>11. in.format = "QEMU" => \A e \in Executables, s \in Desired : Undirected(maps[e][s])
  BY <1>1, <1>6, NotDirected
<1> DEFINE m == maps[exe][current]
<1>12. /\ Fits(m)
       /\ IF Exists(m) THEN info[exe][current] # << >> /\ info[exe][current][1] = m.size
                       ELSE info[exe][current] = << >>
  BY <1>1, <1>2 DEF MapsFit
<1>13. CASE ~SameLength(current, length)
  <2>1. UNCHANGED << contents, info, maps, unified, sizeInBytes >>
    BY <1>8, <1>13
  <2>2. Exists(m)
    BY <1>12, <1>13 DEF SameLength
  <2>3. saved[current].instructions # {}
    BY <1>1, <1>2, <1>6, <2>2 DEF Paired, Remembered
  <2>4. saved' = saved
    BY <1>8, <2>3
  <2>5. Heads' /\ Longest'
    BY <1>6, <1>9, <2>1 DEF Heads, Longest
  <2>6. Remembered'
    BY <1>6, <1>9, <2>1, <2>4 DEF Remembered, StartsSaved
  <2>7. Flags'
    BY <1>1, <1>6, <1>10, <2>1 DEF Flags
  <2>8. Directed'
    BY <1>6, <1>9, <2>1 DEF Directed, Saw
  <2>9. QED
    BY <2>5, <2>6, <2>7, <2>8
<1>14. CASE SameLength(current, length)
  <2> DEFINE n == maps'[exe][current]
  <2>1. /\ CreateExecutableMap(current, low, high) /\ CreateUnifiedMap(current, length)
    BY <1>8, <1>14
  <2>2. /\ n = SetStarts(IF Exists(m) THEN Add(m, low, high) ELSE NewMap(low, high), Starts(lines))
        /\ \A e \in Executables, s \in Desired :
             e # exe \/ s # current => maps'[e][s] = maps[e][s]
    BY <1>1, <1>2, <2>1 DEF CreateExecutableMap, Domains
  <2> HIDE DEF n
  <2>3. /\ Kept(lines) # {} /\ low \in Starts(lines) /\ OneByOne(Kept(lines))
        /\ \A l \in Kept(lines) : IsInsn(l) =>
             l.offset \in Address /\ low <= l.offset /\ l.offset \in Starts(lines)
    BY <1>2, <1>3, <1>5, KeptFacts
  <2>4. /\ Exists(n) /\ n.size = length
        /\ Exists(m) => m.start \subseteq n.start
        /\ \A x \in Starts(lines) : low <= x /\ x <= high => x - low \in n.start
        /\ \A o \in 0 .. n.size - 1 :
             /\ n.taken[o] > 0 => Exists(m) /\ m.taken[o] > 0
             /\ n.notTaken[o] > 0 => Exists(m) /\ m.notTaken[o] > 0
    <3>1. Starts(lines) \in SUBSET Address
      BY <2>3 DEF Starts
    <3>2. Exists(m) => m.size = high - low + 1
      BY <1>7, <1>12, <1>14 DEF SameLength
    <3>3. \A i \in DOMAIN m.ranges : m.ranges[i].high < low
      <4>1. ASSUME NEW i \in DOMAIN m.ranges PROVE m.ranges[i].high < low
        <5> DEFINE t == [low |-> m.ranges[i].low, high |-> m.ranges[i].high, symbol |-> current]
        <5>1. t \in contents[exe]
          BY <1>1, <1>2 DEF Tied
        <5>2. t.high < low
          BY <1>1, <5>1 DEF Behind
        <5>3. QED
          BY <5>2
      <4>2. QED
        BY <4>1
    <3>4. high - low + 1 < Word
      BY <1>7, WordAssumption DEF Address
    <3> DEFINE X == Starts(lines)
    <3> HIDE DEF m, X
    <3>5. X \in SUBSET Address
      BY <3>1 DEF X
    <3>6. n = SetStarts(IF Exists(m) THEN Add(m, low, high) ELSE NewMap(low, high), X)
      BY <2>2 DEF X, m
    <3>7. /\ Exists(n) /\ n.size = high - low + 1
          /\ Exists(m) => m.start \subseteq n.start
          /\ \A x \in X : low <= x /\ x <= high => x - low \in n.start
          /\ \A o \in 0 .. n.size - 1 :
               /\ n.taken[o] > 0 => Exists(m) /\ m.taken[o] > 0
               /\ n.notTaken[o] > 0 => Exists(m) /\ m.notTaken[o] > 0
      <4>1. Fits(m) /\ low \in Address /\ high \in Address /\ low <= high
        BY <1>2, <1>7, <1>12
      <4>2. QED
        BY ONLY <3>2, <3>3, <3>4, <3>5, <3>6, <4>1, MapMade
    <3>8. QED
      BY <1>7, <3>7 DEF X
  <2>5. /\ Exists(m) => m.size = length
        /\ m.size \in Int
    <3>1. Exists(m) => m.size = length
      BY <1>12, <1>14 DEF SameLength
    <3>2. QED
      BY <1>4, <1>12, <3>1 DEF Fits, MapOK
  <2> HIDE DEF m
  <2>6. /\ \A s \in Desired : s # current =>
             unified'[s] = unified[s] /\ sizeInBytes'[s] = sizeInBytes[s]
        /\ Exists(unified[current]) =>
             /\ unified' = unified
             /\ sizeInBytes'[current] = IF sizeInBytes[current] < length
                                          THEN length ELSE sizeInBytes[current]
        /\ ~Exists(unified[current]) =>
             /\ unified'[current] = NewMap(0, length - 1)
             /\ sizeInBytes'[current] = length
    <3>1. DOMAIN unified = Desired
      BY <1>1 DEF Domains
    <3>2. CASE Exists(unified[current])
      BY <1>2, <2>1, <3>1, <3>2 DEF CreateUnifiedMap
    <3>3. CASE ~Exists(unified[current])
      <4>1. Wrap(length - 1) = length - 1
        <5>1. length - 1 \in Address
          BY <1>7, WordAssumption DEF Address
        <5>2. QED
          BY <5>1, WrapSame
      <4>2. QED
        BY <1>2, <2>1, <3>1, <3>3, <4>1 DEF CreateUnifiedMap
    <3>4. QED
      BY <3>2, <3>3
  <2>7. ~Exists(unified[current]) =>
          LET u == unified'[current]
          IN  Exists(u) /\ u.size = length /\ u.branch = {} /\ u.nop = {}
    <3>1. 0 \in Address /\ length - 1 \in Address /\ 0 <= length - 1
      BY <1>7, WordAssumption DEF Address
    <3>2. (length - 1) - 0 + 1 < Word /\ (length - 1) - 0 + 1 = length
      BY <1>7, WordAssumption DEF Address
    <3> DEFINE hi == length - 1
    <3> DEFINE u == NewMap(0, hi)
    <3>3. hi \in Address /\ 0 <= hi /\ hi - 0 + 1 < Word /\ hi - 0 + 1 = length
      BY <3>1, <3>2
    <3> HIDE DEF hi
    <3>4. /\ u.ranges = << [low |-> 0, high |-> hi] >> /\ u.size = hi - 0 + 1
          /\ u.branch = {} /\ u.nop = {}
      BY <3>1, <3>3, NewMapFits
    <3>5. ~Exists(unified[current]) => unified'[current] = u
      BY <2>6 DEF hi
    <3> HIDE DEF u
    <3>6. Exists(u)
      BY <3>4 DEF Exists
    <3>7. QED
      BY <3>3, <3>4, <3>5, <3>6
  <2>8. Heads'
    <3>1. 0 \in n.start
      <4>1. low - low \in n.start
        BY <1>2, <1>4, <1>7, <2>3, <2>4
      <4>2. low - low = 0
        BY <1>2, <1>4
      <4>3. QED
        BY <4>1, <4>2
    <3>2. QED
      BY <1>6, <1>9, <2>2, <3>1 DEF Heads, n
  <2>9. Longest'
    <3>1. SUFFICES ASSUME NEW s \in Desired, Exists(unified'[s])
                   PROVE  \E e \in Executables :
                            Exists(maps'[e][s]) /\ maps'[e][s].size = sizeInBytes'[s]
      BY <1>9 DEF Longest
    <3>2. CASE s # current
      <4>1. PICK e \in Executables : Exists(maps[e][s]) /\ maps[e][s].size = sizeInBytes[s]
        BY <1>6, <2>6, <3>1, <3>2 DEF Longest
      <4>2. QED
        BY <2>2, <2>6, <3>2, <4>1
    <3>3. CASE s = current /\ sizeInBytes'[s] = length
      BY <1>2, <2>4, <3>3 DEF n
    <3>4. CASE s = current /\ sizeInBytes'[s] # length
      <4>1. /\ Exists(unified[current]) /\ sizeInBytes'[current] = sizeInBytes[current]
            /\ sizeInBytes[current] # length
        BY <2>6, <3>4
      <4>2. PICK e \in Executables :
              Exists(maps[e][current]) /\ maps[e][current].size = sizeInBytes[current]
        BY <1>2, <1>6, <4>1 DEF Longest
      <4>3. e # exe
        BY <2>5, <4>1, <4>2 DEF m
      <4>4. QED
        BY <1>2, <2>2, <3>4, <4>1, <4>2, <4>3
    <3>5. QED
      BY <3>2, <3>3, <3>4
  <2>10. Remembered'
    <3>1. SUFFICES ASSUME NEW s \in Desired
                   PROVE  /\ OneByOne(saved'[s].instructions)
                          /\ saved'[s].instructions = {} <=> ~Exists(unified'[s])
                          /\ Exists(unified'[s]) =>
                               \E e \in Executables :
                                 /\ Exists(maps'[e][s]) /\ maps'[e][s].size = unified'[s].size
                                 /\ StartsSaved(s, maps[e][s])'
      BY <1>9 DEF Remembered, OneByOne
    <3>2. /\ OneByOne(saved[s].instructions)
          /\ saved[s].instructions = {} <=> ~Exists(unified[s])
          /\ Exists(unified[s]) =>
               \E e \in Executables : /\ Exists(maps[e][s]) /\ maps[e][s].size = unified[s].size
                                      /\ StartsSaved(s, maps[e][s])
      BY <1>6 DEF Remembered
    <3>3. CASE s # current
      <4>1. saved'[s] = saved[s] /\ unified'[s] = unified[s]
        BY <1>1, <1>8, <2>6, <3>3 DEF Domains
      <4>2. \A e \in Executables : maps'[e][s] = maps[e][s]
        BY <2>2, <3>3
      <4>3. QED
        BY <3>2, <4>1, <4>2 DEF StartsSaved
    <3>4. CASE s = current /\ Exists(unified[s])
      <4>1. saved' = saved /\ unified' = unified
        BY <1>8, <2>6, <3>2, <3>4
      <4>2. PICK e \in Executables : /\ Exists(maps[e][s]) /\ maps[e][s].size = unified[s].size
                                     /\ StartsSaved(s, maps[e][s])
        BY <3>2, <3>4
      <4>3. CASE e # exe
        <5>1. maps'[e][s] = maps[e][s]
          BY <2>2, <4>3
        <5>2. QED
          BY <3>2, <3>4, <4>1, <4>2, <5>1 DEF StartsSaved
      <4>4. CASE e = exe
        <5>1. maps[e][s] = m /\ maps'[e][s] = n /\ n.size = m.size /\ m.start \subseteq n.start
          BY <2>4, <2>5, <3>4, <4>2, <4>4 DEF m, n
        <5>2. StartsSaved(s, maps[e][s])'
          BY <4>1, <4>2, <5>1 DEF StartsSaved
        <5>3. QED
          BY <2>4, <3>2, <3>4, <4>1, <4>2, <5>1, <5>2
      <4>5. QED
        BY <4>3, <4>4
    <3>5. CASE s = current /\ ~Exists(unified[s])
      <4>1. saved'[s].instructions = Kept(lines) /\ saved'[s].base = low
        BY <1>1, <1>2, <1>8, <3>2, <3>5 DEF Domains
      <4>2. Exists(unified'[s]) /\ unified'[s].size = length
        BY <2>7, <3>5
      <4>3. ASSUME NEW l \in Kept(lines), IsInsn(l)
            PROVE  /\ low <= l.offset
                   /\ l.offset - low < n.size => l.offset - low \in n.start
        <5>1. l.offset \in Address /\ low <= l.offset /\ l.offset \in Starts(lines)
          BY <2>3, <4>3
        <5>2. l.offset - low < n.size => l.offset <= high
          <6>1. l.offset \in Int /\ low \in Int /\ high \in Int /\ n.size = high - low + 1
            BY <1>2, <1>4, <1>7, <2>4, <5>1
          <6>2. QED
            BY <6>1
        <5>3. QED
          BY <2>4, <5>1, <5>2
      <4> PICK e \in Executables : e = exe
        BY <1>2
      <4>4. maps'[e][s] = n
        BY <3>5 DEF n
      <4>5. StartsSaved(s, maps[e][s])'
        <5>1. \A l \in saved'[s].instructions : IsInsn(l) =>
                /\ saved'[s].base <= l.offset
                /\ l.offset - saved'[s].base < n.size => l.offset - saved'[s].base \in n.start
          BY <4>1, <4>3
        <5>2. QED
          BY <4>4, <5>1 DEF StartsSaved, IsInsn
      <4>6. Exists(maps'[e][s]) /\ maps'[e][s].size = unified'[s].size
        BY <2>4, <4>2, <4>4
      <4>7. QED
        BY <2>3, <4>1, <4>2, <4>5, <4>6
    <3>6. QED
      BY <3>3, <3>4, <3>5
  <2>11. Flags'
    <3>1. \A s \in Desired : unified[s].branch = {} /\ unified[s].nop = {}
      BY <1>6 DEF Flags
    <3>2. \A s \in Desired : unified'[s].branch = {} /\ unified'[s].nop = {}
      BY <2>6, <2>7, <3>1
    <3>3. QED
      BY <1>10, <3>2 DEF Flags
  <2>12. Directed'
    <3>1. SUFFICES ASSUME in.format = "QEMU", NEW e \in Executables, NEW s \in Desired
                   PROVE  Undirected(maps'[e][s])
      BY <1>9 DEF Directed, Undirected
    <3>2. CASE e # exe \/ s # current
      BY <1>11, <2>2, <3>1, <3>2
    <3>3. CASE e = exe /\ s = current
      <4>1. Undirected(m)
        BY <1>11, <3>1, <3>3 DEF m
      <4>2. \A o \in 0 .. n.size - 1 : ~(n.taken[o] > 0) /\ ~(n.notTaken[o] > 0)
        BY <2>4, <2>5, <4>1 DEF Undirected
      <4>3. QED
        BY <3>3, <4>2 DEF Undirected, n
    <3>4. QED
      BY <3>2, <3>3
  <2>13. QED
    BY <2>8, <2>9, <2>10, <2>11, <2>12
<1>15. QED
  BY <1>13, <1>14

(***************************************************************************)
(* Finalizing, or finding no symbol to finalize, keeps what HandInv says   *)
(* of the maps.                                                            *)
(***************************************************************************)
LEMMA HandFinalizedCurrent ==
  ASSUME CovoarInv, HandInv, phase = "load", in' = in, log' = log, NEW last \in Address,
         current # NoSymbol =>
           /\ last < Word - 1
           /\ \A j \in DOMAIN lines : IsInsn(lines[j]) =>
                lines[j].offset + Room(in.cpu, lines[j]) <= last + 1
           /\ \E j \in DOMAIN lines : Real(in.cpu, lines[j])
           /\ \E j \in DOMAIN lines : IsInsn(lines[j]) /\ lines[j].offset = low,
         NEW next \in {"load", "read"}, FinalizeCurrent(last, next)
  PROVE  Heads' /\ Longest' /\ Remembered' /\ Flags' /\ Directed' /\ phase' \in {next, "exited"}
<1>1. CASE current = NoSymbol
  <2>1. phase' = next /\ UNCHANGED << maps, saved, sizeInBytes, unified >>
    BY <1>1 DEF FinalizeCurrent, symbols
  <2>2. Executables' = Executables
    BY DEF Executables
  <2>3. Heads /\ Longest /\ Remembered /\ Flags /\ Directed
    BY DEF HandInv
  <2>4. Heads' /\ Longest'
    BY <2>1, <2>2, <2>3 DEF Heads, Longest
  <2>5. Remembered'
    BY <2>1, <2>2, <2>3 DEF Remembered, StartsSaved
  <2>6. Flags'
    BY <2>1, <2>3 DEF Flags
  <2>7. Directed'
    BY <2>1, <2>2, <2>3 DEF Directed, Saw
  <2>8. QED
    BY <2>1, <2>4, <2>5, <2>6, <2>7
<1>2. CASE current # NoSymbol
  <2>1. FinalizeSymbol(last, next)
    BY <1>2 DEF FinalizeCurrent
  <2>2. phase' \in {next, "exited"}
    BY <2>1 DEF FinalizeSymbol
  <2>3. QED
    BY <1>2, <2>1, <2>2, HandFinalized
<1>3. QED
  BY <1>1, <1>2

\* No executable is through before its coverage file is.
Untouched == LoadOK /\ phase \in {"load", "read", "exited"} /\ file = 1

\* So nothing is handed over yet.
LEMMA NotThrough == Untouched => Handed
<1> SUFFICES ASSUME Untouched PROVE Handed
  OBVIOUS
<1>1. Executables \subseteq Nat /\ \A e \in Executables : e >= 1
  BY InputFacts DEF Untouched, LoadOK, Executables
<1>2. \A e \in Executables : ~Through(e)
  BY <1>1 DEF Untouched, Through
<1>3. QED
  BY <1>2 DEF Handed

(***************************************************************************)
(* The same of the state after a step.                                     *)
(***************************************************************************)
LEMMA NotThroughNext == Untouched' => Handed'
BY NotThrough, PTL

(***************************************************************************)
(* A label: the last symbol is finalized, and the instruction at the       *)
(* address of the next one is still to come.                               *)
(***************************************************************************)
LEMMA HandLoadLabel ==
  ASSUME CovoarInv, WellFormed(in), Headed(in), HandInv, LoadLabel, CovoarInv'
  PROVE  HandInv'
<1>1. /\ phase = "load" /\ line <= Len(in.dumps[exe]) /\ Line.kind = "label"
      /\ FinalizeCurrent(Wrap(Load(Line.offset) - 1), "load")
      /\ IF Line.symbol \in Desired
           THEN current' = Line.symbol /\ low' = Load(Line.offset) /\ lines' = << Text >>
           ELSE current' = NoSymbol /\ low' = 0 /\ lines' = << >>
      /\ line' = line + 1
      /\ in' = in /\ exe' = exe /\ file' = file /\ log' = log
  BY DEF LoadLabel, reading
<1>2. /\ in \in Inputs /\ exe \in Executables /\ line \in Nat \ {0} /\ LoadOK' /\ file = 1
      /\ lines \in Seq(LineType)
  BY <1>1 DEF CovoarInv, LoadOK, Fresh
<1> DEFINE d == in.dumps[exe]
<1>3. /\ Len(d) \in Nat /\ DOMAIN d = 1 .. Len(d) /\ exe \in DOMAIN in.dumps
      /\ \A k \in DOMAIN d : Placed(d[k]) => At(k) \in Address /\ Load(d[k].offset) = At(k)
      /\ \A j, k \in DOMAIN d : j < k /\ Placed(d[j]) /\ Placed(d[k]) => At(j) <= At(k)
  BY <1>2, PlacedFacts, InputFacts
<1>4. /\ line \in DOMAIN d /\ Line = d[line] /\ Placed(d[line]) /\ d[line].kind = "label"
      /\ Load(Line.offset) = At(line)
  BY <1>1, <1>2, <1>3 DEF Line, Placed
<1> DEFINE last == Wrap(At(line) - 1)
<1>5. last \in Address
  <2>1. At(line) \in Address /\ Address \subseteq Int
    BY <1>3, <1>4, WordAssumption DEF Address
  <2>2. At(line) \in Int
    BY <2>1
  <2>3. At(line) - 1 \in Int
    BY <2>2
  <2>4. QED
    BY <2>3, WrapType
<1>6. ASSUME current # NoSymbol
      PROVE  /\ last < Word - 1
             /\ \A j \in DOMAIN lines : IsInsn(lines[j]) =>
                  lines[j].offset + Room(in.cpu, lines[j]) <= last + 1
             /\ \E j \in DOMAIN lines : Real(in.cpu, lines[j])
             /\ \E j \in DOMAIN lines : IsInsn(lines[j]) /\ lines[j].offset = low
  <2>1. /\ last < Word - 1 /\ low < At(line)
        /\ \A j \in DOMAIN lines : IsInsn(lines[j]) =>
             lines[j].offset + Room(in.cpu, lines[j]) <= last + 1
        /\ \E j \in DOMAIN lines : Real(in.cpu, lines[j])
    BY <1>1, <1>4, <1>6, EndedByLabel
  <2>2. HeadAhead
    BY <1>1, <1>6 DEF HandInv, Heading
  <2>3. ASSUME NEW j \in Rest, d[j].kind = "insn", At(j) = low PROVE FALSE
    <3>1. j \in DOMAIN d /\ Placed(d[j]) /\ (j = line \/ line < j)
      BY <1>2, <1>3, <2>3 DEF Rest, Placed
    <3>2. j # line
      BY <1>4, <2>3
    <3>3. At(line) <= At(j)
      BY <1>3, <1>4, <3>1, <3>2
    <3>4. low \in Int /\ At(line) \in Int
      BY <1>3, <1>4, WordAssumption DEF CovoarInv, LoadOK, Address
    <3>5. QED
      BY <2>1, <2>3, <3>3, <3>4
  <2>4. QED
    BY <2>1, <2>2, <2>3 DEF HeadAhead
<1>7. Heads' /\ Longest' /\ Remembered' /\ Flags' /\ Directed' /\ phase' \in {"load", "exited"}
  <2>1. FinalizeCurrent(last, "load")
    BY <1>1, <1>4
  <2> HIDE DEF last
  <2>2. QED
    BY <1>1, <1>5, <1>6, <2>1, HandFinalizedCurrent
<1>8. Handed'
  <2>1. LoadOK' /\ phase' \in {"load", "read", "exited"} /\ file' = 1
    BY <1>1, <1>2, <1>7
  <2>2. QED
    BY <2>1, NotThroughNext DEF Untouched
<1>9. Heading'
  <2>1. SUFFICES ASSUME current' # NoSymbol PROVE HeadAhead'
    BY DEF Heading
  <2>2. d[line].symbol \in Desired /\ low' = At(line)
    BY <1>1, <1>4, <2>1
  <2>3. PICK j \in line + 1 .. Len(d) : d[j].kind = "insn" /\ d[j].offset = d[line].offset
    BY <1>3, <1>4, <2>2 DEF Headed
  <2>4. j \in Rest' /\ At(j)' = low' /\ in'.dumps[exe'][j].kind = "insn"
    BY <1>1, <2>2, <2>3 DEF Rest, At
  <2>5. QED
    BY <2>4 DEF HeadAhead, At
<1>10. QED
  BY <1>7, <1>8, <1>9 DEF HandInv

(***************************************************************************)
(* A line of a symbol: when it is the instruction at its address, it is    *)
(* kept from now on.                                                       *)
(***************************************************************************)
LEMMA HandLoadLine ==
  ASSUME CovoarInv, WellFormed(in), HandInv, LoadLine, CovoarInv'
  PROVE  HandInv'
<1> DEFINE new == IF IsInsn(Line) THEN [Line EXCEPT !.offset = Load(@)] ELSE Text
<1>1. /\ phase = "load" /\ line <= Len(in.dumps[exe]) /\ Line.kind # "label"
      /\ lines' = IF current = NoSymbol THEN lines ELSE Append(lines, new)
      /\ line' = line + 1 /\ phase' = phase /\ current' = current /\ low' = low
      /\ in' = in /\ exe' = exe /\ file' = file /\ log' = log
      /\ maps' = maps /\ saved' = saved /\ sizeInBytes' = sizeInBytes /\ unified' = unified
  BY DEF LoadLine, reading, symbols
<1>2. /\ in \in Inputs /\ exe \in Executables /\ line \in Nat \ {0} /\ lines \in Seq(LineType)
      /\ lines' \in Seq(LineType) /\ LoadOK' /\ file = 1
  BY <1>1 DEF CovoarInv, LoadOK, Fresh
<1> DEFINE d == in.dumps[exe]
<1>3. /\ Len(d) \in Nat /\ DOMAIN d = 1 .. Len(d)
      /\ \A k \in DOMAIN d : /\ d[k] \in LineType
                             /\ Placed(d[k]) => At(k) \in Address /\ Load(d[k].offset) = At(k)
  BY <1>2, PlacedFacts
<1>4. line \in DOMAIN d /\ Line = d[line]
  BY <1>1, <1>2, <1>3 DEF Line
<1>5. Executables' = Executables
  BY <1>1 DEF Executables
<1>6. Heading /\ Heads /\ Longest /\ Remembered /\ Flags /\ Directed
  BY DEF HandInv
<1>7. Heads' /\ Longest'
  BY <1>1, <1>5, <1>6 DEF Heads, Longest
<1>8. Remembered'
  BY <1>1, <1>5, <1>6 DEF Remembered, StartsSaved
<1>9. Flags'
  BY <1>1, <1>6 DEF Flags
<1>10. Directed'
  BY <1>1, <1>5, <1>6 DEF Directed, Saw
<1>11. Handed'
  <2>1. LoadOK' /\ phase' \in {"load", "read", "exited"} /\ file' = 1
    BY <1>1, <1>2
  <2>2. QED
    BY <2>1, NotThroughNext DEF Untouched
<1>12. Heading'
  <2>1. SUFFICES ASSUME current # NoSymbol PROVE HeadAhead'
    BY <1>1 DEF Heading
  <2>2. HeadAhead
    BY <1>1, <1>6, <2>1 DEF Heading
  <2>3. lines' = Append(lines, new)
    BY <1>1, <2>1
  <2>4. /\ \A j \in DOMAIN lines : j \in DOMAIN lines' /\ lines'[j] = lines[j]
        /\ IsInsn(Line) => \E n \in DOMAIN lines' : lines'[n] = new
    <3>1. Len(lines) \in Nat /\ DOMAIN lines = 1 .. Len(lines)
      BY <1>2, LenProperties
    <3>2. DOMAIN lines' = 1 .. Len(lines')
      BY <1>2, LenProperties
    <3>3. new \in LineType
      <4>1. CASE IsInsn(d[line])
        <5>1. d[line] \in [kind : {"insn"}, offset : Address, op : STRING] /\ Placed(d[line])
          BY <1>3, <1>4, <4>1 DEF LineType, IsInsn, Placed
        <5>2. new = [d[line] EXCEPT !.offset = At(line)] /\ At(line) \in Address
          BY <1>3, <1>4, <4>1, <5>1
        <5> HIDE DEF new, d
        <5>3. new \in [kind : {"insn"}, offset : Address, op : STRING]
          BY <5>1, <5>2
        <5>4. QED
          BY <5>3 DEF LineType
      <4>2. CASE ~IsInsn(d[line])
        <5>1. new = Text
          BY <1>4, <4>2
        <5> HIDE DEF new
        <5>2. QED
          BY <5>1 DEF Text, LineType
      <4>3. QED
        BY <4>1, <4>2
    <3> HIDE DEF new
    <3>4. /\ Len(lines') = Len(lines) + 1 /\ lines'[Len(lines) + 1] = new
          /\ \A j \in 1 .. Len(lines) : lines'[j] = lines[j]
      BY <1>2, <2>3, <3>3, AppendProperties
    <3>5. QED
      BY <3>1, <3>2, <3>4
  <2>5. CASE \E j \in DOMAIN lines : IsInsn(lines[j]) /\ lines[j].offset = low
    <3>1. PICK j \in DOMAIN lines : IsInsn(lines[j]) /\ lines[j].offset = low
      BY <2>5
    <3>2. j \in DOMAIN lines' /\ IsInsn(lines'[j]) /\ lines'[j].offset = low'
      BY <1>1, <2>4, <3>1
    <3>3. QED
      BY <3>2 DEF HeadAhead, IsInsn
  <2>6. CASE \E j \in Rest : d[j].kind = "insn" /\ At(j) = low
    <3>1. PICK j \in Rest : d[j].kind = "insn" /\ At(j) = low
      BY <2>6
    <3>2. j \in DOMAIN d /\ (j = line \/ j \in Rest')
      BY <1>1, <1>2, <1>3, <3>1 DEF Rest
    <3>3. CASE j = line
      <4>1. IsInsn(Line) /\ Placed(d[line])
        BY <1>4, <3>1, <3>3 DEF IsInsn, Placed
      <4>2. PICK n \in DOMAIN lines' : lines'[n] = new
        BY <2>4, <4>1
      <4>3. new.offset = At(line) /\ new.kind = "insn"
        <5>1. d[line] \in [kind : {"insn"}, offset : Address, op : STRING]
          BY <1>3, <1>4, <4>1 DEF LineType, IsInsn
        <5>2. new = [d[line] EXCEPT !.offset = At(line)]
          BY <1>3, <1>4, <4>1
        <5> HIDE DEF new, d
        <5>3. QED
          BY <5>1, <5>2
      <4>4. lines'[n].kind = "insn" /\ lines'[n].offset = low'
        BY <1>1, <3>1, <3>3, <4>2, <4>3
      <4>5. QED
        BY <4>4 DEF HeadAhead, IsInsn
    <3>4. CASE j \in Rest'
      <4>1. in'.dumps[exe'][j].kind = "insn" /\ At(j)' = low'
        BY <1>1, <3>1 DEF At
      <4>2. QED
        BY <3>4, <4>1 DEF HeadAhead, At
    <3>5. QED
      BY <3>2, <3>3, <3>4
  <2>7. QED
    BY <2>2, <2>5, <2>6 DEF HeadAhead
<1>13. QED
  BY <1>7, <1>8, <1>9, <1>10, <1>11, <1>12 DEF HandInv

(***************************************************************************)
(* The end of a disassembly finalizes the last symbol.                     *)
(***************************************************************************)
LEMMA HandLoadEnd ==
  ASSUME CovoarInv, WellFormed(in), HandInv, LoadEnd, CovoarInv'
  PROVE  HandInv'
<1> DEFINE next == IF exe = Len(in.dumps) THEN "read" ELSE "load"
<1> DEFINE last == Load(offset)
<1>1. /\ phase = "load" /\ line > Len(in.dumps[exe]) /\ FinalizeCurrent(last, next)
      /\ current' = NoSymbol /\ in' = in /\ file' = file /\ log' = log
  BY DEF LoadEnd, reading
<1>2. /\ in \in Inputs /\ exe \in Executables /\ offset \in Address /\ LoadOK' /\ file = 1
  BY <1>1 DEF CovoarInv, LoadOK, Fresh
<1>3. last \in Address
  <2>1. in.loadAddress[exe] \in Int /\ offset \in Int
    BY <1>2, PlacedFacts, WordAssumption DEF Address
  <2>2. in.loadAddress[exe] + offset \in Int
    BY <2>1
  <2>3. QED
    BY <2>2, WrapType DEF Load
<1>4. ASSUME current # NoSymbol
      PROVE  /\ last < Word - 1
             /\ \A j \in DOMAIN lines : IsInsn(lines[j]) =>
                  lines[j].offset + Room(in.cpu, lines[j]) <= last + 1
             /\ \E j \in DOMAIN lines : Real(in.cpu, lines[j])
             /\ \E j \in DOMAIN lines : IsInsn(lines[j]) /\ lines[j].offset = low
  <2>1. HeadAhead
    BY <1>1, <1>4 DEF HandInv, Heading
  <2>2. /\ last < Word - 1
        /\ \A j \in DOMAIN lines : IsInsn(lines[j]) =>
             lines[j].offset + Room(in.cpu, lines[j]) <= last + 1
        /\ \E j \in DOMAIN lines : Real(in.cpu, lines[j])
        /\ Rest = {}
    BY <1>1, <1>4, EndedByFile
  <2>3. QED
    BY <2>1, <2>2 DEF HeadAhead
<1>5. next \in {"load", "read"}
  OBVIOUS
<1> HIDE DEF next, last
<1>6. Heads' /\ Longest' /\ Remembered' /\ Flags' /\ Directed' /\ phase' \in {next, "exited"}
  BY <1>1, <1>3, <1>4, <1>5, HandFinalizedCurrent
<1>7. Handed'
  <2>1. LoadOK' /\ phase' \in {"load", "read", "exited"} /\ file' = 1
    BY <1>1, <1>2, <1>5, <1>6
  <2>2. QED
    BY <2>1, NotThroughNext DEF Untouched
<1>8. Heading'
  BY <1>1 DEF Heading
<1>9. QED
  BY <1>6, <1>7, <1>8 DEF HandInv

(***************************************************************************)
(* A direction a QEMU entry adds is that of the instruction its block      *)
(* ended with.                                                             *)
(***************************************************************************)
LEMMA TakenFacts ==
  ASSUME NEW m, Fits(m), NEW y, NEW o \in 0 .. m.size - 1
  PROVE  /\ SetTaken(m, y).notTaken = m.notTaken /\ SetNotTaken(m, y).taken = m.taken
         /\ SetTaken(m, y).taken[o] > 0 => m.taken[o] > 0 \/ Offset(m, y) = o
         /\ SetNotTaken(m, y).notTaken[o] > 0 => m.notTaken[o] > 0 \/ Offset(m, y) = o
<1>1. /\ SetTaken(m, y).notTaken = m.notTaken /\ SetNotTaken(m, y).taken = m.taken
      /\ SetTaken(m, y).taken = Raised(m, m.taken, {y})
      /\ SetNotTaken(m, y).notTaken = Raised(m, m.notTaken, {y})
  BY DEF SetTaken, SetNotTaken, Fits, IsMap
<1>2. m.taken \in [0 .. m.size - 1 -> Nat] /\ m.notTaken \in [0 .. m.size - 1 -> Nat]
  BY DEF Fits, MapOK
<1>3. IsFiniteSet({y})
  BY FS_Singleton
<1>4. Offset(m, y) # o => Hits(m, {y}, o) = 0
  <2>1. SUFFICES ASSUME Offset(m, y) # o PROVE Hits(m, {y}, o) = 0
    OBVIOUS
  <2>2. {x \in {y} : InMap(m, x) /\ Offset(m, x) = o} = {}
    BY <2>1
  <2>3. Cardinality({}) = 0
    BY FS_EmptySet
  <2>4. QED
    BY <2>2, <2>3 DEF Hits
<1>5. /\ Raised(m, m.taken, {y})[o] = m.taken[o] + Hits(m, {y}, o)
      /\ Raised(m, m.notTaken, {y})[o] = m.notTaken[o] + Hits(m, {y}, o)
  <2>1. Raised(m, m.taken, {y})[o] = m.taken[o] + Hits(m, {y}, o)
    <3> DEFINE f == m.taken
    <3> DEFINE X == {y}
    <3>1. f \in [0 .. m.size - 1 -> Nat] /\ IsFiniteSet(X)
      BY <1>2, <1>3
    <3> HIDE DEF f, X
    <3>2. \A p \in 0 .. m.size - 1 : Raised(m, f, X)[p] = f[p] + Hits(m, X, p)
      BY <3>1, RaisedFacts
    <3>3. Raised(m, f, X)[o] = f[o] + Hits(m, X, o)
      BY ONLY o \in 0 .. m.size - 1, <3>2
    <3>4. QED
      BY <3>3 DEF f, X
  <2>2. Raised(m, m.notTaken, {y})[o] = m.notTaken[o] + Hits(m, {y}, o)
    <3> DEFINE f == m.notTaken
    <3> DEFINE X == {y}
    <3>1. f \in [0 .. m.size - 1 -> Nat] /\ IsFiniteSet(X)
      BY <1>2, <1>3
    <3> HIDE DEF f, X
    <3>2. \A p \in 0 .. m.size - 1 : Raised(m, f, X)[p] = f[p] + Hits(m, X, p)
      BY <3>1, RaisedFacts
    <3>3. Raised(m, f, X)[o] = f[o] + Hits(m, X, o)
      BY ONLY o \in 0 .. m.size - 1, <3>2
    <3>4. QED
      BY <3>3 DEF f, X
  <2>3. QED
    BY <2>1, <2>2
<1>6. m.taken[o] \in Nat /\ m.notTaken[o] \in Nat
  BY <1>2
<1> DEFINE h == Hits(m, {y}, o)
<1>7. Offset(m, y) # o => h = 0
  BY <1>4
<1>8. /\ SetTaken(m, y).taken[o] = m.taken[o] + h
      /\ SetNotTaken(m, y).notTaken[o] = m.notTaken[o] + h
  BY <1>1, <1>5
<1> HIDE DEF h
<1>9. QED
  BY <1>1, <1>6, <1>7, <1>8

(***************************************************************************)
(* A direction a whole entry adds: it names the direction, and its block   *)
(* ended in the instruction at that offset.                                *)
(***************************************************************************)
LEMMA MarkedDirections ==
  ASSUME in.format = "QEMU", NEW m, Fits(m), Apart(m), 0 \in m.start, NEW x \in EntryType,
         NEW o \in 0 .. m.size - 1
  PROVE  /\ Marked(m, x).taken[o] > 0 =>
              m.taken[o] > 0 \/ ("taken" \in x.op /\ EndsAt(m, x, o))
         /\ Marked(m, x).notTaken[o] > 0 =>
              m.notTaken[o] > 0 \/ ("notTaken" \in x.op /\ EndsAt(m, x, o))
<1> DEFINE last == x.pc + x.size - 1
<1> DEFINE b == IF "block" \in x.op THEN SetExecuted(m, x.pc .. last) ELSE m
<1> DEFINE y == LastStart(m, last)
<1>1. x.pc \in Int /\ last \in Int
  <2>1. x.pc \in Int /\ x.size \in Int
    BY WordAssumption DEF EntryType, Address
  <2>2. QED
    BY <2>1
<1>2. /\ Fits(b) /\ b.ranges = m.ranges /\ b.size = m.size
      /\ b.taken = m.taken /\ b.notTaken = m.notTaken
  <2>1. IsFiniteSet(x.pc .. last)
    <3> HIDE DEF last
    <3>1. QED
      BY <1>1, FS_Interval
  <2> HIDE DEF last
  <2>2. Grown(m, SetExecuted(m, x.pc .. last))
    BY <2>1, ExecutedGrown
  <2>3. /\ SetExecuted(m, x.pc .. last).taken = m.taken
        /\ SetExecuted(m, x.pc .. last).notTaken = m.notTaken
    BY DEF SetExecuted, Fits, IsMap
  <2>4. QED
    BY <2>2, <2>3 DEF Grown
<1>3. Marked(m, x) =
        IF x.op \cap {"taken", "notTaken"} # {} /\ InMap(m, last) /\ InMap(m, x.pc)
          THEN Directions(b, IF "taken" \in x.op THEN {"taken"} ELSE {"notTaken"}, y)
          ELSE b
  BY DEF Marked, MarkQEMU
<1>4. CASE ~(x.op \cap {"taken", "notTaken"} # {} /\ InMap(m, last) /\ InMap(m, x.pc))
  <2>1. Marked(m, x) = b
    BY <1>3, <1>4
  <2> HIDE DEF b
  <2>2. QED
    BY <1>2, <2>1
<1>5. CASE x.op \cap {"taken", "notTaken"} # {} /\ InMap(m, last) /\ InMap(m, x.pc)
  <2>1. /\ Offset(m, y) \in m.start /\ Offset(m, y) <= Offset(m, last)
        /\ \A p \in Offset(m, y) + 1 .. Offset(m, last) : p \notin m.start
    <3> HIDE DEF last
    <3>1. QED
      BY <1>1, <1>5, LastStartFacts
  <2>2. Offset(b, y) = Offset(m, y)
    <3> HIDE DEF b, y
    <3>1. QED
      BY <1>2, SameRanges
  <2>3. Offset(b, y) = o => EndsAt(m, x, o)
    <3> HIDE DEF b
    <3>1. QED
      BY <1>5, <2>1, <2>2 DEF EndsAt
  <2>4. \/ "taken" \in x.op /\ Marked(m, x) = SetTaken(b, y)
        \/ "notTaken" \in x.op /\ Marked(m, x) = SetNotTaken(b, y)
    <3> HIDE DEF b, y, last
    <3>1. CASE "taken" \in x.op
      <4>1. Marked(m, x) = Directions(b, {"taken"}, y)
        BY <1>3, <1>5, <3>1
      <4>2. QED
        BY <3>1, <4>1 DEF Directions
    <3>2. CASE "taken" \notin x.op
      <4>1. "notTaken" \in x.op
        BY <1>5, <3>2
      <4>2. Marked(m, x) = Directions(b, {"notTaken"}, y)
        BY <1>3, <1>5, <3>2
      <4>3. QED
        BY <4>1, <4>2 DEF Directions
    <3>3. QED
      BY <3>1, <3>2
  <2> HIDE DEF b, y, last
  <2>5. o \in 0 .. b.size - 1
    BY <1>2
  <2>6. /\ SetTaken(b, y).notTaken = b.notTaken /\ SetNotTaken(b, y).taken = b.taken
        /\ SetTaken(b, y).taken[o] > 0 => b.taken[o] > 0 \/ Offset(b, y) = o
        /\ SetNotTaken(b, y).notTaken[o] > 0 => b.notTaken[o] > 0 \/ Offset(b, y) = o
    BY <1>2, <2>5, TakenFacts
  <2>7. QED
    BY <1>2, <2>3, <2>4, <2>6
<1>6. QED
  BY <1>4, <1>5

(***************************************************************************)
(* An entry read, for HandInv.                                             *)
(***************************************************************************)
LEMMA HandReadEntry ==
  ASSUME CovoarInv, HandInv, ReadEntry, CovoarInv'
  PROVE  HandInv'
<1>1. /\ phase = "read" /\ in' = in /\ phase' = phase /\ saved' = saved
      /\ sizeInBytes' = sizeInBytes /\ unified' = unified /\ file' = file
  BY DEF ReadEntry
<1>2. PICK x \in Entries :
        /\ maps' = [maps EXCEPT ![Reader] =
                      [s \in Desired |-> IF Lookup(Reader, x.pc, s)
                                           THEN Marked(maps[Reader][s], x)
                                           ELSE maps[Reader][s]]]
        /\ log' = Append(log, [exe |-> Reader, entry |-> x])
  BY DEF ReadEntry
<1>3. /\ DOMAIN maps = Executables /\ \A e \in Executables : DOMAIN maps[e] = Desired
      /\ Table /\ Tied /\ MapsFit
  BY DEF CovoarInv, Domains
<1>4. Executables' = Executables
  BY <1>1 DEF Executables
<1>5. \A e \in Executables, s \in Desired :
        /\ Fits(maps[e][s]) /\ maps'[e][s].ranges = maps[e][s].ranges
        /\ maps'[e][s].size = maps[e][s].size /\ maps'[e][s].start = maps[e][s].start
  BY EntryGrown DEF Grown
<1>6. Heads /\ Longest /\ Remembered /\ Handed /\ Flags /\ Directed
  BY DEF HandInv
<1>7. Heading'
  BY <1>1 DEF Heading
<1>8. Heads'
  BY <1>4, <1>5, <1>6 DEF Heads, Exists
<1>9. Longest'
  BY <1>1, <1>4, <1>5, <1>6 DEF Longest, Exists
<1>10. Remembered'
  <2>1. SUFFICES ASSUME NEW s \in Desired, Exists(unified[s])
                 PROVE  \E e \in Executables :
                          /\ Exists(maps'[e][s]) /\ maps'[e][s].size = unified[s].size
                          /\ StartsSaved(s, maps[e][s])'
    BY <1>1, <1>4, <1>6 DEF Remembered
  <2>2. PICK e \in Executables : /\ Exists(maps[e][s]) /\ maps[e][s].size = unified[s].size
                                 /\ StartsSaved(s, maps[e][s])
    BY <1>6, <2>1 DEF Remembered
  <2>3. StartsSaved(s, maps[e][s])'
    BY <1>1, <1>5, <2>2 DEF StartsSaved
  <2>4. Exists(maps'[e][s]) /\ maps'[e][s].size = unified[s].size
    BY <1>5, <2>2 DEF Exists
  <2>5. QED
    BY <2>3, <2>4
<1>11. Handed'
  <2>1. \A e : Through(e)' <=> Through(e)
    BY <1>1 DEF Through
  <2>2. QED
    BY <1>1, <1>4, <1>5, <1>6, <2>1 DEF Handed, Exists
<1>12. Flags'
  BY <1>1, <1>6 DEF Flags
<1> DEFINE entry == [exe |-> Reader, entry |-> x]
<1> DEFINE n == Len(log) + 1
<1>13. /\ n \in DOMAIN log' /\ log'[n] = entry
       /\ \A k \in DOMAIN log : k \in DOMAIN log' /\ log'[k] = log[k]
  <2> DEFINE LT == [exe : Executables, entry : Entries]
  <2>1. in \in Inputs /\ file \in 1 .. in.files /\ log \in Seq(LT)
    BY DEF CovoarInv, LoadOK, Fresh
  <2>2. entry \in LT
    BY <1>2, <2>1, InputFacts DEF Reader, Executables
  <2> HIDE DEF entry, LT
  <2>3. log' = Append(log, entry)
    BY <1>2 DEF entry
  <2>4. /\ log' \in Seq(LT) /\ Len(log') = n /\ log'[n] = entry
        /\ \A k \in 1 .. Len(log) : log'[k] = log[k]
    BY <2>1, <2>2, <2>3, AppendProperties
  <2>5. Len(log) \in Nat /\ DOMAIN log = 1 .. Len(log) /\ DOMAIN log' = 1 .. Len(log')
    BY <2>1, <2>4, LenProperties
  <2>6. QED
    BY <2>4, <2>5
<1> HIDE DEF n
<1>14. Directed'
  <2>1. SUFFICES ASSUME in.format = "QEMU", NEW e \in Executables, NEW s \in Desired,
                        NEW o \in 0 .. maps[e][s].size - 1
                 PROVE  /\ maps'[e][s].taken[o] > 0 => Saw(e, s, "taken", o)'
                        /\ maps'[e][s].notTaken[o] > 0 => Saw(e, s, "notTaken", o)'
    BY <1>1, <1>4, <1>5 DEF Directed
  <2> DEFINE m == maps[e][s]
  <2>2. \A z : EndsAt(maps'[e][s], z, o) <=> EndsAt(m, z, o)
    <3>1. maps'[e][s].ranges = m.ranges /\ maps'[e][s].start = m.start
      BY <1>5
    <3> HIDE DEF m
    <3>2. QED
      BY <3>1, SameRanges DEF EndsAt
  <2>3. ASSUME NEW d, Saw(e, s, d, o) PROVE Saw(e, s, d, o)'
    <3>1. PICK k \in DOMAIN log : /\ log[k].exe = e /\ d \in log[k].entry.op
                                  /\ EndsAt(m, log[k].entry, o)
      BY <2>3 DEF Saw
    <3>2. k \in DOMAIN log' /\ log'[k] = log[k]
      BY <1>13
    <3>3. QED
      BY <2>2, <3>1, <3>2 DEF Saw
  <2>4. /\ m.taken[o] > 0 => Saw(e, s, "taken", o)
        /\ m.notTaken[o] > 0 => Saw(e, s, "notTaken", o)
    BY <1>6, <2>1 DEF Directed
  <2>5. CASE maps'[e][s] = m
    BY <2>3, <2>4, <2>5
  <2>6. CASE e = Reader /\ maps'[e][s] = Marked(m, x) /\ Exists(m)
    <3>1. Fits(m) /\ Apart(m) /\ 0 \in m.start
      BY <1>3, <1>5, <1>6, <2>6, MapsApart DEF Heads
    <3>2. x \in EntryType
      BY InputAssumption
    <3> HIDE DEF m
    <3>3. o \in 0 .. m.size - 1
      BY DEF m
    <3>4. /\ Marked(m, x).taken[o] > 0 =>
               m.taken[o] > 0 \/ ("taken" \in x.op /\ EndsAt(m, x, o))
          /\ Marked(m, x).notTaken[o] > 0 =>
               m.notTaken[o] > 0 \/ ("notTaken" \in x.op /\ EndsAt(m, x, o))
      BY <2>1, <3>1, <3>2, <3>3, MarkedDirections
    <3>5. ASSUME NEW d, d \in x.op, EndsAt(m, x, o) PROVE Saw(e, s, d, o)'
      <4>1. log'[n].exe = e /\ log'[n].entry = x /\ n \in DOMAIN log'
        BY <1>13, <2>6
      <4>2. EndsAt(maps'[e][s], x, o)
        BY <2>2, <3>5
      <4>3. QED
        BY <3>5, <4>1, <4>2 DEF Saw
    <3>6. QED
      BY <2>3, <2>4, <2>6, <3>4, <3>5
  <2>7. maps'[e][s] = m \/ (e = Reader /\ maps'[e][s] = Marked(m, x) /\ Exists(m))
    <3>1. CASE e = Reader /\ Lookup(Reader, x.pc, s)
      <4>1. maps'[e][s] = Marked(m, x)
        BY <1>2, <1>3, <3>1
      <4>2. PICK t \in contents[e] : t.symbol = s
        BY <3>1 DEF Lookup
      <4>3. PICK i \in DOMAIN m.ranges : m.ranges[i].low = t.low
        BY <1>3, <4>2 DEF Tied
      <4>4. Exists(m)
        BY <4>3 DEF Exists
      <4>5. QED
        BY <3>1, <4>1, <4>4
    <3>2. CASE ~(e = Reader /\ Lookup(Reader, x.pc, s))
      BY <1>2, <1>3, <3>2
    <3>3. QED
      BY <3>1, <3>2
  <2>8. QED
    BY <2>5, <2>6, <2>7
<1>15. QED
  BY <1>7, <1>8, <1>9, <1>10, <1>11, <1>12, <1>14 DEF HandInv

(***************************************************************************)
(* A coverage file merged: the starts of its executable are in the unified *)
(* maps of the same size from now on.                                      *)
(***************************************************************************)
LEMMA HandEndOfFile ==
  ASSUME CovoarInv, HandInv, EndOfFile, CovoarInv'
  PROVE  HandInv'
<1>1. /\ phase = "read"
      /\ unified' = [s \in Desired |->
                       IF Exists(maps[Reader][s]) THEN MergeCoverageMap(s, maps[Reader][s])
                                                  ELSE unified[s]]
      /\ phase' = IF file = in.files THEN "preprocess" ELSE "read"
      /\ file' = IF file = in.files THEN file ELSE file + 1
      /\ in' = in /\ maps' = maps
      /\ saved' = saved /\ sizeInBytes' = sizeInBytes /\ log' = log
  BY DEF EndOfFile
<1>2. /\ in \in Inputs /\ file \in 1 .. in.files /\ sizeInBytes \in [Desired -> Address]
      /\ MapsFit /\ UnifiedFit /\ Paired
  BY DEF CovoarInv, LoadOK
<1>3. Executables' = Executables
  BY <1>1 DEF Executables
<1>4. Heads /\ Longest /\ Remembered /\ Handed /\ Flags /\ Directed
  BY DEF HandInv
<1>5. Reader \in Executables
  BY <1>2, InputFacts DEF Reader, Executables
<1>6. ASSUME NEW s \in Desired
      PROVE  /\ unified'[s].ranges = unified[s].ranges /\ unified'[s].size = unified[s].size
             /\ unified'[s].branch = unified[s].branch /\ unified'[s].nop = unified[s].nop
             /\ unified[s].start \subseteq unified'[s].start
             /\ Exists(maps[Reader][s]) /\ maps[Reader][s].size = sizeInBytes[s] =>
                  \A o \in maps[Reader][s].start : o < unified[s].size => o \in unified'[s].start
  <2> DEFINE m == maps[Reader][s]
  <2> DEFINE u == unified[s]
  <2>1. Fits(m) /\ Fits(u)
    BY <1>2, <1>5 DEF MapsFit, UnifiedFit
  <2>2. unified'[s] = IF Exists(m) /\ sizeInBytes[s] = m.size THEN Merge(u, m, sizeInBytes[s])
                                                             ELSE u
    BY <1>1 DEF MergeCoverageMap
  <2>3. CASE ~(Exists(m) /\ sizeInBytes[s] = m.size)
    BY <2>2, <2>3
  <2>4. CASE Exists(m) /\ sizeInBytes[s] = m.size
    <3>1. Unified(u)
      BY <1>2, <1>5, <2>4 DEF Paired, UnifiedFit
    <3>2. m.size \in Nat /\ u.size \in Int
      BY <2>1, WordAssumption DEF Fits, MapOK, Address
    <3>3. unified'[s] = Merge(u, m, m.size)
      BY <2>2, <2>4
    <3> DEFINE w == unified'[s]
    <3> HIDE DEF m, u, w
    <3>4. /\ w.ranges = u.ranges /\ w.size = u.size /\ w.branch = u.branch /\ w.nop = u.nop
          /\ w.start = u.start \cup
               {o \in 0 .. m.size - 1 : InMap(u, o) /\ IsStart(m, m.ranges[1].low + o)}
      BY <2>1, <2>4, <3>1, <3>2, <3>3, MergeFits DEF w
    <3>5. ASSUME NEW o \in m.start, o < u.size PROVE o \in w.start
      <4>1. o \in 0 .. m.size - 1
        BY <2>1 DEF Fits, MapOK
      <4>2. IsStart(m, m.ranges[1].low + o)
        BY <2>1, <2>4, <4>1, FirstRange DEF IsStart
      <4>3. InMap(u, o)
        <5>1. o \in Int /\ 0 <= o /\ o <= u.size - 1
          BY <3>2, <3>5, <4>1
        <5>2. DOMAIN u.ranges = {1} /\ u.ranges[1].low = 0 /\ u.ranges[1].high = u.size - 1
          BY <3>1 DEF Unified
        <5>3. QED
          BY <5>1, <5>2 DEF InMap, Holds
      <4>4. QED
        BY <3>4, <4>1, <4>2, <4>3
    <3>6. QED
      BY <3>4, <3>5 DEF m, u, w
  <2>5. QED
    BY <2>3, <2>4
<1>7. Heading'
  BY <1>1 DEF Heading
<1>8. Heads'
  BY <1>1, <1>3, <1>4 DEF Heads
<1>9. Longest'
  BY <1>1, <1>3, <1>4, <1>6 DEF Longest, Exists
<1>10. Remembered'
  <2>1. \A s, m : StartsSaved(s, m) =>
          \A l \in saved'[s].instructions : IsInsn(l) =>
            /\ saved'[s].base <= l.offset
            /\ l.offset - saved'[s].base < m.size => l.offset - saved'[s].base \in m.start
    BY <1>1 DEF StartsSaved
  <2>2. SUFFICES ASSUME NEW s \in Desired
                 PROVE  /\ OneByOne(saved'[s].instructions)
                        /\ saved'[s].instructions = {} <=> ~Exists(unified'[s])
                        /\ Exists(unified'[s]) =>
                             \E e \in Executables :
                               /\ Exists(maps'[e][s]) /\ maps'[e][s].size = unified'[s].size
                               /\ StartsSaved(s, maps[e][s])'
    BY <1>3 DEF Remembered, OneByOne
  <2>3. Exists(unified'[s]) <=> Exists(unified[s])
    BY <1>6 DEF Exists
  <2>4. /\ OneByOne(saved'[s].instructions)
        /\ saved'[s].instructions = {} <=> ~Exists(unified[s])
    BY <1>1, <1>4 DEF Remembered
  <2>5. ASSUME Exists(unified[s])
        PROVE  \E e \in Executables :
                 /\ Exists(maps'[e][s]) /\ maps'[e][s].size = unified'[s].size
                 /\ StartsSaved(s, maps[e][s])'
    <3>1. PICK e \in Executables : /\ Exists(maps[e][s]) /\ maps[e][s].size = unified[s].size
                                   /\ StartsSaved(s, maps[e][s])
      BY <1>4, <2>5 DEF Remembered
    <3>2. StartsSaved(s, maps[e][s])'
      BY <1>1, <3>1 DEF StartsSaved
    <3>3. QED
      BY <1>1, <1>6, <3>1, <3>2
  <2>6. QED
    BY <2>3, <2>4, <2>5
<1>11. Handed'
  <2>1. SUFFICES ASSUME NEW e \in Executables, NEW s \in Desired, Through(e)',
                        Exists(maps[e][s]), maps[e][s].size = sizeInBytes[s],
                        NEW o \in maps[e][s].start, o < unified[s].size
                 PROVE  o \in unified'[s].start
    BY <1>1, <1>3, <1>6 DEF Handed
  <2>2. e = Reader \/ Through(e)
    <3>1. /\ file \in Int /\ in.files \in Int /\ e \in Int /\ 1 <= e /\ e <= Len(in.dumps)
          /\ file <= in.files
          /\ Len(in.dumps) = IF in.single THEN 1 ELSE in.files
      BY <1>2, InputFacts, InputAssumption DEF Executables
    <3>2. CASE in.single
      BY <3>1, <3>2 DEF Reader
    <3>3. CASE ~in.single
      <4>1. e <= file
        <5>1. CASE file = in.files
          BY <3>1, <3>3, <5>1
        <5>2. CASE file # in.files
          BY <1>1, <2>1, <3>1, <5>2 DEF Through
        <5>3. QED
          BY <5>1, <5>2
      <4>2. QED
        BY <1>1, <3>1, <3>3, <4>1 DEF Reader, Through
    <3>4. QED
      BY <3>2, <3>3
  <2>3. CASE e = Reader
    BY <1>6, <2>1, <2>3
  <2>4. CASE Through(e)
    BY <1>4, <1>6, <2>1, <2>4 DEF Handed
  <2>5. QED
    BY <2>2, <2>3, <2>4
<1>12. Flags'
  BY <1>1, <1>4, <1>6 DEF Flags
<1>13. Directed'
  BY <1>1, <1>3, <1>4 DEF Directed, Saw
<1>14. QED
  BY <1>7, <1>8, <1>9, <1>10, <1>11, <1>12, <1>13 DEF HandInv

(***************************************************************************)
(* A flag set in a unified map is set at the address itself.               *)
(***************************************************************************)
LEMMA UnifiedOffsets ==
  ASSUME NEW u, Fits(u), Unified(u), NEW X \in SUBSET Int
  PROVE  \A o : o \in Offsets(u, X) <=> o \in X /\ 0 <= o /\ o < u.size
<1>1. DOMAIN u.ranges = {1} /\ u.ranges[1].low = 0 /\ u.ranges[1].high = u.size - 1
  BY DEF Unified
<1>2. MapOK(u) /\ u.size \in Int
  BY WordAssumption DEF Fits, MapOK, Address
<1>3. \A x \in X : InMap(u, x) <=> 0 <= x /\ x < u.size
  BY <1>1, <1>2 DEF InMap, Holds
<1>4. ASSUME NEW x \in X, InMap(u, x) PROVE Offset(u, x) = x
  <2>1. PICK i \in DOMAIN u.ranges : Offset(u, x) = x - u.ranges[i].low
    BY <1>2, <1>4, OffsetFacts
  <2>2. QED
    BY <1>1, <2>1
<1>5. QED
  BY <1>3, <1>4 DEF Offsets

(***************************************************************************)
(* preprocess: a branch is no nop, by the tables of the target; and both   *)
(* start an instruction of the executable whose map the unified map was    *)
(* made for.                                                               *)
(***************************************************************************)
LEMMA HandPreprocess ==
  ASSUME CovoarInv, HandInv, Preprocess, CovoarInv'
  PROVE  HandInv'
<1> DEFINE Insns(s)    == {l \in saved[s].instructions : IsInsn(l)}
<1> DEFINE Branches(s) == Flagged(s, {l \in Insns(s) : IsBranch(in.cpu, l.op)})
<1> DEFINE Nops(s)     == Flagged(s, {l \in Insns(s) : IsNop(l)})
<1>1. /\ phase = "preprocess" /\ phase' = "analyze"
      /\ unified' = [s \in Desired |->
                       IF Exists(unified[s])
                         THEN SetNops(SetBranches(unified[s], Branches(s)), Nops(s))
                         ELSE unified[s]]
      /\ in' = in /\ maps' = maps /\ file' = file
      /\ saved' = saved /\ sizeInBytes' = sizeInBytes /\ log' = log
  BY DEF Preprocess, reading
<1>2. in \in Inputs /\ UnifiedFit /\ Domains
  BY DEF CovoarInv, LoadOK
<1>3. Executables' = Executables
  BY <1>1 DEF Executables
<1>4. Heads /\ Longest /\ Remembered /\ Handed /\ Flags /\ Directed
  BY DEF HandInv
<1>5. ASSUME NEW s \in Desired, Exists(unified[s]), NEW l \in Insns(s)
      PROVE  /\ l.offset \in Int /\ saved[s].base \in Int /\ saved[s].base <= l.offset
             /\ Wrap(l.offset - saved[s].base) = l.offset - saved[s].base
             /\ Wrap(l.offset - saved[s].base) \in Int
  <2>1. saved[s].instructions \subseteq LineType /\ saved[s].base \in Address
    BY <1>2 DEF Domains
  <2>2. l \in LineType /\ Placed(l)
    BY <2>1 DEF IsInsn, Placed
  <2>3. l.offset \in Address
    BY <2>2, LineFacts
  <2>4. saved[s].base <= l.offset
    BY <1>4, <1>5 DEF Remembered, StartsSaved
  <2>5. l.offset \in Int /\ saved[s].base \in Int
    BY <2>1, <2>3, WordAssumption DEF Address
  <2>6. l.offset - saved[s].base \in Address
    BY <2>1, <2>3, <2>4, WordAssumption DEF Address
  <2>7. l.offset - saved[s].base \in Int
    BY <2>5
  <2>8. QED
    BY <2>4, <2>5, <2>6, <2>7, WrapSame
<1>6. ASSUME NEW s \in Desired, Exists(unified[s])
      PROVE  LET u == unified[s]  w == unified'[s]
             IN  /\ w.ranges = u.ranges /\ w.size = u.size /\ w.start = u.start
                 /\ \A o : o \in w.branch <=> o \in Branches(s) /\ 0 <= o /\ o < u.size
                 /\ \A o : o \in w.nop <=> o \in Nops(s) /\ 0 <= o /\ o < u.size
  <2> DEFINE u == unified[s]
  <2> DEFINE b == SetBranches(u, Branches(s))
  <2> DEFINE w == SetNops(b, Nops(s))
  <2>1. Branches(s) \in SUBSET Int /\ Nops(s) \in SUBSET Int
    BY <1>5, <1>6 DEF Flagged
  <2>2. Fits(u) /\ Unified(u)
    BY <1>2, <1>6 DEF UnifiedFit
  <2>3. u.branch = {} /\ u.nop = {}
    BY <1>1, <1>4 DEF Flags
  <2>4. unified'[s] = w
    BY <1>1, <1>6
  <2> HIDE DEF Branches, Nops, u
  <2>5. /\ Fits(b) /\ b.ranges = u.ranges /\ b.size = u.size /\ b.start = u.start
        /\ b.branch = u.branch \cup Offsets(u, Branches(s)) /\ b.nop = u.nop
    <3>1. /\ Fits(b) /\ b.ranges = u.ranges /\ b.size = u.size /\ b.start = u.start
      BY <2>1, <2>2, FlagsFit
    <3>2. b.branch = u.branch \cup Offsets(u, Branches(s)) /\ b.nop = u.nop
      BY <2>2 DEF SetBranches, Fits, IsMap
    <3>3. QED
      BY <3>1, <3>2
  <2>6. Unified(b)
    BY <2>2, <2>5 DEF Unified
  <2> HIDE DEF b
  <2>7. /\ w.ranges = b.ranges /\ w.size = b.size /\ w.start = b.start
        /\ w.branch = b.branch /\ w.nop = b.nop \cup Offsets(b, Nops(s))
    <3>1. /\ w.ranges = b.ranges /\ w.size = b.size /\ w.start = b.start
      BY <2>1, <2>5, FlagsFit
    <3>2. w.branch = b.branch /\ w.nop = b.nop \cup Offsets(b, Nops(s))
      BY <2>5 DEF SetNops, Fits, IsMap
    <3>3. QED
      BY <3>1, <3>2
  <2> HIDE DEF w
  <2>8. /\ \A o : o \in Offsets(u, Branches(s)) <=> o \in Branches(s) /\ 0 <= o /\ o < u.size
        /\ \A o : o \in Offsets(b, Nops(s)) <=> o \in Nops(s) /\ 0 <= o /\ o < b.size
    BY <2>1, <2>2, <2>5, <2>6, UnifiedOffsets
  <2>9. QED
    BY <2>3, <2>4, <2>5, <2>7, <2>8 DEF u
<1>7. \A s \in Desired : /\ unified'[s].ranges = unified[s].ranges
                         /\ unified'[s].size = unified[s].size
                         /\ unified'[s].start = unified[s].start
  <2>1. \A s \in Desired : ~Exists(unified[s]) => unified'[s] = unified[s]
    BY <1>1
  <2>2. QED
    BY <1>6, <2>1
<1>8. Heading'
  BY <1>1 DEF Heading
<1>9. Heads'
  BY <1>1, <1>3, <1>4 DEF Heads
<1>10. Longest'
  BY <1>1, <1>3, <1>4, <1>7 DEF Longest, Exists
<1>11. Remembered'
  <2>1. SUFFICES ASSUME NEW s \in Desired
                 PROVE  /\ OneByOne(saved'[s].instructions)
                        /\ saved'[s].instructions = {} <=> ~Exists(unified'[s])
                        /\ Exists(unified'[s]) =>
                             \E e \in Executables :
                               /\ Exists(maps'[e][s]) /\ maps'[e][s].size = unified'[s].size
                               /\ StartsSaved(s, maps[e][s])'
    BY <1>3 DEF Remembered, OneByOne
  <2>2. Exists(unified'[s]) <=> Exists(unified[s])
    BY <1>7 DEF Exists
  <2>3. /\ OneByOne(saved'[s].instructions)
        /\ saved'[s].instructions = {} <=> ~Exists(unified[s])
    BY <1>1, <1>4 DEF Remembered
  <2>4. ASSUME Exists(unified[s])
        PROVE  \E e \in Executables :
                 /\ Exists(maps'[e][s]) /\ maps'[e][s].size = unified'[s].size
                 /\ StartsSaved(s, maps[e][s])'
    <3>1. PICK e \in Executables : /\ Exists(maps[e][s]) /\ maps[e][s].size = unified[s].size
                                   /\ StartsSaved(s, maps[e][s])
      BY <1>4, <2>4 DEF Remembered
    <3>2. StartsSaved(s, maps[e][s])'
      BY <1>1, <3>1 DEF StartsSaved
    <3>3. QED
      BY <1>1, <1>7, <3>1, <3>2
  <2>5. QED
    BY <2>2, <2>3, <2>4
<1>12. \A e \in Executables : Through(e) /\ Through(e)'
  BY <1>1 DEF Through
<1>13. Handed'
  BY <1>1, <1>3, <1>4, <1>7, <1>12 DEF Handed
<1>14. Flags'
  <2>1. SUFFICES ASSUME NEW s \in Desired
                 PROVE  /\ unified'[s].branch \cap unified'[s].nop = {}
                        /\ unified'[s].size = sizeInBytes[s] =>
                             unified'[s].branch \cup unified'[s].nop \subseteq unified'[s].start
    BY <1>1 DEF Flags
  <2>2. CASE ~Exists(unified[s])
    <3>1. unified'[s] = unified[s]
      BY <1>1, <2>2
    <3>2. unified[s].branch = {} /\ unified[s].nop = {}
      BY <1>1, <1>4 DEF Flags
    <3>3. QED
      BY <3>1, <3>2
  <2>3. CASE Exists(unified[s])
    <3> DEFINE u == unified[s]
    <3> DEFINE w == unified'[s]
    <3>1. /\ \A o : o \in w.branch <=> o \in Branches(s) /\ 0 <= o /\ o < u.size
          /\ \A o : o \in w.nop <=> o \in Nops(s) /\ 0 <= o /\ o < u.size
      BY <1>6, <2>3
    <3>2. \A o \in Branches(s) : \E l \in Insns(s) :
            IsBranch(in.cpu, l.op) /\ o = l.offset - saved[s].base
      BY <1>5, <2>3 DEF Flagged
    <3>3. \A o \in Nops(s) : \E l \in Insns(s) : IsNop(l) /\ o = l.offset - saved[s].base
      BY <1>5, <2>3 DEF Flagged
    <3>4. ASSUME NEW o \in w.branch, o \in w.nop PROVE FALSE
      <4>1. PICK k \in Insns(s) : IsBranch(in.cpu, k.op) /\ o = k.offset - saved[s].base
        BY <3>1, <3>2
      <4>2. PICK l \in Insns(s) : IsNop(l) /\ o = l.offset - saved[s].base
        BY <3>1, <3>3, <3>4
      <4>3. k.offset = l.offset
        <5>1. k.offset \in Int /\ l.offset \in Int /\ saved[s].base \in Int
          BY <1>5, <2>3
        <5>2. QED
          BY <4>1, <4>2, <5>1
      <4>4. k = l
        BY <1>4, <4>3 DEF Remembered, OneByOne
      <4>5. k.op \in DOMAIN Target[in.cpu].nops /\ k.op \in Target[in.cpu].branches
        BY <4>1, <4>2, <4>4 DEF IsBranch, IsNop, NopSize
      <4>6. in.cpu \in Cpus
        BY <1>2, InputFacts
      <4>7. QED
        BY <4>5, <4>6, TablesAssumption
    <3>5. ASSUME w.size = sizeInBytes[s], NEW o, o \in w.branch \/ o \in w.nop
          PROVE  o \in w.start
      <4>1. PICK l \in Insns(s) : o = l.offset - saved[s].base
        BY <3>1, <3>2, <3>3, <3>5
      <4>2. PICK e \in Executables : /\ Exists(maps[e][s]) /\ maps[e][s].size = u.size
                                     /\ StartsSaved(s, maps[e][s])
        BY <1>4, <2>3 DEF Remembered
      <4>3. o < u.size
        BY <3>1, <3>5
      <4>4. o \in maps[e][s].start
        BY <4>1, <4>2, <4>3 DEF StartsSaved
      <4>5. maps[e][s].size = sizeInBytes[s]
        BY <1>7, <3>5, <4>2
      <4>6. o \in u.start
        BY <1>4, <1>12, <4>2, <4>3, <4>4, <4>5 DEF Handed
      <4>7. QED
        BY <1>7, <4>6
    <3>6. QED
      BY <3>4, <3>5
  <2>4. QED
    BY <2>2, <2>3
<1>15. Directed'
  BY <1>1, <1>3, <1>4 DEF Directed, Saw
<1>16. QED
  BY <1>8, <1>9, <1>10, <1>11, <1>13, <1>14, <1>15 DEF HandInv

(***************************************************************************)
(* A step that leaves everything the invariant speaks of alone, or only    *)
(* ends covoar, keeps HandInv.                                             *)
(***************************************************************************)
LEMMA HandKept ==
  ASSUME HandInv, in' = in, maps' = maps, saved' = saved, sizeInBytes' = sizeInBytes,
         unified' = unified, file' = file, log' = log,
         (phase # "analyze" /\ phase' = "exited") \/ UNCHANGED vars
  PROVE  HandInv'
<1>1. Executables' = Executables
  BY DEF Executables
<1>2. Heading /\ Heads /\ Longest /\ Remembered /\ Handed /\ Flags /\ Directed
  BY DEF HandInv
<1>3. Heading'
  <2>1. CASE phase' = "exited"
    BY <2>1 DEF Heading
  <2>2. CASE UNCHANGED vars
    <3>1. /\ phase' = phase /\ exe' = exe /\ line' = line /\ current' = current /\ low' = low
          /\ lines' = lines
      BY <2>2 DEF vars
    <3>2. Rest' = Rest /\ \A j : At(j)' = At(j)
      BY <3>1 DEF Rest, At
    <3>3. HeadAhead => HeadAhead'
      BY <3>1, <3>2 DEF HeadAhead
    <3>4. QED
      BY <1>2, <3>1, <3>3 DEF Heading
  <2>3. QED
    BY <2>1, <2>2
<1>4. Heads' /\ Longest'
  BY <1>1, <1>2 DEF Heads, Longest
<1>5. Remembered'
  <2>1. SUFFICES ASSUME NEW s \in Desired, Exists(unified[s])
                 PROVE  \E e \in Executables :
                          /\ Exists(maps'[e][s]) /\ maps'[e][s].size = unified[s].size
                          /\ StartsSaved(s, maps[e][s])'
    BY <1>1, <1>2 DEF Remembered
  <2>2. PICK e \in Executables : /\ Exists(maps[e][s]) /\ maps[e][s].size = unified[s].size
                                 /\ StartsSaved(s, maps[e][s])
    BY <1>2, <2>1 DEF Remembered
  <2>3. StartsSaved(s, maps[e][s])'
    BY <2>2 DEF StartsSaved
  <2>4. QED
    BY <2>2, <2>3
<1>6. Handed'
  <2>1. \A e : Through(e)' => Through(e)
    BY DEF Through, vars
  <2>2. QED
    BY <1>1, <1>2, <2>1 DEF Handed
<1>7. Flags'
  <2>1. phase = "analyze" <=> phase' = "analyze"
    BY DEF vars
  <2>2. QED
    BY <1>2, <2>1 DEF Flags
<1>8. Directed'
  BY <1>1, <1>2 DEF Directed, Saw
<1>9. QED
  BY <1>3, <1>4, <1>5, <1>6, <1>7, <1>8 DEF HandInv

(***************************************************************************)
(* An unreadable header ends covoar and changes nothing else.              *)
(***************************************************************************)
LEMMA HandBadHeader ==
  ASSUME HandInv, BadHeader
  PROVE  HandInv'
BY HandKept DEF BadHeader, symbols, reading

(***************************************************************************)
(* HandInv only speaks of the variables.                                   *)
(***************************************************************************)
LEMMA HandStutter ==
  ASSUME HandInv, UNCHANGED vars
  PROVE  HandInv'
<1>1. /\ in' = in /\ maps' = maps /\ saved' = saved /\ sizeInBytes' = sizeInBytes
      /\ unified' = unified /\ file' = file /\ log' = log
  BY DEF vars
<1>2. QED
  BY <1>1, HandKept

(***************************************************************************)
(* Nothing is there to begin with.                                         *)
(***************************************************************************)
LEMMA HandInit == Init => HandInv
<1>1. SUFFICES ASSUME Init PROVE HandInv
  OBVIOUS
<1>2. /\ in \in Inputs /\ phase = "load" /\ current = NoSymbol /\ log = << >>
      /\ maps = [e \in Executables |-> [s \in Desired |-> NoMap]]
      /\ saved = [s \in Desired |-> [instructions |-> {}, base |-> 0]]
      /\ unified = [s \in Desired |-> NoMap]
  BY <1>1 DEF Init
<1>3. /\ ~Exists(NoMap) /\ NoMap.branch = {} /\ NoMap.nop = {} /\ NoMap.size = 0
  BY DEF Exists, NoMap, MapOf
<1>4. Heading
  BY <1>2 DEF Heading
<1>5. Heads /\ Longest
  BY <1>2, <1>3 DEF Heads, Longest
<1>6. Remembered
  BY <1>2, <1>3 DEF Remembered, OneByOne
<1>7. Handed /\ Flags
  BY <1>2, <1>3 DEF Handed, Flags
<1>8. Directed
  <2>1. \A e \in Executables, s \in Desired : 0 .. maps[e][s].size - 1 = {}
    BY <1>2, <1>3
  <2>2. QED
    BY <2>1 DEF Directed
<1>9. QED
  BY <1>4, <1>5, <1>6, <1>7, <1>8 DEF HandInv

HandSound == WellFormed(in) /\ Headed(in) => CovoarInv /\ HandInv

(***************************************************************************)
(* Every step keeps both invariants for a sound input with headed labels.  *)
(***************************************************************************)
LEMMA NextHandSound == HandSound /\ [Next]_vars => HandSound'
<1>1. SUFFICES ASSUME HandSound, [Next]_vars, WellFormed(in)', Headed(in)'
               PROVE  CovoarInv' /\ HandInv'
  BY DEF HandSound
<1>2. in' = in
  BY <1>1 DEF Next, LoadLabel, LoadLine, LoadEnd, ReadEntry, BadHeader, EndOfFile, Preprocess, vars
<1>3. WellFormed(in) /\ Headed(in)
  BY <1>1, <1>2
<1>4. CovoarInv /\ HandInv
  BY <1>1, <1>3 DEF HandSound
<1>5. CovoarInv'
  BY <1>1, <1>2, <1>3, <1>4, NextSoundInv DEF SoundInv
<1>6. CASE LoadLabel
  BY <1>3, <1>4, <1>5, <1>6, HandLoadLabel
<1>7. CASE LoadLine
  BY <1>3, <1>4, <1>5, <1>7, HandLoadLine
<1>8. CASE LoadEnd
  BY <1>3, <1>4, <1>5, <1>8, HandLoadEnd
<1>9. CASE ReadEntry
  BY <1>4, <1>5, <1>9, HandReadEntry
<1>10. CASE BadHeader
  BY <1>4, <1>5, <1>10, HandBadHeader
<1>11. CASE EndOfFile
  BY <1>4, <1>5, <1>11, HandEndOfFile
<1>12. CASE Preprocess
  BY <1>4, <1>5, <1>12, HandPreprocess
<1>13. CASE UNCHANGED vars
  BY <1>4, <1>5, <1>13, HandStutter
<1>14. QED
  BY <1>1, <1>5, <1>6, <1>7, <1>8, <1>9, <1>10, <1>11, <1>12, <1>13 DEF Next

(***************************************************************************)
(* For sound disassemblies whose labels head an instruction, what the maps *)
(* hand over to the scan is invariant as well.                             *)
(***************************************************************************)
THEOREM HandInvariant == Spec => []HandSound
<1>1. Init => HandSound
  BY InitSoundInv, HandInit DEF SoundInv, HandSound
<1>2. QED
  BY <1>1, NextHandSound, PTL DEF Spec

(***************************************************************************)
(* A QEMU branch direction is recorded for the instruction the block ended *)
(* with, never for an earlier one or inside one, and only for a direction  *)
(* that some entry for this symbol carries (CoverageReaderQEMU.cc 138-163).*)
(***************************************************************************)
THEOREM DirectionsCorrect == Spec => [](WellFormed(in) /\ Headed(in) => DirectionsExact)
<1>1. HandSound => (WellFormed(in) /\ Headed(in) => DirectionsExact)
  BY DEF HandSound, HandInv, Directed, Saw, DirectionsExact
<1>2. QED
  BY <1>1, HandInvariant, PTL

(***************************************************************************)
(* covoar hands UncoveredScan what it relies on: a non-empty unified map   *)
(* no longer than the symbol, whose first byte starts an instruction;      *)
(* branches and nops are different instructions, and lie on starts unless  *)
(* executables disagree on the size.                                       *)
(***************************************************************************)
THEOREM ScanInputCorrect == Spec => [](WellFormed(in) /\ Headed(in) => ScanInput)
<1>1. HandSound => (WellFormed(in) /\ Headed(in) => ScanInput)
  <2>1. SUFFICES ASSUME CovoarInv, HandInv, phase = "analyze", NEW s \in Desired,
                        Exists(unified[s])
                 PROVE  /\ unified[s].size \in 1 .. sizeInBytes[s]
                        /\ 0 \in unified[s].start
                        /\ unified[s].branch \cap unified[s].nop = {}
                        /\ unified[s].size = sizeInBytes[s] =>
                             unified[s].branch \cup unified[s].nop \subseteq unified[s].start
    BY DEF HandSound, ScanInput
  <2>2. Heads /\ Longest /\ Handed /\ Flags
    BY <2>1 DEF HandInv
  <2>3. unified[s].size \in Int /\ sizeInBytes[s] \in Int
    <3>1. UnifiedFit /\ sizeInBytes \in [Desired -> Address]
      BY <2>1 DEF CovoarInv, LoadOK
    <3>2. unified[s].size \in Address
      BY <3>1 DEF UnifiedFit, Fits, MapOK
    <3>3. QED
      BY <3>1, <3>2, WordAssumption DEF Address
  <2>4. unified[s].size >= 1 /\ unified[s].size <= sizeInBytes[s]
    BY <2>1 DEF CovoarInv, UnifiedFit
  <2>5. 0 \in unified[s].start
    <3>1. PICK e \in Executables : Exists(maps[e][s]) /\ maps[e][s].size = sizeInBytes[s]
      BY <2>1, <2>2 DEF Longest
    <3>2. 0 \in maps[e][s].start
      BY <2>2, <3>1 DEF Heads
    <3>3. Through(e) /\ 0 < unified[s].size
      BY <2>1, <2>3, <2>4 DEF Through
    <3>4. QED
      BY <2>2, <3>1, <3>2, <3>3 DEF Handed
  <2>6. QED
    BY <2>1, <2>2, <2>3, <2>4, <2>5 DEF Flags
<1>2. QED
  BY <1>1, HandInvariant, PTL
=============================================================================
