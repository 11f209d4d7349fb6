------------------------ MODULE UncoveredScan_proofs ------------------------
(***************************************************************************)
(* Proofs about UncoveredScan for every symbol size, every coverage map    *)
(* and every set of execution counts.                                      *)
(***************************************************************************)
EXTENDS UncoveredScan, FiniteLemmas, TLAPS

(***************************************************************************)
(* A recorded range is one of the type's records: the number of            *)
(* instruction starts in a stretch of the symbol is a natural number.      *)
(***************************************************************************)
LEMMA RangeOfType ==
  ASSUME NEW la \in 0 .. endAddress, NEW ha \in la + 1 .. SizeInBytes
  PROVE  RangeOf(la, ha) \in RangeRecord
<1> DEFINE starts == {b \in la + 1 .. ha - 1 : IsStart(b)}
<1>1. la \in Int /\ ha \in Int /\ SizeInBytes \in Nat \ {0}
  BY SizeAssumption DEF endAddress
<1>2. IsFiniteSet(la + 1 .. ha - 1)
  BY <1>1, FS_Interval
<1>3. starts \subseteq la + 1 .. ha - 1
  OBVIOUS
<1>4. IsFiniteSet(starts)
  BY <1>2, <1>3, FS_Subset
<1>5. Cardinality(starts) \in Nat
  BY <1>4, FS_CardinalityType
<1> HIDE DEF starts
<1>6. 1 + Cardinality(starts) \in Nat \ {0}
  BY <1>5
<1>7. la \in 0 .. endAddress /\ ha - 1 \in 0 .. endAddress
  BY <1>1 DEF endAddress
<1>8. QED
  BY <1>6, <1>7 DEF RangeOf, RangeRecord, starts

(***************************************************************************)
(* Type correctness: no pass leaves the symbol's bytes.                    *)
(***************************************************************************)
LEMMA InitTypeOK == Init => TypeOK
<1> SUFFICES ASSUME Init PROVE TypeOK
  OBVIOUS
<1>1. branch \subseteq Bytes /\ nop \subseteq Bytes /\ start \subseteq Bytes
  BY DEF Init
<1>2. exec0 \in [Bytes -> Nat] /\ exec \in [Bytes -> Nat]
  BY CountAssumption DEF Init
<1>3. ranges \in Seq(RangeRecord) /\ branches \in Seq(BranchRecord)
  BY DEF Init
<1>4. a \in 0 .. SizeInBytes
  BY SizeAssumption DEF Init
<1>5. QED
  BY <1>1, <1>2, <1>3, <1>4 DEF Init, TypeOK, MapOK

\* A step that leaves the map alone keeps its type.
LEMMA MapKept == MapOK /\ UNCHANGED << input, exec >> => MapOK'
BY DEF MapOK, input, Bytes

\* Every step keeps the types.
LEMMA NextTypeOK == TypeOK /\ [Next]_vars => TypeOK'
<1> SUFFICES ASSUME TypeOK, [Next]_vars PROVE TypeOK'
  OBVIOUS
<1> USE SizeAssumption DEF TypeOK, endAddress
<1>1. ASSUME NEW names PROVE Bump(names) \in [Counter -> Nat]
  BY DEF Bump
<1>2. CASE NopSkip
  <2>1. a' \in 0 .. SizeInBytes
    BY <1>2 DEF NopSkip
  <2>2. MapOK'
    BY <1>2, MapKept DEF NopSkip
  <2>3. QED
    BY <1>2, <2>1, <2>2 DEF NopSkip, RangeRecord, BranchRecord
<1>3. CASE NopMark
  <2>1. exec' \in [Bytes' -> Nat]
    <3>1. Bytes' = Bytes
      BY <1>3 DEF NopMark, input, Bytes
    <3>2. exec \in [Bytes -> Nat]
      BY DEF MapOK
    <3>3. PICK ha, to : exec' = [b \in Bytes |-> exec[b] + IF b \in ha .. to - 1 THEN 1 ELSE 0]
      BY ONLY <1>3, Zenon DEF NopMark
    <3>4. QED
      BY ONLY <3>1, <3>2, <3>3
  <2>2. MapOK'
    BY <1>3, <2>1 DEF NopMark, MapOK, input, Bytes
  <2>3. a' \in 0 .. SizeInBytes
    BY <1>3 DEF NopMark
  <2>4. QED
    BY <1>3, <2>2, <2>3 DEF NopMark, RangeRecord, BranchRecord
<1>4. CASE NopsDone
  BY <1>4, MapKept DEF NopsDone, RangeRecord, BranchRecord
<1>5. CASE ScanRange
  <2>1. a \in 0 .. endAddress
    BY <1>5 DEF ScanRange
  <2>2. PICK ha \in a + 1 .. SizeInBytes :
          ranges' = Append(ranges, RangeOf(a, ha)) /\ a' = ha
    BY <1>5 DEF ScanRange
  <2>3. ranges' \in Seq(RangeRecord)
    BY <2>1, <2>2, RangeOfType
  <2>4. stats' \in [Counter -> Nat]
    BY <1>5, <1>1 DEF ScanRange
  <2>5. a' \in 0 .. SizeInBytes
    BY <2>2
  <2>6. QED
    BY <1>5, <2>3, <2>4, <2>5, MapKept DEF ScanRange, RangeRecord, BranchRecord
<1>6. CASE ScanBranch
  <2>1. PICK ha \in a + 1 .. SizeInBytes :
          /\ branches' = IF Verdict(a) = "covered" THEN branches
                         ELSE Append(branches, [low |-> a, high |-> ha - 1,
                                                reason |-> Verdict(a)])
          /\ a' = ha
    BY <1>6 DEF ScanBranch
  <2>2. Verdict(a) # "covered" =>
          [low |-> a, high |-> ha - 1, reason |-> Verdict(a)] \in BranchRecord
    BY <1>6 DEF ScanBranch, Verdict, BranchRecord
  <2>3. branches' \in Seq(BranchRecord)
    BY <2>1, <2>2
  <2>4. stats' \in [Counter -> Nat]
    BY <1>6, <1>1 DEF ScanBranch
  <2>5. a' \in 0 .. SizeInBytes
    BY <2>1
  <2>6. QED
    BY <1>6, <2>3, <2>4, <2>5, MapKept DEF ScanBranch, RangeRecord, BranchRecord
<1>7. CASE ScanOther
  BY <1>7, MapKept DEF ScanOther, RangeRecord, BranchRecord
<1>8. CASE ScanDone
  BY <1>8, MapKept DEF ScanDone, RangeRecord, BranchRecord
<1>9. CASE CountByte
  <2>1. stats' \in [Counter -> Nat]
    BY <1>9, <1>1 DEF CountByte
  <2>2. QED
    BY <1>9, <2>1, MapKept DEF CountByte, RangeRecord, BranchRecord
<1>10. CASE CountDone
  BY <1>10, MapKept DEF CountDone, RangeRecord, BranchRecord
<1>11. CASE UNCHANGED vars
  BY <1>11, MapKept DEF vars, input, RangeRecord, BranchRecord
<1>12. QED
  BY <1>2, <1>3, <1>4, <1>5, <1>6, <1>7, <1>8, <1>9, <1>10, <1>11 DEF Next

(***************************************************************************)
(* Type correctness, for every symbol size and every map: no pass leaves   *)
(* the symbol, and every range recorded counts at least one instruction.   *)
(***************************************************************************)
THEOREM TypeCorrect == Spec => []TypeOK
BY InitTypeOK, NextTypeOK, PTL DEF Spec
-----------------------------------------------------------------------------
(***************************************************************************)
(* RangesExact is not inductive: it says nothing while the scan runs.      *)
(* ScanInv says what the scan has established below address a: the bytes   *)
(* passed are classified right, the ranges are apart, the last of them     *)
(* cannot touch a range that would start at a, and a is not the tail of a  *)
(* branch, since ScanBranch steps over tails whole.                        *)
(***************************************************************************)
Classified == \A b \in 0 .. a - 1 :
                InSomeRange(b) <=> ~Executed(b) /\ ~BranchTail(b)
Apart      == \A i, j \in 1 .. Len(ranges) :
                i < j => ranges[i].high + 1 < ranges[j].low
Behind     == \A i \in 1 .. Len(ranges) :
                /\ ranges[i].low <= ranges[i].high
                /\ ranges[i].high < a
                /\ \/ ranges[i].high + 1 < a
                   \/ a = SizeInBytes
                   \/ Executed(a)
NotInTail  == a <= endAddress => ~BranchTail(a)

ScanInv ==
  /\ TypeOK
  /\ pc = "nops" => ranges = << >>
  /\ pc = "scan" => Classified /\ Apart /\ Behind /\ NotInTail
  /\ RangesExact

\* Nothing is classified before the scan.
LEMMA InitScanInv == Init => ScanInv
BY InitTypeOK DEF Init, ScanInv, RangesExact

\* Steps that leave the map alone leave the predicates over it alone.
LEMMA PredicatesKept ==
  ASSUME UNCHANGED << input, exec >>
  PROVE  /\ \A b : Executed(b)' <=> Executed(b)
         /\ \A b : BranchTail(b)' <=> BranchTail(b)
BY DEF input, Executed, BranchTail, IsStart, Bytes

\* No unexecuted stretch that starts outside a branch tail holds one.
LEMMA StretchHasNoTail ==
  ASSUME TypeOK, a \in 0 .. endAddress, ~BranchTail(a),
         NEW ha \in a + 1 .. SizeInBytes, ~Executed(a), NextExecuted(a, ha)
  PROVE  \A b \in a .. ha : ~BranchTail(b)
<1> SUFFICES ASSUME NEW b \in a .. ha, BranchTail(b) PROVE FALSE
  OBVIOUS
<1> USE SizeAssumption DEF endAddress
<1>1. PICK p \in branch : p < b /\ Executed(p) /\ \A x \in p + 1 .. b : ~IsStart(x)
  BY DEF BranchTail
<1>2. p \in Int
  BY DEF TypeOK, MapOK, Bytes
<1>3. p < a
  BY <1>1, <1>2 DEF NextExecuted
<1>4. \A x \in p + 1 .. a : ~IsStart(x)
  BY <1>1, <1>2, <1>3
<1>5. BranchTail(a)
  BY <1>1, <1>3, <1>4 DEF BranchTail
<1>6. QED
  BY <1>5

\* A range keeps the invariant of the scan,
LEMMA ScanRangeKeeps ==
  ASSUME ScanInv, ScanRange
  PROVE  Classified' /\ Apart' /\ Behind' /\ NotInTail'
<1> USE SizeAssumption DEF endAddress
<1>1. PICK ha \in a + 1 .. SizeInBytes :
        NextExecuted(a, ha) /\ ranges' = Append(ranges, RangeOf(a, ha)) /\ a' = ha
  BY DEF ScanRange
<1>2. a \in 0 .. endAddress /\ ~Executed(a) /\ Classified /\ Apart /\ Behind /\ NotInTail
  BY DEF ScanRange, ScanInv, TypeOK
<1>3. /\ \A b : Executed(b)' <=> Executed(b)
      /\ \A b : BranchTail(b)' <=> BranchTail(b)
  BY PredicatesKept DEF ScanRange
<1>4. \A b \in a .. ha : ~BranchTail(b)
  BY <1>1, <1>2, StretchHasNoTail DEF ScanInv, NotInTail
<1>5. ranges \in Seq(RangeRecord) /\ Len(ranges) \in Nat
  BY DEF ScanInv, TypeOK
<1>6. RangeOf(a, ha) \in RangeRecord
  BY <1>1, <1>2, RangeOfType
<1>7. /\ Len(ranges') = Len(ranges) + 1
      /\ \A i \in 1 .. Len(ranges) : ranges'[i] = ranges[i]
      /\ ranges'[Len(ranges) + 1].low = a
      /\ ranges'[Len(ranges) + 1].high = ha - 1
  <2>1. RangeOf(a, ha).low = a /\ RangeOf(a, ha).high = ha - 1
    BY DEF RangeOf
  <2>2. QED
    BY <1>1, <1>5, <1>6, <2>1
<1>8. \A i \in 1 .. Len(ranges) : ranges[i].low \in Int /\ ranges[i].high \in Int
  <2>1. \A i \in 1 .. Len(ranges) : ranges[i] \in RangeRecord
    BY <1>5
  <2>2. \A r \in RangeRecord : r.low \in Int /\ r.high \in Int
    BY DEF RangeRecord
  <2>3. QED
    BY <2>1, <2>2
<1>9. Classified'
  <2> SUFFICES ASSUME NEW b \in 0 .. ha - 1
               PROVE InSomeRange(b)' <=> ~Executed(b) /\ ~BranchTail(b)
    BY <1>1, <1>3 DEF Classified
  <2>1. CASE b < a
    <3>1. InSomeRange(b)' <=> InSomeRange(b)
      BY <1>1, <1>2, <1>5, <1>7, <2>1 DEF InSomeRange, InRange
    <3>2. QED
      BY <1>2, <2>1, <3>1 DEF Classified
  <2>2. CASE b >= a
    <3>1. LET last == Len(ranges) + 1
          IN  /\ last \in 1 .. Len(ranges')
              /\ ranges'[last].low <= b /\ b <= ranges'[last].high
      BY <1>1, <1>2, <1>5, <1>7, <2>2
    <3>2. InSomeRange(b)'
      BY <3>1 DEF InSomeRange, InRange
    <3>3. ~Executed(b)
      BY <1>1, <1>2, <2>2 DEF NextExecuted
    <3>4. QED
      BY <1>1, <1>2, <1>4, <2>2, <3>2, <3>3
  <2>3. QED
    BY <1>2, <2>1, <2>2
<1>10. Apart'
  <2> SUFFICES ASSUME NEW i \in 1 .. Len(ranges) + 1, NEW j \in 1 .. Len(ranges) + 1,
                      i < j
               PROVE ranges'[i].high + 1 < ranges'[j].low
    BY <1>7 DEF Apart
  <2>1. i \in 1 .. Len(ranges) /\ ranges'[i] = ranges[i]
    BY <1>5, <1>7
  <2>2. CASE j = Len(ranges) + 1
    BY <1>2, <1>7, <1>8, <2>1, <2>2 DEF Behind
  <2>3. CASE j # Len(ranges) + 1
    BY <1>2, <1>5, <1>7, <2>1, <2>3 DEF Apart
  <2>4. QED
    BY <2>2, <2>3
<1>11. Behind'
  <2>1. ha = SizeInBytes \/ Executed(ha)
    BY <1>1 DEF NextExecuted
  <2> SUFFICES ASSUME NEW i \in 1 .. Len(ranges) + 1
               PROVE /\ ranges'[i].low <= ranges'[i].high
                     /\ ranges'[i].high < ha
    BY <1>1, <1>3, <1>7, <2>1 DEF Behind
  <2>2. CASE i = Len(ranges) + 1
    BY <1>1, <1>2, <1>7, <2>2
  <2>3. CASE i # Len(ranges) + 1
    BY <1>1, <1>2, <1>5, <1>7, <1>8, <2>3 DEF Behind
  <2>4. QED
    BY <2>2, <2>3
<1>12. NotInTail'
  BY <1>1, <1>2, <1>3, <1>4 DEF NotInTail
<1>13. QED
  BY <1>9, <1>10, <1>11, <1>12

\* ... a branch does,
LEMMA ScanBranchKeeps ==
  ASSUME ScanInv, ScanBranch
  PROVE  Classified' /\ Apart' /\ Behind' /\ NotInTail'
<1> USE SizeAssumption DEF endAddress
<1>1. PICK ha \in a + 1 .. SizeInBytes : NextStart(a, ha) /\ a' = ha
  BY DEF ScanBranch
<1>2. /\ a \in 0 .. endAddress /\ Executed(a) /\ a \in branch /\ ranges' = ranges
      /\ Classified /\ Apart /\ Behind
  BY DEF ScanBranch, ScanInv, TypeOK
<1>3. /\ \A b : Executed(b)' <=> Executed(b)
      /\ \A b : BranchTail(b)' <=> BranchTail(b)
  BY PredicatesKept DEF ScanBranch
<1>4. \A i \in 1 .. Len(ranges) : ranges[i].low \in Int /\ ranges[i].high \in Int
  <2>1. \A i \in 1 .. Len(ranges) : ranges[i] \in RangeRecord
    BY DEF ScanInv, TypeOK
  <2>2. \A r \in RangeRecord : r.low \in Int /\ r.high \in Int
    BY DEF RangeRecord
  <2>3. QED
    BY <2>1, <2>2
<1>5. \A b \in a + 1 .. ha - 1 : BranchTail(b)
  BY <1>1, <1>2 DEF NextStart, BranchTail
<1>6. Classified'
  <2> SUFFICES ASSUME NEW b \in 0 .. ha - 1
               PROVE InSomeRange(b) <=> ~Executed(b) /\ ~BranchTail(b)
    BY <1>1, <1>2, <1>3 DEF Classified, InSomeRange, InRange
  <2>1. CASE b < a
    BY <1>2, <2>1 DEF Classified
  <2>2. CASE b >= a
    <3>1. ~InSomeRange(b)
      BY <1>2, <1>4, <2>2 DEF InSomeRange, InRange, Behind
    <3>2. b = a \/ b \in a + 1 .. ha - 1
      BY <1>1, <1>2, <2>2
    <3>3. QED
      BY <1>2, <1>5, <3>1, <3>2
  <2>3. QED
    BY <1>2, <2>1, <2>2
<1>7. Apart'
  BY <1>2 DEF Apart
<1>8. Behind'
  <2>1. \A i \in 1 .. Len(ranges) :
          /\ ranges[i].low <= ranges[i].high
          /\ ranges[i].high < ha /\ ranges[i].high + 1 < ha
    BY <1>1, <1>2, <1>4 DEF Behind
  <2>2. QED
    BY <1>1, <1>2, <2>1 DEF Behind
<1>9. NotInTail'
  <2>1. ha <= endAddress => IsStart(ha)
    BY <1>1 DEF NextStart
  <2>2. ha <= endAddress => ~BranchTail(ha)
    BY <1>1, <1>2, <2>1 DEF BranchTail, ScanInv, TypeOK, MapOK, Bytes
  <2>3. QED
    BY <1>1, <1>3, <2>2 DEF NotInTail
<1>10. QED
  BY <1>6, <1>7, <1>8, <1>9

\* ... and an executed instruction that is no branch does.
LEMMA ScanOtherKeeps ==
  ASSUME ScanInv, ScanOther
  PROVE  Classified' /\ Apart' /\ Behind' /\ NotInTail'
<1> USE SizeAssumption DEF endAddress
<1>1. /\ a \in 0 .. endAddress /\ Executed(a) /\ a \notin branch /\ ranges' = ranges
      /\ a' = a + 1 /\ Classified /\ Apart /\ Behind /\ NotInTail
  BY DEF ScanOther, ScanInv, TypeOK
<1>2. /\ \A b : Executed(b)' <=> Executed(b)
      /\ \A b : BranchTail(b)' <=> BranchTail(b)
  BY PredicatesKept DEF ScanOther
<1>3. \A i \in 1 .. Len(ranges) : ranges[i].low \in Int /\ ranges[i].high \in Int
  <2>1. \A i \in 1 .. Len(ranges) : ranges[i] \in RangeRecord
    BY DEF ScanInv, TypeOK
  <2>2. \A r \in RangeRecord : r.low \in Int /\ r.high \in Int
    BY DEF RangeRecord
  <2>3. QED
    BY <2>1, <2>2
<1>4. Classified'
  <2> SUFFICES ASSUME NEW b \in 0 .. a
               PROVE InSomeRange(b) <=> ~Executed(b) /\ ~BranchTail(b)
    BY <1>1, <1>2 DEF Classified, InSomeRange, InRange
  <2>1. CASE b < a
    BY <1>1, <2>1 DEF Classified
  <2>2. CASE b = a
    BY <1>1, <1>3, <2>2 DEF InSomeRange, InRange, Behind
  <2>3. QED
    BY <1>1, <2>1, <2>2
<1>5. Apart'
  BY <1>1 DEF Apart
<1>6. Behind'
  BY <1>1, <1>3 DEF Behind
<1>7. NotInTail'
  <2>1. ASSUME a + 1 <= endAddress, BranchTail(a + 1) PROVE FALSE
    <3>1. PICK p \in branch : /\ p < a + 1 /\ Executed(p)
                              /\ \A x \in p + 1 .. a + 1 : ~IsStart(x)
      BY <2>1 DEF BranchTail
    <3>2. p \in Int /\ p < a
      BY <1>1, <3>1 DEF ScanInv, TypeOK, MapOK, Bytes
    <3>3. BranchTail(a)
      BY <1>1, <3>1, <3>2 DEF BranchTail
    <3>4. QED
      BY <1>1, <3>3 DEF NotInTail
  <2>2. QED
    BY <1>1, <1>2, <2>1 DEF NotInTail
<1>8. QED
  BY <1>4, <1>5, <1>6, <1>7

\* Every step keeps the invariant of the scan.
LEMMA NextScanInv == ScanInv /\ [Next]_vars => ScanInv'
<1> SUFFICES ASSUME ScanInv, [Next]_vars PROVE ScanInv'
  OBVIOUS
<1> USE SizeAssumption DEF endAddress
<1>1. TypeOK'
  BY NextTypeOK DEF ScanInv
<1>2. CASE NopSkip
  BY <1>1, <1>2 DEF NopSkip, ScanInv, RangesExact
<1>3. CASE NopMark
  BY <1>1, <1>3 DEF NopMark, ScanInv, RangesExact
<1>4. CASE NopsDone
  <2>1. ranges' = << >> /\ a' = 0 /\ pc' = "scan" /\ UNCHANGED << input, exec >>
    BY <1>4 DEF NopsDone, ScanInv
  <2>2. ~BranchTail(0)
    BY DEF BranchTail, ScanInv, TypeOK, MapOK, Bytes
  <2>3. NotInTail'
    BY <2>1, <2>2, PredicatesKept DEF NotInTail
  <2>4. Classified' /\ Apart' /\ Behind'
    BY <2>1 DEF Classified, Apart, Behind
  <2>5. QED
    BY <1>1, <2>1, <2>3, <2>4 DEF ScanInv, RangesExact
<1>5. CASE ScanRange
  BY <1>1, <1>5, ScanRangeKeeps DEF ScanRange, ScanInv, RangesExact
<1>6. CASE ScanBranch
  BY <1>1, <1>6, ScanBranchKeeps DEF ScanBranch, ScanInv, RangesExact
<1>7. CASE ScanOther
  BY <1>1, <1>7, ScanOtherKeeps DEF ScanOther, ScanInv, RangesExact
<1>8. CASE ScanDone
  <2>1. /\ a = SizeInBytes /\ Classified /\ Apart
        /\ ranges' = ranges /\ pc' = "stats" /\ UNCHANGED << input, exec >>
    BY <1>8 DEF ScanDone, ScanInv, TypeOK
  <2>2. RangesExact'
    BY <2>1, PredicatesKept DEF RangesExact, Classified, Apart, InSomeRange, InRange
  <2>3. QED
    BY <1>1, <2>1, <2>2 DEF ScanInv
<1>9. ASSUME pc' \in {"stats", "done"}, pc = "stats" \/ pc' = pc,
             ranges' = ranges, UNCHANGED << input, exec >>
      PROVE  ScanInv'
  <2>1. RangesExact'
    BY <1>9, PredicatesKept DEF ScanInv, RangesExact, InSomeRange, InRange
  <2>2. QED
    BY <1>1, <1>9, <2>1 DEF ScanInv
<1>10. CASE CountByte
  BY <1>9, <1>10 DEF CountByte
<1>11. CASE CountDone
  BY <1>9, <1>11 DEF CountDone
<1>12. CASE UNCHANGED vars
  <2>1. UNCHANGED << input, exec >> /\ a' = a /\ pc' = pc /\ ranges' = ranges
    BY <1>12 DEF vars, input
  <2>2. /\ Classified => Classified'
        /\ Apart => Apart'
        /\ Behind => Behind'
        /\ NotInTail => NotInTail'
        /\ RangesExact => RangesExact'
    BY <2>1, PredicatesKept
    DEF Classified, Apart, Behind, NotInTail, RangesExact, InSomeRange, InRange
  <2>3. QED
    BY <1>1, <2>1, <2>2 DEF ScanInv
<1>13. QED
  BY <1>2, <1>3, <1>4, <1>5, <1>6, <1>7, <1>8, <1>10, <1>11, <1>12 DEF Next

(***************************************************************************)
(* computeUncovered's ranges are exactly the unexecuted bytes outside      *)
(* branch tails, maximal and apart, for every symbol and every map.        *)
(***************************************************************************)
THEOREM RangesCorrect == Spec => []RangesExact
<1>1. ScanInv => RangesExact
  BY DEF ScanInv
<1>2. QED
  BY InitScanInv, NextScanInv, <1>1, PTL DEF Spec
-----------------------------------------------------------------------------
(***************************************************************************)
(* The nop pass only ever raises bytes below the address it has reached,   *)
(* so the executed byte it finds there was executed by a test.             *)
(***************************************************************************)
PaddingInv ==
  /\ TypeOK
  /\ pc = "nops" => \A b \in Bytes : b >= a => exec[b] = exec0[b]
  /\ OnlyPaddingMarked

\* Nothing is marked to begin with.
LEMMA InitPaddingInv == Init => PaddingInv
BY InitTypeOK DEF Init, PaddingInv, OnlyPaddingMarked

\* Marking the nops after an executed byte only marks padding.
LEMMA NopMarkKeeps ==
  ASSUME PaddingInv, NopMark
  PROVE  OnlyPaddingMarked' /\ \A b \in Bytes : b >= a' => exec'[b] = exec0[b]
<1> USE SizeAssumption DEF endAddress
<1>1. PICK ha \in a + 1 .. endAddress - 1, to \in a + 1 .. endAddress :
        /\ NextStart(a, ha) /\ MarkedUpTo(ha, to)
        /\ exec' = [b \in Bytes |-> exec[b] + IF b \in ha .. to - 1 THEN 1 ELSE 0]
        /\ a' = to
  BY DEF NopMark
<1>2. /\ a \in Bytes /\ exec[a] = exec0[a] /\ exec[a] > 0
      /\ UNCHANGED input /\ mapSize \in Nat
      /\ \A b \in Bytes : b >= a => exec[b] = exec0[b]
      /\ exec \in [Bytes -> Nat] /\ exec0 \in [Bytes -> Nat] /\ a \in Nat
  BY DEF NopMark, PaddingInv, TypeOK, MapOK, Executed, Bytes
<1>3. Bytes' = Bytes /\ exec0' = exec0
  BY <1>2 DEF input, Bytes
<1>4. \A b, n, p : PaddingAfter(b, n, p)' <=> PaddingAfter(b, n, p)
  BY <1>2 DEF input, PaddingAfter, IsStart
<1>5. ASSUME NEW b \in Bytes, b \in ha .. to - 1
      PROVE  PaddingAfter(b, ha, a) /\ ha \in 0 .. b /\ a \in 0 .. b
  <2>1. IsStart(ha) /\ \A x \in a + 1 .. ha - 1 : ~IsStart(x)
    BY <1>1 DEF NextStart
  <2>2. ha \in nop
    BY <1>1, <1>5 DEF MarkedUpTo
  <2>3. \A x \in ha + 1 .. b : ~IsStart(x)
    BY <1>1, <1>5, <2>2 DEF MarkedUpTo, NextStart
  <2>4. \A x \in a + 1 .. b : IsStart(x) => x = ha
    BY <1>1, <1>2, <1>5, <2>1, <2>3
  <2>5. QED
    BY <1>1, <1>2, <1>5, <2>1, <2>2, <2>4 DEF PaddingAfter, IsStart
<1>6. ASSUME NEW b \in Bytes
      PROVE  \/ exec'[b] = exec0[b]
             \/ /\ exec'[b] = exec0[b] + 1
                /\ \E n \in 0 .. b, p \in 0 .. b : PaddingAfter(b, n, p)
  <2>1. CASE b \in ha .. to - 1
    <3>1. exec'[b] = exec0[b] + 1
      BY <1>1, <1>2, <2>1 DEF Bytes
    <3>2. QED
      BY <1>5, <2>1, <3>1
  <2>2. CASE b \notin ha .. to - 1
    <3>1. exec'[b] = exec[b]
      BY <1>1, <1>2, <2>2
    <3>2. QED
      BY <3>1 DEF PaddingInv, OnlyPaddingMarked
  <2>3. QED
    BY <2>1, <2>2
<1>7. OnlyPaddingMarked'
  BY <1>3, <1>4, <1>6 DEF OnlyPaddingMarked
<1>8. \A b \in Bytes : b >= to => exec'[b] = exec0[b]
  BY <1>1, <1>2 DEF Bytes
<1>9. QED
  BY <1>1, <1>7, <1>8

\* Every step only marks padding.
LEMMA NextPaddingInv == PaddingInv /\ [Next]_vars => PaddingInv'
<1> SUFFICES ASSUME PaddingInv, [Next]_vars PROVE PaddingInv'
  OBVIOUS
<1> USE SizeAssumption
<1>1. TypeOK'
  BY NextTypeOK DEF PaddingInv
<1>2. ASSUME UNCHANGED << input, exec >>
      PROVE  OnlyPaddingMarked' /\ Bytes' = Bytes /\ exec0' = exec0
  BY <1>2 DEF PaddingInv, OnlyPaddingMarked, PaddingAfter, input, Bytes, IsStart
<1>3. CASE NopSkip
  <2>1. a' = a + 1 /\ a \in Nat /\ UNCHANGED << input, exec >> /\ mapSize \in Nat
    BY <1>3 DEF NopSkip, PaddingInv, TypeOK, MapOK
  <2>2. \A b \in Bytes : b >= a + 1 => b >= a
    BY <2>1 DEF Bytes
  <2>3. QED
    BY <1>1, <1>2, <1>3, <2>1, <2>2 DEF NopSkip, PaddingInv
<1>4. CASE NopMark
  <2>1. UNCHANGED input
    BY <1>4 DEF NopMark
  <2>2. QED
    BY <1>1, <1>4, <2>1, NopMarkKeeps DEF PaddingInv, input, Bytes
<1>5. CASE pc' # "nops" /\ UNCHANGED << input, exec >>
  BY <1>1, <1>2, <1>5 DEF PaddingInv
<1>6. CASE UNCHANGED vars
  <2>1. UNCHANGED << input, exec >> /\ a' = a /\ pc' = pc
    BY <1>6 DEF vars, input
  <2>2. QED
    BY <1>1, <1>2, <2>1 DEF PaddingInv
<1>7. QED
  BY <1>3, <1>4, <1>5, <1>6
  DEF Next, NopsDone, ScanRange, ScanBranch, ScanOther, ScanDone, CountByte, CountDone

(***************************************************************************)
(* Whatever the map, the nop pass marks as executed only bytes of a nop    *)
(* that directly follows an instruction a test executed.                   *)
(***************************************************************************)
THEOREM PaddingCorrect == Spec => []OnlyPaddingMarked
<1>1. PaddingInv => OnlyPaddingMarked
  BY DEF PaddingInv
<1>2. QED
  BY InitPaddingInv, NextPaddingInv, <1>1, PTL DEF Spec
-----------------------------------------------------------------------------
(***************************************************************************)
(* BranchesExact speaks of the end only.  BranchInv follows the two passes *)
(* to it: below the address the scan has reached, the branches recorded    *)
(* are those seen going one way only, as many as the two counters of the   *)
(* reasons say; below the address calculateStatistics has reached, every   *)
(* branch is counted once.                                                 *)
(***************************************************************************)
OneWay(p)      == {b \in branch : b < p /\ Executed(b) /\ Verdict(b) # "covered"}
RanBelow(p)    == {b \in branch : b < p /\ Executed(b)}
UnranBelow(p)  == {b \in branch : b < p /\ ~Executed(b)}
BranchPairs    == {<< r.low, r.reason >> : r \in {branches[i] : i \in DOMAIN branches}}

Recorded(p) ==
  /\ BranchPairs = {<< b, Verdict(b) >> : b \in OneWay(p)}
  /\ Len(branches) = stats["branchesAlwaysTaken"] + stats["branchesNeverTaken"]
  /\ Len(branches) = Cardinality(OneWay(p))
Tallied(p) ==
  /\ stats["branchesExecuted"] = Cardinality(RanBelow(p))
  /\ stats["branchesNotExecuted"] = Cardinality(UnranBelow(p))

BranchInv ==
  /\ TypeOK
  /\ pc = "done" => a = SizeInBytes
  /\ pc = "nops" => branches = << >> /\ stats = [c \in Counter |-> 0]
  /\ branch \subseteq start =>
       /\ pc = "scan" => Recorded(a) /\ Tallied(0)
       /\ pc \in {"stats", "done"} => Recorded(SizeInBytes) /\ Tallied(a)

\* The sets the counters are compared with are finite.
LEMMA BelowFinite ==
  ASSUME TypeOK, NEW p
  PROVE  IsFiniteSet(OneWay(p)) /\ IsFiniteSet(RanBelow(p)) /\ IsFiniteSet(UnranBelow(p))
<1>1. mapSize \in Int /\ branch \subseteq 0 .. mapSize - 1
  BY SizeAssumption DEF TypeOK, MapOK, Bytes
<1>2. IsFiniteSet(0 .. mapSize - 1)
  BY <1>1, FS_Interval
<1>3. IsFiniteSet(branch)
  BY <1>1, <1>2, FS_Subset
<1>4. OneWay(p) \subseteq branch /\ RanBelow(p) \subseteq branch /\ UnranBelow(p) \subseteq branch
  BY DEF OneWay, RanBelow, UnranBelow
<1>5. QED
  BY <1>3, <1>4, FS_Subset

\* Nothing lies below the first address.
LEMMA NothingBelow ==
  ASSUME TypeOK
  PROVE  OneWay(0) = {} /\ RanBelow(0) = {} /\ UnranBelow(0) = {}
<1>1. \A b \in branch : ~(b < 0)
  BY SizeAssumption DEF TypeOK, MapOK, Bytes
<1>2. QED
  BY <1>1 DEF OneWay, RanBelow, UnranBelow

\* A step that leaves the map alone leaves the three sets alone.
LEMMA BelowKept ==
  ASSUME UNCHANGED << input, exec >>
  PROVE  /\ \A b : Verdict(b)' = Verdict(b)
         /\ \A p : /\ OneWay(p)' = OneWay(p)
                   /\ RanBelow(p)' = RanBelow(p)
                   /\ UnranBelow(p)' = UnranBelow(p)
<1>1. UNCHANGED << branch, taken, notTaken >>
  BY DEF input
<1>2. \A b : Executed(b)' <=> Executed(b)
  BY DEF input, Executed, Bytes
<1>3. \A b : Verdict(b)' = Verdict(b)
  BY <1>1 DEF Verdict, AlwaysTaken, NeverTaken
<1>4. QED
  BY <1>1, <1>2, <1>3 DEF OneWay, RanBelow, UnranBelow

\* A step that also leaves the branches and their counters alone keeps what
\* is recorded and what is counted.
LEMMA RecordedKept ==
  ASSUME UNCHANGED << input, exec, branches >>, TypeOK,
         stats'["branchesAlwaysTaken"] = stats["branchesAlwaysTaken"],
         stats'["branchesNeverTaken"] = stats["branchesNeverTaken"], NEW p
  PROVE  Recorded(p)' <=> Recorded(p)
<1>1. OneWay(p)' = OneWay(p) /\ \A b : Verdict(b)' = Verdict(b)
  BY BelowKept
<1>2. BranchPairs' = BranchPairs
  BY DEF BranchPairs
<1>3. {<< b, Verdict(b) >> : b \in OneWay(p)}' = {<< b, Verdict(b) >> : b \in OneWay(p)}
  BY <1>1
<1>4. QED
  BY <1>1, <1>2, <1>3 DEF Recorded

\* A step that leaves the branch statistics alone keeps them tallied.
LEMMA TalliedKept ==
  ASSUME UNCHANGED << input, exec >>, TypeOK,
         stats'["branchesExecuted"] = stats["branchesExecuted"],
         stats'["branchesNotExecuted"] = stats["branchesNotExecuted"], NEW p
  PROVE  Tallied(p)' <=> Tallied(p)
BY BelowKept DEF Tallied

\* What Bump does to a counter.
LEMMA BumpFacts ==
  ASSUME TypeOK, NEW names, NEW c \in Counter
  PROVE  /\ c \in names => Bump(names)[c] = stats[c] + 1
         /\ c \notin names => Bump(names)[c] = stats[c]
         /\ stats[c] \in Nat
BY DEF Bump, TypeOK

\* No branch is recorded to begin with.
LEMMA InitBranchInv == Init => BranchInv
<1> SUFFICES ASSUME Init PROVE BranchInv
  OBVIOUS
<1>1. TypeOK
  BY InitTypeOK
<1>2. pc = "nops" /\ branches = << >> /\ stats = [c \in Counter |-> 0]
  BY DEF Init
<1>3. QED
  BY <1>1, <1>2 DEF BranchInv

\* Between an executed branch and the next start of an instruction there is
\* no branch.
LEMMA ScanBranchSets ==
  ASSUME TypeOK, branch \subseteq start, a \in branch, Executed(a),
         NEW ha \in a + 1 .. SizeInBytes, NextStart(a, ha)
  PROVE  OneWay(ha) = IF Verdict(a) = "covered" THEN OneWay(a) ELSE OneWay(a) \cup {a}
<1>1. a \in Int /\ ha \in Int /\ SizeInBytes \in Int /\ \A b \in branch : b \in Int
  BY SizeAssumption DEF TypeOK, MapOK, Bytes
<1>2. ASSUME NEW b \in branch PROVE b < ha <=> b < a \/ b = a
  <2>1. b \notin a + 1 .. ha - 1
    BY DEF NextStart, IsStart
  <2>2. QED
    BY <1>1, <2>1
<1>3. QED
  BY <1>1, <1>2 DEF OneWay

\* The verdicts.
LEMMA VerdictType ==
  ASSUME NEW b
  PROVE  Verdict(b) \in {"branchesAlwaysTaken", "branchesNeverTaken", "covered"}
BY DEF Verdict

\* The scan records the branch it passes.
LEMMA ScanBranchRecords ==
  ASSUME BranchInv, ScanBranch, branch \subseteq start
  PROVE  Recorded(a)' /\ Tallied(0)'
<1>1. PICK ha \in a + 1 .. SizeInBytes :
        /\ NextStart(a, ha)
        /\ branches' = IF Verdict(a) = "covered" THEN branches
                       ELSE Append(branches, [low |-> a, high |-> ha - 1,
                                              reason |-> Verdict(a)])
        /\ a' = ha
  BY DEF ScanBranch
<1>2. /\ TypeOK /\ Recorded(a) /\ Tallied(0) /\ a \in branch /\ Executed(a)
      /\ stats' = Bump({Verdict(a)}) /\ UNCHANGED << input, exec >>
  BY DEF ScanBranch, BranchInv
<1>3. OneWay(ha) = IF Verdict(a) = "covered" THEN OneWay(a) ELSE OneWay(a) \cup {a}
  BY <1>1, <1>2, ScanBranchSets
<1>4. /\ OneWay(ha)' = OneWay(ha) /\ \A b : Verdict(b)' = Verdict(b)
  BY <1>2, BelowKept
<1>5. Verdict(a) \in {"branchesAlwaysTaken", "branchesNeverTaken", "covered"}
  BY VerdictType
<1>6. /\ stats'["branchesExecuted"] = stats["branchesExecuted"]
      /\ stats'["branchesNotExecuted"] = stats["branchesNotExecuted"]
  BY <1>2, <1>5, BumpFacts DEF Counter
<1>7. Tallied(0)'
  BY <1>2, <1>6, TalliedKept
<1>8. branches \in Seq(BranchRecord) /\ Len(branches) \in Nat
  BY <1>2 DEF TypeOK
<1>9. CASE Verdict(a) = "covered"
  <2>1. /\ stats'["branchesAlwaysTaken"] = stats["branchesAlwaysTaken"]
        /\ stats'["branchesNeverTaken"] = stats["branchesNeverTaken"]
    BY <1>2, <1>9, BumpFacts DEF Counter
  <2>2. Recorded(a)' <=> Recorded(ha)'
    BY <1>1 DEF Recorded
  <2>3. branches' = branches
    BY <1>1, <1>9
  <2>4. Recorded(ha)' <=> Recorded(ha)
    BY <1>2, <2>1, <2>3, RecordedKept
  <2>5. Recorded(ha)
    BY <1>2, <1>3, <1>9 DEF Recorded
  <2>6. QED
    BY <1>7, <2>2, <2>4, <2>5
<1>10. CASE Verdict(a) # "covered"
  <2> DEFINE new == [low |-> a, high |-> ha - 1, reason |-> Verdict(a)]
  <2>1. stats'["branchesAlwaysTaken"] + stats'["branchesNeverTaken"]
          = stats["branchesAlwaysTaken"] + stats["branchesNeverTaken"] + 1
    <3>1. /\ stats["branchesAlwaysTaken"] \in Nat /\ stats["branchesNeverTaken"] \in Nat
      BY <1>2, BumpFacts DEF Counter
    <3>2. CASE Verdict(a) = "branchesAlwaysTaken"
      <4>1. /\ stats'["branchesAlwaysTaken"] = stats["branchesAlwaysTaken"] + 1
            /\ stats'["branchesNeverTaken"] = stats["branchesNeverTaken"]
        BY <1>2, <3>2, BumpFacts DEF Counter
      <4>2. QED
        BY <3>1, <4>1
    <3>3. CASE Verdict(a) = "branchesNeverTaken"
      <4>1. /\ stats'["branchesAlwaysTaken"] = stats["branchesAlwaysTaken"]
            /\ stats'["branchesNeverTaken"] = stats["branchesNeverTaken"] + 1
        BY <1>2, <3>3, BumpFacts DEF Counter
      <4>2. QED
        BY <3>1, <4>1
    <3>4. QED
      BY <1>5, <1>10, <3>2, <3>3
  <2>2. new \in BranchRecord
    <3>1. ScanBranch /\ a \in 0 .. endAddress /\ SizeInBytes \in Nat
      BY <1>2, SizeAssumption DEF ScanBranch, TypeOK, endAddress
    <3>2. ha - 1 \in 0 .. endAddress
      BY <3>1 DEF endAddress
    <3>3. QED
      BY <1>5, <1>10, <3>1, <3>2 DEF BranchRecord
  <2>3. branches' = Append(branches, new)
    BY <1>1, <1>10
  <2> HIDE DEF new
  <2>4. /\ Len(branches') = Len(branches) + 1 /\ branches' \in Seq(BranchRecord)
        /\ \A i \in 1 .. Len(branches) : branches'[i] = branches[i]
        /\ branches'[Len(branches) + 1] = new
        /\ DOMAIN branches = 1 .. Len(branches)
        /\ DOMAIN branches' = 1 .. Len(branches) + 1
    BY <1>8, <2>2, <2>3
  <2>5. BranchPairs' = BranchPairs \cup {<< a, Verdict(a) >>}
    <3>1. new.low = a /\ new.reason = Verdict(a)
      BY DEF new
    <3>2. {branches'[i] : i \in DOMAIN branches'} =
            {branches[i] : i \in DOMAIN branches} \cup {new}
      BY <1>8, <2>4
    <3>3. QED
      BY <3>1, <3>2 DEF BranchPairs
  <2>6. a \notin OneWay(a)
    BY DEF OneWay, BranchInv, TypeOK
  <2>7. Cardinality(OneWay(ha)) = Cardinality(OneWay(a)) + 1
    <3>1. IsFiniteSet(OneWay(a))
      BY <1>2, BelowFinite
    <3>2. OneWay(ha) = OneWay(a) \cup {a}
      BY <1>3, <1>10
    <3>3. QED
      BY <2>6, <3>1, <3>2, FS_AddElement
  <2>8. BranchPairs' = {<< b, Verdict(b) >> : b \in OneWay(ha)}
    BY <1>2, <1>3, <1>10, <2>5 DEF Recorded
  <2>9. BranchPairs' = {<< b, Verdict(b) >> : b \in OneWay(ha)}'
    BY <1>4, <2>8
  <2>10. Len(branches') = stats'["branchesAlwaysTaken"] + stats'["branchesNeverTaken"]
    BY <1>2, <2>1, <2>4 DEF Recorded
  <2>11. Len(branches') = Cardinality(OneWay(ha)')
    BY <1>2, <1>4, <2>4, <2>7 DEF Recorded
  <2>12. Recorded(ha)'
    BY <2>9, <2>10, <2>11 DEF Recorded
  <2>13. QED
    BY <1>1, <1>7, <2>12 DEF Recorded
<1>11. QED
  BY <1>9, <1>10

\* An unexecuted stretch, or an executed byte that is no branch, holds no
\* executed branch.
LEMMA ScanOthersSets ==
  ASSUME TypeOK, ScanRange \/ ScanOther
  PROVE  OneWay(a') = OneWay(a)
<1>1. a \in Nat /\ \A b \in branch : b \in Int
  BY DEF TypeOK, MapOK, Bytes
<1>2. CASE ScanRange
  <2>1. PICK ha \in a + 1 .. SizeInBytes : NextExecuted(a, ha) /\ a' = ha
    BY <1>2 DEF ScanRange
  <2>2. ~Executed(a) /\ SizeInBytes \in Int
    BY <1>2, SizeAssumption DEF ScanRange
  <2>3. \A b \in branch : b < ha /\ Executed(b) => b < a
    BY <1>1, <2>1, <2>2 DEF NextExecuted
  <2>4. QED
    BY <1>1, <2>1, <2>2, <2>3 DEF OneWay
<1>3. CASE ScanOther
  <2>1. a' = a + 1 /\ a \notin branch
    BY <1>3 DEF ScanOther
  <2>2. QED
    BY <1>1, <2>1 DEF OneWay
<1>4. QED
  BY <1>2, <1>3

\* ... and adds none.
LEMMA ScanOthersRecord ==
  ASSUME BranchInv, ScanRange \/ ScanOther, branch \subseteq start
  PROVE  Recorded(a)' /\ Tallied(0)'
<1>1. /\ TypeOK /\ Recorded(a) /\ Tallied(0) /\ UNCHANGED << input, exec, branches >>
      /\ a \in Nat
  BY DEF ScanRange, ScanOther, BranchInv, TypeOK
<1>2. \A c \in Counter \ {"uncoveredRanges"} : stats'[c] = stats[c]
  <2>1. CASE ScanOther
    BY <2>1 DEF ScanOther
  <2>2. CASE ScanRange
    <3>1. stats' = Bump({"uncoveredRanges"})
      BY <2>2 DEF ScanRange
    <3>2. QED
      BY <1>1, <3>1, BumpFacts
  <2>3. QED
    BY <2>1, <2>2
<1>3. /\ stats'["branchesAlwaysTaken"] = stats["branchesAlwaysTaken"]
      /\ stats'["branchesNeverTaken"] = stats["branchesNeverTaken"]
      /\ stats'["branchesExecuted"] = stats["branchesExecuted"]
      /\ stats'["branchesNotExecuted"] = stats["branchesNotExecuted"]
  BY <1>2 DEF Counter
<1>4. Tallied(0)'
  BY <1>1, <1>3, TalliedKept
<1>5. OneWay(a') = OneWay(a)
  BY <1>1, ScanOthersSets
<1>6. Recorded(a')
  BY <1>1, <1>5 DEF Recorded
<1>7. PICK ha : ha = a'
  OBVIOUS
<1>8. Recorded(ha)' <=> Recorded(ha)
  BY <1>1, <1>3, RecordedKept
<1>9. Recorded(a)' <=> Recorded(ha)'
  BY <1>7 DEF Recorded
<1>10. QED
  BY <1>4, <1>6, <1>7, <1>8, <1>9

\* One byte of calculateStatistics.
LEMMA CountByteTallies ==
  ASSUME BranchInv, CountByte, branch \subseteq start
  PROVE  Recorded(SizeInBytes)' /\ Tallied(a)'
<1>1. /\ TypeOK /\ Recorded(SizeInBytes) /\ Tallied(a)
      /\ UNCHANGED << input, exec, branches >> /\ a' = a + 1 /\ a \in Nat
      /\ stats' = Bump(CountersOf(a))
  BY DEF CountByte, BranchInv, TypeOK
<1>2. /\ "branchesAlwaysTaken" \notin CountersOf(a)
      /\ "branchesNeverTaken" \notin CountersOf(a)
  BY DEF CountersOf
<1>3. /\ stats'["branchesAlwaysTaken"] = stats["branchesAlwaysTaken"]
      /\ stats'["branchesNeverTaken"] = stats["branchesNeverTaken"]
  BY <1>1, <1>2, BumpFacts DEF Counter
<1>4. Recorded(SizeInBytes)'
  BY <1>1, <1>3, RecordedKept
<1>5. /\ "branchesExecuted" \in CountersOf(a) <=> a \in branch /\ Executed(a)
      /\ "branchesNotExecuted" \in CountersOf(a) <=> a \in branch /\ ~Executed(a)
  BY DEF CountersOf, IsStart
<1>6. /\ IsFiniteSet(RanBelow(a)) /\ IsFiniteSet(UnranBelow(a))
  BY <1>1, BelowFinite
<1>7. \A b \in branch : b \in Int
  BY <1>1 DEF TypeOK, MapOK, Bytes
<1>8. RanBelow(a + 1) = IF a \in branch /\ Executed(a) THEN RanBelow(a) \cup {a}
                        ELSE RanBelow(a)
  BY <1>1, <1>7 DEF RanBelow
<1>9. UnranBelow(a + 1) = IF a \in branch /\ ~Executed(a) THEN UnranBelow(a) \cup {a}
                          ELSE UnranBelow(a)
  BY <1>1, <1>7 DEF UnranBelow
<1>10. a \notin RanBelow(a) /\ a \notin UnranBelow(a)
  BY <1>1 DEF RanBelow, UnranBelow
<1>11. stats'["branchesExecuted"] = Cardinality(RanBelow(a + 1))
  <2>1. "branchesExecuted" \in Counter
    BY DEF Counter
  <2>2. CASE a \in branch /\ Executed(a)
    <3>1. stats'["branchesExecuted"] = stats["branchesExecuted"] + 1
      BY <1>1, <1>5, <2>1, <2>2, BumpFacts
    <3>2. QED
      BY <1>1, <1>6, <1>8, <1>10, <2>2, <3>1, FS_AddElement DEF Tallied
  <2>3. CASE ~(a \in branch /\ Executed(a))
    <3>1. stats'["branchesExecuted"] = stats["branchesExecuted"]
      BY <1>1, <1>5, <2>1, <2>3, BumpFacts
    <3>2. QED
      BY <1>1, <1>8, <2>3, <3>1 DEF Tallied
  <2>4. QED
    BY <2>2, <2>3
<1>12. stats'["branchesNotExecuted"] = Cardinality(UnranBelow(a + 1))
  <2>1. "branchesNotExecuted" \in Counter
    BY DEF Counter
  <2>2. CASE a \in branch /\ ~Executed(a)
    <3>1. stats'["branchesNotExecuted"] = stats["branchesNotExecuted"] + 1
      BY <1>1, <1>5, <2>1, <2>2, BumpFacts
    <3>2. QED
      BY <1>1, <1>6, <1>9, <1>10, <2>2, <3>1, FS_AddElement DEF Tallied
  <2>3. CASE ~(a \in branch /\ ~Executed(a))
    <3>1. stats'["branchesNotExecuted"] = stats["branchesNotExecuted"]
      BY <1>1, <1>5, <2>1, <2>3, BumpFacts
    <3>2. QED
      BY <1>1, <1>9, <2>3, <3>1 DEF Tallied
  <2>4. QED
    BY <2>2, <2>3
<1>13. PICK next : next = a + 1
  OBVIOUS
<1>14. RanBelow(next)' = RanBelow(next) /\ UnranBelow(next)' = UnranBelow(next)
  BY <1>1, BelowKept
<1>15. Tallied(next)'
  BY <1>11, <1>12, <1>13, <1>14 DEF Tallied
<1>16. QED
  BY <1>1, <1>4, <1>13, <1>15 DEF Tallied

\* Every step keeps the invariant of the branches.
LEMMA NextBranchInv == BranchInv /\ [Next]_vars => BranchInv'
<1> SUFFICES ASSUME BranchInv, [Next]_vars PROVE BranchInv'
  OBVIOUS
<1>1. TypeOK /\ TypeOK'
  BY NextTypeOK DEF BranchInv
<1>2. CASE NopSkip \/ NopMark
  BY <1>1, <1>2 DEF NopSkip, NopMark, BranchInv
<1>3. CASE NopsDone
  <2>1. /\ branches' = << >> /\ stats' = [c \in Counter |-> 0] /\ a' = 0
        /\ pc' = "scan" /\ branches = << >> /\ UNCHANGED << input, exec >>
    BY <1>3 DEF NopsDone, BranchInv
  <2>2. /\ OneWay(0)' = {} /\ RanBelow(0)' = {} /\ UnranBelow(0)' = {}
    BY <1>1, <2>1, BelowKept, NothingBelow
  <2>3. Len(branches') = 0 /\ BranchPairs' = {} /\ Cardinality({}) = 0
    BY <2>1, FS_EmptySet DEF BranchPairs
  <2>4. \A c \in Counter : stats'[c] = 0
    BY <2>1
  <2>5. Recorded(0)'
    <3>1. {<< b, Verdict(b) >> : b \in OneWay(0)}' = {}
      BY <2>2
    <3>2. stats'["branchesAlwaysTaken"] = 0 /\ stats'["branchesNeverTaken"] = 0
      BY <2>4 DEF Counter
    <3>3. BranchPairs' = {<< b, Verdict(b) >> : b \in OneWay(0)}'
      BY <2>3, <3>1
    <3>4. Len(branches') = stats'["branchesAlwaysTaken"] + stats'["branchesNeverTaken"]
      BY <2>3, <3>2
    <3>5. Len(branches') = Cardinality(OneWay(0)')
      BY <2>2, <2>3
    <3>6. QED
      BY <3>3, <3>4, <3>5 DEF Recorded
  <2>6. Tallied(0)'
    BY <2>2, <2>3, <2>4 DEF Tallied, Counter
  <2>7. Recorded(a)'
    BY <2>1, <2>5 DEF Recorded
  <2>8. QED
    BY <1>1, <2>1, <2>6, <2>7 DEF BranchInv
<1>4. CASE ScanRange \/ ScanBranch \/ ScanOther
  <2>1. UNCHANGED input /\ pc = "scan" /\ pc' = "scan"
    BY <1>4 DEF ScanRange, ScanBranch, ScanOther
  <2>2. branch' \subseteq start' => Recorded(a)' /\ Tallied(0)'
    BY <1>4, <2>1, ScanBranchRecords, ScanOthersRecord DEF input
  <2>3. QED
    BY <1>1, <2>1, <2>2 DEF BranchInv
<1>5. CASE ScanDone
  <2>1. /\ UNCHANGED << input, exec, branches, stats >> /\ pc = "scan" /\ pc' = "stats"
        /\ a' = 0 /\ a = SizeInBytes
    BY <1>1, <1>5, SizeAssumption DEF ScanDone, TypeOK, endAddress
  <2>2. ASSUME branch \subseteq start PROVE Recorded(SizeInBytes)' /\ Tallied(a)'
    <3>1. Recorded(SizeInBytes) /\ Tallied(0)
      BY <2>1, <2>2 DEF BranchInv
    <3>2. Recorded(SizeInBytes)' /\ Tallied(0)'
      BY <1>1, <2>1, <3>1, RecordedKept, TalliedKept
    <3>3. QED
      BY <2>1, <3>2 DEF Tallied
  <2>3. QED
    BY <1>1, <2>1, <2>2 DEF BranchInv, input
<1>6. CASE CountByte
  <2>1. UNCHANGED input /\ pc = "stats" /\ pc' = "stats"
    BY <1>6 DEF CountByte
  <2>2. branch' \subseteq start' => Recorded(SizeInBytes)' /\ Tallied(a)'
    BY <1>6, <2>1, CountByteTallies DEF input
  <2>3. QED
    BY <1>1, <2>1, <2>2 DEF BranchInv
<1>7. CASE CountDone \/ UNCHANGED vars
  <2>1. UNCHANGED << input, exec, branches, stats, a >>
    BY <1>7 DEF CountDone, vars, input
  <2>2. \/ pc' = pc
        \/ pc = "stats" /\ pc' = "done" /\ a' = SizeInBytes
    BY <1>1, <1>7, SizeAssumption DEF CountDone, vars, TypeOK, endAddress
  <2>3. PICK here : here = a
    OBVIOUS
  <2>4. /\ Recorded(here)' <=> Recorded(here)
        /\ Tallied(here)' <=> Tallied(here)
        /\ Tallied(0)' <=> Tallied(0)
    BY <1>1, <2>1, RecordedKept, TalliedKept
  <2>5. Recorded(SizeInBytes)' <=> Recorded(SizeInBytes)
    BY <1>1, <2>1, RecordedKept
  <2>6. /\ Recorded(a)' <=> Recorded(a)
        /\ Tallied(a)' <=> Tallied(a)
    BY <2>1, <2>3, <2>4
  <2>7. branch' = branch /\ start' = start
    BY <2>1 DEF input
  <2>8. QED
    BY <1>1, <2>1, <2>2, <2>4, <2>5, <2>6, <2>7 DEF BranchInv
<1>8. QED
  BY <1>2, <1>3, <1>4, <1>5, <1>6, <1>7 DEF Next

(***************************************************************************)
(* At the end the records are the executed branches seen going one way.    *)
(***************************************************************************)
LEMMA BranchInvImplies == BranchInv => BranchesExact
<1> SUFFICES ASSUME BranchInv, pc = "done", branch \subseteq start
             PROVE  BranchesExact
  BY DEF BranchesExact
<1>1. /\ TypeOK /\ a = SizeInBytes /\ Recorded(SizeInBytes) /\ Tallied(SizeInBytes)
  BY DEF BranchInv
<1>2. \A b \in branch : b < SizeInBytes
  BY <1>1, SizeAssumption DEF TypeOK, MapOK, Bytes
<1>3. BranchPairs =
         {<< b, "branchesAlwaysTaken" >> :
            b \in {x \in branch : Executed(x) /\ x \in taken \ notTaken}} \cup
         {<< b, "branchesNeverTaken" >> :
            b \in {x \in branch : Executed(x) /\ x \in notTaken \ taken}}
  <2> DEFINE always == {x \in branch : Executed(x) /\ x \in taken \ notTaken}
             never  == {x \in branch : Executed(x) /\ x \in notTaken \ taken}
  <2>1. OneWay(SizeInBytes) = always \cup never
    BY <1>2 DEF OneWay, Verdict, AlwaysTaken, NeverTaken
  <2>2. \A b \in always : Verdict(b) = "branchesAlwaysTaken"
    BY DEF Verdict, AlwaysTaken
  <2>3. \A b \in never : Verdict(b) = "branchesNeverTaken"
    BY DEF Verdict, AlwaysTaken, NeverTaken
  <2>4. BranchPairs = {<< b, Verdict(b) >> : b \in OneWay(SizeInBytes)}
    BY <1>1 DEF Recorded
  <2> HIDE DEF always, never
  <2>5. BranchPairs = {<< b, "branchesAlwaysTaken" >> : b \in always} \cup
                      {<< b, "branchesNeverTaken" >> : b \in never}
    BY <2>1, <2>2, <2>3, <2>4
  <2>6. QED
    BY <2>5 DEF always, never
<1>4. /\ IsFiniteSet(RanBelow(SizeInBytes)) /\ IsFiniteSet(UnranBelow(SizeInBytes))
      /\ Cardinality(RanBelow(SizeInBytes)) \in Nat
      /\ Cardinality(UnranBelow(SizeInBytes)) \in Nat
  BY <1>1, BelowFinite, FS_CardinalityType
<1>5. Len(branches) <= stats["branchesExecuted"]
  <2>1. OneWay(SizeInBytes) \subseteq RanBelow(SizeInBytes)
    BY DEF OneWay, RanBelow
  <2>2. Cardinality(OneWay(SizeInBytes)) <= Cardinality(RanBelow(SizeInBytes))
    BY <1>4, <2>1, FS_Subset
  <2>3. QED
    BY <1>1, <2>2 DEF Recorded, Tallied
<1>6. stats["branchesExecuted"] + stats["branchesNotExecuted"] = Cardinality(branch)
  <2>1. RanBelow(SizeInBytes) \cup UnranBelow(SizeInBytes) = branch
    BY <1>2 DEF RanBelow, UnranBelow
  <2>2. RanBelow(SizeInBytes) \cap UnranBelow(SizeInBytes) = {}
    BY DEF RanBelow, UnranBelow
  <2>3. Cardinality(branch) =
          Cardinality(RanBelow(SizeInBytes)) + Cardinality(UnranBelow(SizeInBytes)) - 0
    <3>1. Cardinality(RanBelow(SizeInBytes) \cap UnranBelow(SizeInBytes)) = 0
      BY <2>2, FS_EmptySet
    <3>2. Cardinality(RanBelow(SizeInBytes) \cup UnranBelow(SizeInBytes)) =
            Cardinality(RanBelow(SizeInBytes)) + Cardinality(UnranBelow(SizeInBytes))
              - Cardinality(RanBelow(SizeInBytes) \cap UnranBelow(SizeInBytes))
      BY <1>4, FS_Union
    <3>3. QED
      BY <2>1, <3>1, <3>2
  <2>4. QED
    BY <1>1, <1>4, <2>3 DEF Tallied
<1>7. QED
  BY <1>1, <1>3, <1>5, <1>6 DEF BranchesExact, Recorded, BranchPairs

(***************************************************************************)
(* The uncovered branches are the executed ones seen going one way only,   *)
(* and the totals of the two passes fit, for every symbol and every map    *)
(* whose branch flags sit on starts of instructions.                       *)
(***************************************************************************)
THEOREM BranchesCorrect == Spec => []BranchesExact
BY InitBranchInv, NextBranchInv, BranchInvImplies, PTL DEF Spec
-----------------------------------------------------------------------------
(***************************************************************************)
(* ReportsAgree compares what the two passes added up.  AgreeInv extends   *)
(* ScanInv: the bytes of the ranges are the unexecuted bytes outside       *)
(* branch tails passed so far, and where instructions were executed whole  *)
(* or not at all, before the nop pass and hence after it, the counts of    *)
(* the ranges are the unexecuted instructions passed so far.               *)
(***************************************************************************)
UncoveredBelow(p) == {b \in 0 .. p - 1 : ~Executed(b)}
HeldBelow(p)      == {b \in 0 .. p - 1 : ~Executed(b) /\ ~BranchTail(b)}
StartsBelow(p)    == {b \in start : b < p /\ ~Executed(b)}

WholeExec == \A b \in Bytes \ start : exec[b] > 0 <=> exec[b - 1] > 0

Totals(p) ==
  /\ stats["uncoveredRanges"] = Len(ranges)
  /\ RangeBytes = Cardinality(HeldBelow(p))
  /\ WholeInstructions => RangeInstructions = Cardinality(StartsBelow(p))
CountedTo(p) ==
  /\ stats["uncoveredBytes"] = Cardinality(UncoveredBelow(p))
  /\ stats["uncoveredInstructions"] = Cardinality(StartsBelow(p))

AgreeInv ==
  /\ ScanInv
  /\ 0 \in start
  /\ WholeInstructions => WholeExec
  /\ pc = "done" => a = SizeInBytes
  /\ pc = "nops" => stats = [c \in Counter |-> 0]
  /\ pc = "scan" => Totals(a) /\ CountedTo(0)
  /\ pc \in {"stats", "done"} => Totals(SizeInBytes) /\ CountedTo(a)

\* A sequence of naturals one longer sums to its last element more.
LEMMA SumOneMore ==
  ASSUME NEW n \in Nat, NEW f \in [1 .. n + 1 -> Nat], NEW g \in [1 .. n -> Nat],
         \A i \in 1 .. n : f[i] = g[i]
  PROVE  SumFunction(f) = SumFunction(g) + f[n + 1]
<1>1. IsFiniteSet(1 .. n)
  BY FS_Interval
<1>2. 1 .. n + 1 = (1 .. n) \cup {n + 1} /\ n + 1 \notin 1 .. n
  OBVIOUS
<1>3. \A i \in (1 .. n) \cup {n + 1} : f[i] \in Nat
  BY <1>2
<1>4. SumFunctionOnSet(f, (1 .. n) \cup {n + 1}) = f[n + 1] + SumFunctionOnSet(f, 1 .. n)
  BY ONLY <1>1, <1>2, <1>3, SumAdd
<1>5. SumFunctionOnSet(f, 1 .. n) = SumFunctionOnSet(g, 1 .. n)
  BY <1>1, SumEqual
<1>6. DOMAIN f = (1 .. n) \cup {n + 1} /\ DOMAIN g = 1 .. n
  BY <1>2
<1>7. SumFunction(f) = f[n + 1] + SumFunction(g)
  BY <1>4, <1>5, <1>6 DEF SumFunction
<1>8. SumFunctionOnSet(g, 1 .. n) \in Nat
  BY <1>1, SumType
<1>9. SumFunction(g) \in Nat /\ f[n + 1] \in Nat
  BY <1>3, <1>6, <1>8 DEF SumFunction
<1>10. QED
  BY <1>7, <1>9

\* The sets of bytes the totals are compared with are finite.
LEMMA StretchesFinite ==
  ASSUME TypeOK, NEW p \in Int
  PROVE  IsFiniteSet(UncoveredBelow(p)) /\ IsFiniteSet(HeldBelow(p)) /\ IsFiniteSet(StartsBelow(p))
<1>1. mapSize \in Int /\ start \subseteq 0 .. mapSize - 1
  BY SizeAssumption DEF TypeOK, MapOK, Bytes
<1>2. IsFiniteSet(0 .. mapSize - 1) /\ IsFiniteSet(0 .. p - 1)
  BY <1>1, FS_Interval
<1>3. StartsBelow(p) \subseteq 0 .. mapSize - 1
  BY <1>1 DEF StartsBelow
<1>4. UncoveredBelow(p) \subseteq 0 .. p - 1 /\ HeldBelow(p) \subseteq 0 .. p - 1
  BY DEF UncoveredBelow, HeldBelow
<1>5. QED
  BY <1>2, <1>3, <1>4, FS_Subset

\* A step that leaves the map alone leaves those sets, and what is assumed of
\* the map, alone.
LEMMA StretchesKept ==
  ASSUME UNCHANGED << input, exec >>
  PROVE  /\ WholeInstructions' <=> WholeInstructions
         /\ WholeExec' <=> WholeExec
         /\ \A p : /\ UncoveredBelow(p)' = UncoveredBelow(p)
                   /\ HeldBelow(p)' = HeldBelow(p)
                   /\ StartsBelow(p)' = StartsBelow(p)
<1>1. UNCHANGED << mapSize, start, nop, exec0, exec >>
  BY DEF input
<1>2. /\ \A b : Executed(b)' <=> Executed(b)
      /\ \A b : BranchTail(b)' <=> BranchTail(b)
  BY PredicatesKept
<1>3. /\ WholeInstructions' <=> WholeInstructions
      /\ WholeExec' <=> WholeExec
  BY <1>1 DEF WholeInstructions, WholeExec, Bytes
<1>4. \A p : /\ UncoveredBelow(p)' = UncoveredBelow(p)
             /\ HeldBelow(p)' = HeldBelow(p)
             /\ StartsBelow(p)' = StartsBelow(p)
  BY <1>1, <1>2 DEF UncoveredBelow, HeldBelow, StartsBelow
<1>5. QED
  BY <1>3, <1>4

\* A step that leaves ranges and their number alone keeps the totals,
LEMMA TotalsKept ==
  ASSUME UNCHANGED << input, exec, ranges >>,
         stats'["uncoveredRanges"] = stats["uncoveredRanges"], NEW p
  PROVE  Totals(p)' <=> Totals(p)
<1>1. RangeBytes' = RangeBytes /\ RangeInstructions' = RangeInstructions
  BY DEF RangeBytes, RangeInstructions
<1>2. QED
  BY <1>1, StretchesKept DEF Totals

\* ... and one that leaves the sums alone keeps the sums.
LEMMA CountedKept ==
  ASSUME UNCHANGED << input, exec >>,
         stats'["uncoveredBytes"] = stats["uncoveredBytes"],
         stats'["uncoveredInstructions"] = stats["uncoveredInstructions"], NEW p
  PROVE  CountedTo(p)' <=> CountedTo(p)
BY StretchesKept DEF CountedTo

\* Marking a nop keeps instructions whole: a nop that is not the last
\* instruction is marked up to the next start.
LEMMA NopMarkWhole ==
  ASSUME TypeOK, 0 \in start, WholeInstructions, WholeExec, NopMark
  PROVE  WholeExec'
<1> USE SizeAssumption DEF endAddress
<1>1. PICK ha \in a + 1 .. endAddress - 1, to \in a + 1 .. endAddress :
        /\ NextStart(a, ha) /\ MarkedUpTo(ha, to)
        /\ exec' = [b \in Bytes |-> exec[b] + IF b \in ha .. to - 1 THEN 1 ELSE 0]
        /\ a' = to
  BY DEF NopMark
<1>2. /\ UNCHANGED input /\ a \in Nat /\ mapSize = SizeInBytes /\ exec \in [Bytes -> Nat]
      /\ start \subseteq Bytes
  BY DEF NopMark, TypeOK, MapOK, WholeInstructions
<1>3. Bytes' = Bytes /\ start' = start
  BY <1>2 DEF input, Bytes
<1>4. ha \in start
  BY <1>1, <1>2 DEF NextStart, IsStart
<1>5. to = ha \/ to \in start
  <2>1. CASE ha \notin nop
    BY <1>1, <2>1 DEF MarkedUpTo
  <2>2. CASE ha \in nop
    <3>1. PICK up \in ha + 1 .. SizeInBytes :
            /\ NextStart(ha, up) /\ to = IF up < endAddress THEN up ELSE endAddress
      BY <1>1, <2>2 DEF MarkedUpTo
    <3>2. PICK s \in start : ha < s
      BY <2>2 DEF WholeInstructions
    <3>3. s \in 0 .. SizeInBytes - 1
      BY <1>2, <3>2 DEF Bytes
    <3>4. up # SizeInBytes
      BY <1>1, <1>2, <3>1, <3>2, <3>3 DEF NextStart, IsStart
    <3>5. up \in start
      BY <3>1, <3>4 DEF NextStart, IsStart
    <3>6. to = up
      BY <1>1, <1>2, <3>1, <3>4
    <3>7. QED
      BY <3>5, <3>6
  <2>3. QED
    BY <2>1, <2>2
<1>6. ASSUME NEW b \in Bytes \ start
      PROVE  exec'[b] > 0 <=> exec'[b - 1] > 0
  <2>1. b \in Nat /\ b # 0 /\ b - 1 \in Bytes
    BY <1>2 DEF Bytes
  <2>2. exec[b] > 0 <=> exec[b - 1] > 0
    BY DEF WholeExec
  <2>3. b # ha /\ (to # ha => b # to)
    BY <1>4, <1>5
  <2>4. b \in ha .. to - 1 <=> b - 1 \in ha .. to - 1
    BY <1>1, <1>2, <2>1, <2>3
  <2>5. exec[b] \in Nat /\ exec[b - 1] \in Nat
    BY <1>2, <2>1
  <2>6. /\ exec'[b] = exec[b] + IF b \in ha .. to - 1 THEN 1 ELSE 0
        /\ exec'[b - 1] = exec[b - 1] + IF b - 1 \in ha .. to - 1 THEN 1 ELSE 0
    BY <1>1, <2>1
  <2>7. QED
    BY <2>2, <2>4, <2>5, <2>6
<1>7. QED
  BY <1>3, <1>6 DEF WholeExec

\* In a map of whole instructions the tail of an executed branch is executed.
LEMMA TailExecuted ==
  ASSUME TypeOK, WholeInstructions, WholeExec, NEW b \in Bytes, BranchTail(b)
  PROVE  Executed(b)
<1>1. PICK p \in branch : p < b /\ Executed(p) /\ \A x \in p + 1 .. b : ~IsStart(x)
  BY DEF BranchTail
<1>2. p \in Nat /\ b \in Nat /\ mapSize \in Nat /\ b < mapSize
  BY SizeAssumption DEF TypeOK, MapOK, Bytes
<1> DEFINE T == {x \in p + 1 .. b : ~Executed(x)}
<1>3. SUFFICES ASSUME T # {} PROVE FALSE
  <2>1. b \in p + 1 .. b
    BY <1>1, <1>2
  <2>2. QED
    BY <1>3, <2>1
<1>4. T \subseteq Int /\ p \in Int /\ \A x \in T : p <= x
  BY <1>2
<1>5. PICK x \in T : \A y \in T : x <= y
  <2> HIDE DEF T
  <2>1. QED
    BY <1>3, <1>4, LeastInteger
<1>6. x \in p + 1 .. b /\ x \in Int /\ ~Executed(x) /\ x \in Bytes \ start
  BY <1>1, <1>2, <1>5 DEF IsStart, Bytes
<1>7. x - 1 \in Bytes /\ Executed(x - 1)
  <2>1. x - 1 \in Bytes
    BY <1>2, <1>6 DEF Bytes
  <2>2. x - 1 = p \/ x - 1 \in p + 1 .. b
    BY <1>2, <1>6
  <2>3. ~(x <= x - 1)
    BY <1>6
  <2>4. QED
    BY <1>1, <1>5, <2>1, <2>2, <2>3
<1>8. QED
  BY <1>6, <1>7 DEF WholeExec, Executed

\* ... and a range starts with an instruction.
LEMMA RangeStartsInstruction ==
  ASSUME ScanInv, 0 \in start, pc = "scan", a \in 0 .. endAddress, ~Executed(a),
         WholeInstructions, WholeExec
  PROVE  a \in start
<1> USE SizeAssumption DEF endAddress
<1>1. /\ TypeOK /\ Classified /\ Behind /\ mapSize = SizeInBytes
  BY DEF ScanInv, WholeInstructions
<1>2. SUFFICES ASSUME a \notin start PROVE FALSE
  OBVIOUS
<1>3. a \in Bytes \ start /\ a - 1 \in Bytes /\ a \in Nat /\ a # 0
  BY <1>1, <1>2 DEF Bytes
<1>4. ~Executed(a - 1)
  BY <1>3 DEF WholeExec, Executed
<1>5. ~BranchTail(a - 1)
  BY <1>1, <1>3, <1>4, TailExecuted
<1>6. InSomeRange(a - 1)
  BY <1>1, <1>3, <1>4, <1>5 DEF Classified
<1>7. PICK i \in 1 .. Len(ranges) : a - 1 <= ranges[i].high
  BY <1>6 DEF InSomeRange, InRange
<1>8. ranges[i].high \in Int
  <2>1. ranges[i] \in RangeRecord
    BY <1>1 DEF TypeOK
  <2>2. QED
    BY <2>1 DEF RangeRecord
<1>9. QED
  BY <1>1, <1>3, <1>7, <1>8 DEF Behind

\* The stretch of one range, added to what lies below it.
LEMMA RangeStretch ==
  ASSUME ScanInv, pc = "scan", a \in 0 .. endAddress, ~Executed(a),
         NEW ha \in a + 1 .. SizeInBytes, NextExecuted(a, ha)
  PROVE  /\ Cardinality(HeldBelow(ha)) = Cardinality(HeldBelow(a)) + (ha - a)
         /\ a \in start => Cardinality(StartsBelow(ha))
                             = Cardinality(StartsBelow(a)) + RangeOf(a, ha).count
<1> USE SizeAssumption DEF endAddress
<1>1. TypeOK /\ ~BranchTail(a) /\ a \in Int /\ ha \in Int
  BY DEF ScanInv, NotInTail
<1>2. \A b \in a .. ha : ~BranchTail(b)
  BY <1>1, StretchHasNoTail
<1>3. \A b \in a .. ha - 1 : ~Executed(b)
  BY DEF NextExecuted
<1>4. IsFiniteSet(HeldBelow(a)) /\ IsFiniteSet(StartsBelow(a))
  BY <1>1, StretchesFinite
<1>5. HeldBelow(ha) = HeldBelow(a) \cup (a .. ha - 1)
  BY <1>1, <1>2, <1>3 DEF HeldBelow
<1>6. HeldBelow(a) \cap (a .. ha - 1) = {}
  BY <1>1 DEF HeldBelow
<1>7. IsFiniteSet(a .. ha - 1) /\ Cardinality(a .. ha - 1) = ha - a
  <2>1. ha - 1 \in Int /\ ~(a > ha - 1)
    BY <1>1
  <2>2. /\ IsFiniteSet(a .. ha - 1)
        /\ Cardinality(a .. ha - 1) = IF a > ha - 1 THEN 0 ELSE (ha - 1) - a + 1
    BY <1>1, <2>1, FS_Interval
  <2>3. QED
    BY <1>1, <2>1, <2>2
<1>8. Cardinality(HeldBelow(ha)) = Cardinality(HeldBelow(a)) + (ha - a)
  <2>1. Cardinality(HeldBelow(a) \cup (a .. ha - 1)) =
          Cardinality(HeldBelow(a)) + Cardinality(a .. ha - 1)
            - Cardinality(HeldBelow(a) \cap (a .. ha - 1))
    BY <1>4, <1>7, FS_Union
  <2>2. Cardinality(HeldBelow(a) \cap (a .. ha - 1)) = 0
    BY <1>6, FS_EmptySet
  <2>3. Cardinality(HeldBelow(a)) \in Nat
    BY <1>4, FS_CardinalityType
  <2>4. QED
    BY <1>1, <1>5, <1>7, <2>1, <2>2, <2>3
<1>9. ASSUME a \in start
      PROVE  Cardinality(StartsBelow(ha)) = Cardinality(StartsBelow(a)) + RangeOf(a, ha).count
  <2> DEFINE inner == {b \in a + 1 .. ha - 1 : IsStart(b)}
             below == StartsBelow(a) \cup {a}
  <2>1. \A b \in start : b \in Int
    BY <1>1 DEF TypeOK, MapOK, Bytes
  <2>2. StartsBelow(ha) = below \cup inner
    <3>1. ASSUME NEW b \in start
          PROVE  b < ha /\ ~Executed(b) <=>
                   (b < a /\ ~Executed(b)) \/ b = a \/ b \in a + 1 .. ha - 1
      BY <1>1, <1>3, <2>1
    <3>2. QED
      BY <1>9, <3>1 DEF StartsBelow, IsStart
  <2>3. below \cap inner = {}
    BY <1>1, <2>1 DEF StartsBelow
  <2>4. a \notin StartsBelow(a)
    BY <1>1 DEF StartsBelow
  <2>5. inner \subseteq a .. ha - 1
    BY <1>1
  <2>6. RangeOf(a, ha).count = 1 + Cardinality(inner)
    BY DEF RangeOf
  <2> HIDE DEF inner
  <2>7. IsFiniteSet(inner) /\ Cardinality(inner) \in Nat
    BY <1>7, <2>5, FS_Subset, FS_CardinalityType
  <2>8. /\ IsFiniteSet(below) /\ Cardinality(below) = Cardinality(StartsBelow(a)) + 1
        /\ Cardinality(StartsBelow(a)) \in Nat
    BY <1>4, <2>4, FS_AddElement, FS_CardinalityType
  <2> HIDE DEF below
  <2>9. Cardinality(below \cup inner) =
          Cardinality(below) + Cardinality(inner) - Cardinality(below \cap inner)
    BY <2>7, <2>8, FS_Union
  <2>10. Cardinality(below \cap inner) = 0
    BY <2>3, FS_EmptySet
  <2>11. QED
    BY <2>2, <2>6, <2>7, <2>8, <2>9, <2>10
<1>10. QED
  BY <1>8, <1>9

\* What one more range adds to the sums over the ranges.
LEMMA RangeAppended ==
  ASSUME TypeOK, NEW r \in RangeRecord, r.low <= r.high, ranges' = Append(ranges, r),
         \A i \in 1 .. Len(ranges) : ranges[i].low <= ranges[i].high
  PROVE  /\ RangeBytes' = RangeBytes + (r.high - r.low + 1)
         /\ RangeInstructions' = RangeInstructions + r.count
         /\ Len(ranges') = Len(ranges) + 1
<1> DEFINE n  == Len(ranges)
           of(x) == x.high - x.low + 1
<1>1. /\ ranges \in Seq(RangeRecord) /\ n \in Nat /\ DOMAIN ranges = 1 .. n
      /\ \A i \in 1 .. n : ranges[i] \in RangeRecord
  BY DEF TypeOK
<1>2. /\ ranges' \in Seq(RangeRecord) /\ Len(ranges') = n + 1 /\ DOMAIN ranges' = 1 .. n + 1
      /\ \A i \in 1 .. n : ranges'[i] = ranges[i]
      /\ ranges'[n + 1] = r
  BY <1>1
<1>3. \A i \in 1 .. n + 1 : ranges'[i] \in RangeRecord /\ ranges'[i].low <= ranges'[i].high
  <2> SUFFICES ASSUME NEW i \in 1 .. n + 1
               PROVE  ranges'[i] \in RangeRecord /\ ranges'[i].low <= ranges'[i].high
    OBVIOUS
  <2>1. CASE i = n + 1
    BY <1>2, <2>1
  <2>2. CASE i \in 1 .. n
    BY <1>1, <1>2, <2>2
  <2>3. QED
    BY <1>1, <2>1, <2>2
<1>4. \A x \in RangeRecord : x.count \in Nat /\ (x.low <= x.high => of(x) \in Nat)
  BY DEF RangeRecord
<1>5. \A i \in 1 .. n : ranges[i].count \in Nat /\ of(ranges[i]) \in Nat
  BY <1>1, <1>4
<1>6. \A i \in 1 .. n + 1 : ranges'[i].count \in Nat /\ of(ranges'[i]) \in Nat
  BY <1>3, <1>4
<1>7. RangeBytes' = RangeBytes + of(r)
  <2> DEFINE f == [i \in 1 .. n + 1 |-> of(ranges'[i])]
             g == [i \in 1 .. n |-> of(ranges[i])]
  <2>1. f \in [1 .. n + 1 -> Nat] /\ g \in [1 .. n -> Nat]
    BY <1>5, <1>6
  <2>2. \A i \in 1 .. n : f[i] = g[i]
    BY <1>1, <1>2
  <2>3. f[n + 1] = of(r)
    BY <1>1, <1>2
  <2>4. RangeBytes' = SumFunction(f) /\ RangeBytes = SumFunction(g)
    BY <1>1, <1>2 DEF RangeBytes
  <2> HIDE DEF f, g, n, of
  <2>5. SumFunction(f) = SumFunction(g) + f[n + 1]
    BY ONLY <1>1, <2>1, <2>2, SumOneMore
  <2>6. QED
    BY <2>3, <2>4, <2>5
<1>8. RangeInstructions' = RangeInstructions + r.count
  <2> DEFINE f == [i \in 1 .. n + 1 |-> ranges'[i].count]
             g == [i \in 1 .. n |-> ranges[i].count]
  <2>1. f \in [1 .. n + 1 -> Nat] /\ g \in [1 .. n -> Nat]
    BY <1>5, <1>6
  <2>2. \A i \in 1 .. n : f[i] = g[i]
    BY <1>1, <1>2
  <2>3. f[n + 1] = r.count
    BY <1>1, <1>2
  <2>4. RangeInstructions' = SumFunction(f) /\ RangeInstructions = SumFunction(g)
    BY <1>1, <1>2 DEF RangeInstructions
  <2> HIDE DEF f, g, n
  <2>5. SumFunction(f) = SumFunction(g) + f[n + 1]
    BY ONLY <1>1, <2>1, <2>2, SumOneMore
  <2>6. QED
    BY <2>3, <2>4, <2>5
<1>9. QED
  BY <1>2, <1>7, <1>8

\* A new range is in the totals,
LEMMA ScanRangeAgrees ==
  ASSUME AgreeInv, ScanRange
  PROVE  Totals(a)' /\ CountedTo(0)'
<1> USE SizeAssumption DEF endAddress
<1>1. PICK ha \in a + 1 .. SizeInBytes :
        NextExecuted(a, ha) /\ ranges' = Append(ranges, RangeOf(a, ha)) /\ a' = ha
  BY DEF ScanRange
<1>2. /\ TypeOK /\ ScanInv /\ Behind /\ pc = "scan" /\ a \in 0 .. endAddress
      /\ ~Executed(a) /\ Totals(a) /\ CountedTo(0) /\ UNCHANGED << input, exec >>
      /\ stats' = Bump({"uncoveredRanges"}) /\ 0 \in start
      /\ (WholeInstructions => WholeExec)
  BY DEF ScanRange, AgreeInv, ScanInv, TypeOK
<1>3. /\ stats'["uncoveredRanges"] = stats["uncoveredRanges"] + 1
      /\ stats'["uncoveredBytes"] = stats["uncoveredBytes"]
      /\ stats'["uncoveredInstructions"] = stats["uncoveredInstructions"]
  BY <1>2, BumpFacts DEF Counter
<1>4. CountedTo(0)'
  BY <1>2, <1>3, CountedKept
<1>5. RangeOf(a, ha) \in RangeRecord
  BY <1>1, <1>2, RangeOfType
<1>6. RangeOf(a, ha).low = a /\ RangeOf(a, ha).high = ha - 1
  BY DEF RangeOf
<1>7. a \in Int /\ ha \in Int /\ a <= ha - 1
  BY <1>1, <1>2
<1>8. \A i \in 1 .. Len(ranges) : ranges[i].low <= ranges[i].high
  BY <1>2 DEF Behind
<1>9. RangeOf(a, ha).low <= RangeOf(a, ha).high
  BY <1>6, <1>7
<1>10. /\ RangeBytes' = RangeBytes + (RangeOf(a, ha).high - RangeOf(a, ha).low + 1)
       /\ RangeInstructions' = RangeInstructions + RangeOf(a, ha).count
       /\ Len(ranges') = Len(ranges) + 1
  BY <1>1, <1>2, <1>5, <1>8, <1>9, RangeAppended
<1>11. /\ Cardinality(HeldBelow(ha)) = Cardinality(HeldBelow(a)) + (ha - a)
       /\ a \in start => Cardinality(StartsBelow(ha))
                             = Cardinality(StartsBelow(a)) + RangeOf(a, ha).count
  BY <1>1, <1>2, RangeStretch
<1>12. WholeInstructions => a \in start
  BY <1>2, RangeStartsInstruction
<1>13. /\ stats["uncoveredRanges"] = Len(ranges)
       /\ RangeBytes = Cardinality(HeldBelow(a))
       /\ WholeInstructions => RangeInstructions = Cardinality(StartsBelow(a))
  BY <1>2 DEF Totals
<1>14. RangeBytes' = Cardinality(HeldBelow(ha))
  <2>1. RangeOf(a, ha).high - RangeOf(a, ha).low + 1 = ha - a
    BY <1>6, <1>7
  <2>2. QED
    BY <1>10, <1>11, <1>13, <2>1
<1>15. WholeInstructions => RangeInstructions' = Cardinality(StartsBelow(ha))
  BY <1>10, <1>11, <1>12, <1>13
<1>16. stats'["uncoveredRanges"] = Len(ranges')
  BY <1>3, <1>10, <1>13
<1>17. /\ HeldBelow(ha)' = HeldBelow(ha) /\ StartsBelow(ha)' = StartsBelow(ha)
       /\ WholeInstructions' <=> WholeInstructions
  BY <1>2, StretchesKept
<1>18. Totals(ha)'
  BY <1>14, <1>15, <1>16, <1>17 DEF Totals
<1>19. QED
  BY <1>1, <1>4, <1>18 DEF Totals

\* ... executed code does not count,
LEMMA ScanExecutedAgrees ==
  ASSUME AgreeInv, ScanBranch \/ ScanOther
  PROVE  Totals(a)' /\ CountedTo(0)'
<1> USE SizeAssumption DEF endAddress
<1>1. /\ TypeOK /\ Totals(a) /\ CountedTo(0) /\ UNCHANGED << input, exec, ranges >>
      /\ a \in 0 .. endAddress /\ a \in Int /\ Executed(a)
  BY DEF ScanBranch, ScanOther, AgreeInv, ScanInv, TypeOK
<1>2. /\ stats'["uncoveredRanges"] = stats["uncoveredRanges"]
      /\ stats'["uncoveredBytes"] = stats["uncoveredBytes"]
      /\ stats'["uncoveredInstructions"] = stats["uncoveredInstructions"]
  <2>1. CASE ScanOther
    BY <2>1 DEF ScanOther
  <2>2. CASE ScanBranch
    <3>1. stats' = Bump({Verdict(a)})
      BY <2>2 DEF ScanBranch
    <3>2. Verdict(a) \in {"branchesAlwaysTaken", "branchesNeverTaken", "covered"}
      BY VerdictType
    <3>3. QED
      BY <1>1, <3>1, <3>2, BumpFacts DEF Counter
  <2>3. QED
    BY <2>1, <2>2
<1>3. CountedTo(0)'
  BY <1>1, <1>2, CountedKept
<1>4. HeldBelow(a') = HeldBelow(a) /\ StartsBelow(a') = StartsBelow(a)
  <2>1. \A b \in start : b \in Int
    BY <1>1 DEF TypeOK, MapOK, Bytes
  <2>2. CASE ScanOther
    <3>1. a' = a + 1
      BY <2>2 DEF ScanOther
    <3>2. 0 .. a + 1 - 1 = (0 .. a - 1) \cup {a}
      BY <1>1
    <3>3. \A b \in start : b < a + 1 <=> b < a \/ b = a
      BY <1>1, <2>1
    <3>4. QED
      BY <1>1, <3>1, <3>2, <3>3 DEF HeldBelow, StartsBelow
  <2>3. CASE ScanBranch
    <3>1. PICK ha \in a + 1 .. SizeInBytes : NextStart(a, ha) /\ a' = ha
      BY <2>3 DEF ScanBranch
    <3>2. a \in branch
      BY <2>3 DEF ScanBranch
    <3>3. \A b \in a + 1 .. ha - 1 : BranchTail(b) /\ b \notin start
      BY <1>1, <3>1, <3>2 DEF NextStart, BranchTail, IsStart
    <3>4. 0 .. ha - 1 = (0 .. a - 1) \cup {a} \cup (a + 1 .. ha - 1)
      BY <1>1, <3>1
    <3>5. HeldBelow(ha) = HeldBelow(a)
      BY <1>1, <3>3, <3>4 DEF HeldBelow
    <3>6. \A b \in start : b < ha <=> b < a \/ b = a
      BY <1>1, <2>1, <3>1, <3>3
    <3>7. StartsBelow(ha) = StartsBelow(a)
      BY <1>1, <3>6 DEF StartsBelow
    <3>8. QED
      BY <3>1, <3>5, <3>7
  <2>4. QED
    BY <2>2, <2>3
<1>5. PICK next : next = a'
  OBVIOUS
<1>6. Totals(next)
  BY <1>1, <1>4, <1>5 DEF Totals
<1>7. Totals(next)'
  BY <1>1, <1>2, <1>6, TotalsKept
<1>8. QED
  BY <1>3, <1>5, <1>7 DEF Totals

\* ... and counting goes byte by byte.
LEMMA CountByteAgrees ==
  ASSUME AgreeInv, CountByte
  PROVE  Totals(SizeInBytes)' /\ CountedTo(a)'
<1>1. /\ TypeOK /\ Totals(SizeInBytes) /\ CountedTo(a)
      /\ UNCHANGED << input, exec, ranges >> /\ a' = a + 1 /\ a \in Nat
      /\ stats' = Bump(CountersOf(a))
  BY DEF CountByte, AgreeInv, ScanInv, TypeOK
<1>2. stats'["uncoveredRanges"] = stats["uncoveredRanges"]
  <2>1. "uncoveredRanges" \notin CountersOf(a)
    BY DEF CountersOf
  <2>2. QED
    BY <1>1, <2>1, BumpFacts DEF Counter
<1>3. Totals(SizeInBytes)'
  BY <1>1, <1>2, TotalsKept
<1>4. /\ "uncoveredBytes" \in CountersOf(a) <=> ~Executed(a)
      /\ "uncoveredInstructions" \in CountersOf(a) <=> a \in start /\ ~Executed(a)
  BY DEF CountersOf, IsStart
<1>5. IsFiniteSet(UncoveredBelow(a)) /\ IsFiniteSet(StartsBelow(a))
  BY <1>1, StretchesFinite
<1>6. UncoveredBelow(a + 1) = IF Executed(a) THEN UncoveredBelow(a)
                              ELSE UncoveredBelow(a) \cup {a}
  <2>1. 0 .. a + 1 - 1 = (0 .. a - 1) \cup {a}
    BY <1>1
  <2>2. QED
    BY <2>1 DEF UncoveredBelow
<1>7. StartsBelow(a + 1) = IF a \in start /\ ~Executed(a) THEN StartsBelow(a) \cup {a}
                           ELSE StartsBelow(a)
  <2>1. \A b \in start : b \in Int
    BY <1>1 DEF TypeOK, MapOK, Bytes
  <2>2. \A b \in start : b < a + 1 <=> b < a \/ b = a
    BY <1>1, <2>1
  <2>3. QED
    BY <2>2 DEF StartsBelow
<1>8. a \notin UncoveredBelow(a) /\ a \notin StartsBelow(a)
  BY <1>1 DEF UncoveredBelow, StartsBelow
<1>9. stats'["uncoveredBytes"] = Cardinality(UncoveredBelow(a + 1))
  <2>1. "uncoveredBytes" \in Counter
    BY DEF Counter
  <2>2. CASE ~Executed(a)
    <3>1. stats'["uncoveredBytes"] = stats["uncoveredBytes"] + 1
      BY <1>1, <1>4, <2>1, <2>2, BumpFacts
    <3>2. QED
      BY <1>1, <1>5, <1>6, <1>8, <2>2, <3>1, FS_AddElement DEF CountedTo
  <2>3. CASE Executed(a)
    <3>1. stats'["uncoveredBytes"] = stats["uncoveredBytes"]
      BY <1>1, <1>4, <2>1, <2>3, BumpFacts
    <3>2. QED
      BY <1>1, <1>6, <2>3, <3>1 DEF CountedTo
  <2>4. QED
    BY <2>2, <2>3
<1>10. stats'["uncoveredInstructions"] = Cardinality(StartsBelow(a + 1))
  <2>1. "uncoveredInstructions" \in Counter
    BY DEF Counter
  <2>2. CASE a \in start /\ ~Executed(a)
    <3>1. stats'["uncoveredInstructions"] = stats["uncoveredInstructions"] + 1
      BY <1>1, <1>4, <2>1, <2>2, BumpFacts
    <3>2. QED
      BY <1>1, <1>5, <1>7, <1>8, <2>2, <3>1, FS_AddElement DEF CountedTo
  <2>3. CASE ~(a \in start /\ ~Executed(a))
    <3>1. stats'["uncoveredInstructions"] = stats["uncoveredInstructions"]
      BY <1>1, <1>4, <2>1, <2>3, BumpFacts
    <3>2. QED
      BY <1>1, <1>7, <2>3, <3>1 DEF CountedTo
  <2>4. QED
    BY <2>2, <2>3
<1>11. PICK next : next = a + 1
  OBVIOUS
<1>12. UncoveredBelow(next)' = UncoveredBelow(next) /\ StartsBelow(next)' = StartsBelow(next)
  BY <1>1, StretchesKept
<1>13. CountedTo(next)'
  BY <1>9, <1>10, <1>11, <1>12 DEF CountedTo
<1>14. QED
  BY <1>1, <1>3, <1>11, <1>13 DEF CountedTo

\* The totals are those of no ranges to begin with.
LEMMA InitAgreeInv == Init => AgreeInv
<1> SUFFICES ASSUME Init PROVE AgreeInv
  OBVIOUS
<1>1. ScanInv /\ pc = "nops" /\ stats = [c \in Counter |-> 0] /\ 0 \in start
  BY InitScanInv DEF Init
<1>2. WholeInstructions => WholeExec
  <2>1. exec = exec0 /\ exec0 \in [Bytes -> Nat] /\ start \subseteq Bytes
    BY <1>1 DEF Init, ScanInv, TypeOK, MapOK
  <2>2. QED
    BY <2>1 DEF WholeInstructions, WholeExec
<1>3. QED
  BY <1>1, <1>2 DEF AgreeInv

\* Every step keeps the agreement of the totals.
LEMMA NextAgreeInv == AgreeInv /\ [Next]_vars => AgreeInv'
<1> SUFFICES ASSUME AgreeInv, [Next]_vars PROVE AgreeInv'
  OBVIOUS
<1>1. ScanInv /\ ScanInv' /\ TypeOK /\ TypeOK' /\ 0 \in start
  BY NextScanInv DEF AgreeInv, ScanInv
<1>2. UNCHANGED input
  BY DEF Next, NopSkip, NopMark, NopsDone, ScanRange, ScanBranch, ScanOther, ScanDone,
         CountByte, CountDone, vars, input
<1>3. 0 \in start'
  BY <1>1, <1>2 DEF input
<1>4. WholeInstructions' => WholeExec'
  <2>1. CASE NopMark
    <3>1. WholeInstructions' <=> WholeInstructions
      BY <1>2 DEF WholeInstructions, input, Bytes
    <3>2. QED
      BY <1>1, <2>1, <3>1, NopMarkWhole DEF AgreeInv
  <2>2. CASE ~NopMark
    <3>1. UNCHANGED exec
      BY <2>2 DEF Next, NopSkip, NopsDone, ScanRange, ScanBranch, ScanOther, ScanDone,
                  CountByte, CountDone, vars
    <3>2. QED
      BY <1>2, <3>1, StretchesKept DEF AgreeInv
  <2>3. QED
    BY <2>1, <2>2
<1>5. CASE NopSkip \/ NopMark
  BY <1>1, <1>3, <1>4, <1>5 DEF NopSkip, NopMark, AgreeInv
<1>6. CASE NopsDone
  <2>1. /\ pc' = "scan" /\ a' = 0 /\ ranges' = << >>
        /\ stats' = [c \in Counter |-> 0]
    BY <1>1, <1>6 DEF NopsDone, AgreeInv, ScanInv
  <2>2. \A c \in Counter : stats'[c] = 0
    BY <2>1
  <2>3. UncoveredBelow(0)' = {} /\ HeldBelow(0)' = {} /\ StartsBelow(0)' = {}
    <3>1. ASSUME NEW b \in start' PROVE ~(b < 0)
      <4>1. start' \subseteq 0 .. mapSize - 1 /\ mapSize \in Nat
        BY <1>1, <1>2, SizeAssumption DEF TypeOK, MapOK, Bytes, input
      <4>2. QED
        BY <4>1
    <3>2. QED
      BY <3>1 DEF UncoveredBelow, HeldBelow, StartsBelow
  <2>4. RangeBytes' = 0 /\ RangeInstructions' = 0 /\ Len(ranges') = 0
    <3>1. DOMAIN ranges' = {}
      BY <2>1
    <3>2. \A f : DOMAIN f = {} => SumFunction(f) = 0
      BY SumEmpty DEF SumFunction
    <3>3. QED
      BY <2>1, <3>1, <3>2 DEF RangeBytes, RangeInstructions
  <2>5. Cardinality({}) = 0
    BY FS_EmptySet
  <2>6. Totals(0)'
    BY <2>2, <2>3, <2>4, <2>5 DEF Totals, Counter
  <2>7. CountedTo(0)'
    BY <2>2, <2>3, <2>5 DEF CountedTo, Counter
  <2>8. Totals(a)'
    BY <2>1, <2>6 DEF Totals
  <2>9. QED
    BY <1>1, <1>3, <1>4, <2>1, <2>7, <2>8 DEF AgreeInv
<1>7. CASE ScanRange \/ ScanBranch \/ ScanOther
  <2>1. pc' = "scan"
    BY <1>7 DEF ScanRange, ScanBranch, ScanOther
  <2>2. Totals(a)' /\ CountedTo(0)'
    BY <1>7, ScanRangeAgrees, ScanExecutedAgrees
  <2>3. QED
    BY <1>1, <1>3, <1>4, <2>1, <2>2 DEF AgreeInv
<1>8. CASE ScanDone
  <2>1. /\ UNCHANGED << input, exec, ranges, stats >> /\ pc = "scan" /\ pc' = "stats"
        /\ a' = 0 /\ a = SizeInBytes
    BY <1>1, <1>8, SizeAssumption DEF ScanDone, TypeOK, endAddress
  <2>2. Totals(SizeInBytes) /\ CountedTo(0)
    BY <2>1 DEF AgreeInv
  <2>3. Totals(SizeInBytes)' /\ CountedTo(0)'
    BY <2>1, <2>2, TotalsKept, CountedKept
  <2>4. CountedTo(a)'
    BY <2>1, <2>3 DEF CountedTo
  <2>5. QED
    BY <1>1, <1>3, <1>4, <2>1, <2>3, <2>4 DEF AgreeInv
<1>9. CASE CountByte
  <2>1. pc' = "stats"
    BY <1>9 DEF CountByte
  <2>2. Totals(SizeInBytes)' /\ CountedTo(a)'
    BY <1>9, CountByteAgrees
  <2>3. QED
    BY <1>1, <1>3, <1>4, <2>1, <2>2 DEF AgreeInv
<1>10. CASE CountDone \/ UNCHANGED vars
  <2>1. UNCHANGED << input, exec, ranges, stats, a >>
    BY <1>10 DEF CountDone, vars, input
  <2>2. \/ pc' = pc
        \/ pc = "stats" /\ pc' = "done" /\ a' = SizeInBytes
    BY <1>1, <1>10, SizeAssumption DEF CountDone, vars, TypeOK, endAddress
  <2>3. PICK here : here = a
    OBVIOUS
  <2>4. /\ Totals(here)' <=> Totals(here)
        /\ CountedTo(here)' <=> CountedTo(here)
        /\ CountedTo(0)' <=> CountedTo(0)
        /\ Totals(SizeInBytes)' <=> Totals(SizeInBytes)
    BY <2>1, TotalsKept, CountedKept
  <2>5. /\ Totals(a)' <=> Totals(a)
        /\ CountedTo(a)' <=> CountedTo(a)
    BY <2>1, <2>3, <2>4
  <2>6. QED
    BY <1>1, <1>3, <1>4, <2>1, <2>2, <2>4, <2>5 DEF AgreeInv
<1>11. QED
  BY <1>5, <1>6, <1>7, <1>8, <1>9, <1>10 DEF Next

\* The reports agree when the totals do.
LEMMA AgreeInvImplies == AgreeInv => ReportsAgree
<1> SUFFICES ASSUME AgreeInv, pc = "done" PROVE ReportsAgree
  BY DEF ReportsAgree
<1>1. /\ TypeOK /\ SizeInBytes \in Int /\ Totals(SizeInBytes) /\ CountedTo(SizeInBytes)
  BY SizeAssumption DEF AgreeInv, ScanInv
<1>2. HeldBelow(SizeInBytes) \subseteq UncoveredBelow(SizeInBytes)
  BY DEF HeldBelow, UncoveredBelow
<1>3. IsFiniteSet(UncoveredBelow(SizeInBytes))
  BY <1>1, StretchesFinite
<1>4. Cardinality(HeldBelow(SizeInBytes)) <= Cardinality(UncoveredBelow(SizeInBytes))
  BY <1>2, <1>3, FS_Subset
<1>5. ASSUME WholeInstructions
      PROVE  HeldBelow(SizeInBytes) = UncoveredBelow(SizeInBytes)
  <2>1. WholeExec /\ Bytes = 0 .. SizeInBytes - 1
    BY <1>5 DEF AgreeInv, WholeInstructions, Bytes
  <2>2. \A b \in 0 .. SizeInBytes - 1 : BranchTail(b) => Executed(b)
    BY <1>1, <1>5, <2>1, TailExecuted
  <2>3. QED
    BY <2>2 DEF HeldBelow, UncoveredBelow
<1>6. QED
  BY <1>1, <1>4, <1>5 DEF ReportsAgree, Totals, CountedTo

(***************************************************************************)
(* The two passes add up to the same, for every symbol and every map: the  *)
(* ranges never hold more bytes than are counted as uncovered, and as many *)
(* bytes and instructions where instructions were executed whole.          *)
(***************************************************************************)
THEOREM ReportsAgreement == Spec => []ReportsAgree
BY InitAgreeInv, NextAgreeInv, AgreeInvImplies, PTL DEF Spec
-----------------------------------------------------------------------------
(***************************************************************************)
(* What the scan hands over.  Reports takes a symbol's ranges and branches *)
(* from the map in closed form: in order, each from where an unexecuted    *)
(* stretch begins to where it ends, each branch with its instruction.      *)
(* HandInv says this of the lists so far, with Runs and OneWay below the   *)
(* address the scan has reached.                                           *)
(***************************************************************************)
Runs(p) == {b \in 0 .. p - 1 : ~Executed(b) /\ (b = 0 \/ Executed(b - 1))}

\* L lists S by the low ends of its entries, in order.
InOrder(L, S) ==
  /\ Len(L) = Cardinality(S)
  /\ \A i \in 1 .. Len(L) : L[i].low \in S /\ Place(S, L[i].low) = i

RunEndsAt(b, h) ==
  /\ h \in b .. endAddress /\ \A x \in b .. h : ~Executed(x)
  /\ h = endAddress \/ Executed(h + 1)
WayEndsAt(b, h) ==
  /\ h \in b .. endAddress /\ \A x \in b + 1 .. h : ~IsStart(x)
  /\ h = endAddress \/ IsStart(h + 1)
RunAsFound(r) == /\ RunEndsAt(r.low, r.high)
                 /\ r.count = Cardinality(start \cap r.low .. r.high)
WayAsFound(r) == WayEndsAt(r.low, r.high) /\ r.reason = Verdict(r.low)

\* The lists rs and bs are those of the map below p.
Lists(rs, bs, p) ==
  /\ InOrder(rs, Runs(p)) /\ InOrder(bs, OneWay(p))
  /\ \A i \in 1 .. Len(rs) : RunAsFound(rs[i])
  /\ \A i \in 1 .. Len(bs) : WayAsFound(bs[i])
ListsTo(p) == Lists(ranges, branches, p)

HandInv ==
  /\ AgreeInv /\ BranchInv
  /\ mapSize = SizeInBytes => branch \subseteq start
  /\ WholeInstructions =>
       /\ pc = "scan" => ListsTo(a) /\ (a \in {0, SizeInBytes} \/ Executed(a) \/ Executed(a - 1))
       /\ pc \in {"stats", "done"} => ListsTo(SizeInBytes)

\* One more element behind all others is the last.
LEMMA AppendInOrder ==
  ASSUME NEW V, NEW L \in Seq(V), NEW S, IsFiniteSet(S), S \subseteq Nat, NEW p \in Nat,
         \A x \in S : x < p, NEW r \in V, r.low = p, InOrder(L, S)
  PROVE  InOrder(Append(L, r), S \cup {p})
<1> DEFINE T == S \cup {p}
           M == Append(L, r)
<1>1. Cardinality(T) = Cardinality(S) + 1 /\ Cardinality(S) \in Nat
  <2>1. p \notin S
    <3>1. ~(p < p)
      OBVIOUS
    <3>2. QED
      BY <3>1
  <2>2. QED
    BY <2>1, FS_AddElement, FS_CardinalityType
<1>2. Len(L) = Cardinality(S) /\ \A i \in 1 .. Len(L) : L[i].low \in S /\ Place(S, L[i].low) = i
  BY DEF InOrder
<1>3. Len(M) = Len(L) + 1 /\ Len(L) \in Nat /\ M[Len(L) + 1] = r /\ \A i \in 1 .. Len(L) : M[i] = L[i]
  OBVIOUS
<1>4. \A x \in S : UpTo(T, x) = UpTo(S, x)
  <2>1. ASSUME NEW x \in S PROVE UpTo(T, x) = UpTo(S, x)
    <3>1. x < p /\ x \in Nat
      OBVIOUS
    <3>2. ~(p <= x)
      BY <3>1
    <3>3. QED
      BY <3>2 DEF UpTo
  <2>2. QED
    BY <2>1
<1>5. \A x \in S : Place(T, x) = Place(S, x)
  BY <1>4 DEF Place
<1>6. UpTo(T, p) = T
  <2>1. \A x \in T : x <= p
    OBVIOUS
  <2>2. QED
    BY <2>1 DEF UpTo
<1>7. Place(T, p) = Len(L) + 1
  BY <1>1, <1>2, <1>6 DEF Place
<1> HIDE DEF M
<1>8. ASSUME NEW i \in 1 .. Len(M) PROVE M[i].low \in T /\ Place(T, M[i].low) = i
  <2>1. CASE i = Len(L) + 1
    BY <1>3, <1>7, <2>1
  <2>2. CASE i # Len(L) + 1
    <3>1. i \in 1 .. Len(L)
      BY <1>3, <2>2
    <3>2. QED
      BY <1>2, <1>3, <1>5, <3>1
  <2>3. QED
    BY <2>1, <2>2
<1>9. Len(M) = Cardinality(T)
  BY <1>1, <1>2, <1>3
<1> HIDE DEF T
<1>10. InOrder(M, T)
  BY <1>8, <1>9 DEF InOrder
<1>11. QED
  BY <1>10 DEF M, T

\* While the map stays, what it says of the lists stays.
LEMMA HandedKept ==
  ASSUME UNCHANGED << input, exec >>
  PROVE  /\ \A p : ListsTo(p)' <=> Lists(ranges', branches', p)
         /\ WholeInstructions' <=> WholeInstructions
<1>1. \A b : Executed(b)' <=> Executed(b)
  BY PredicatesKept
<1>2. \A b : IsStart(b)' <=> IsStart(b)
  BY DEF input, IsStart
<1>3. start' = start /\ \A b : Verdict(b)' = Verdict(b)
  BY DEF input, Verdict, AlwaysTaken, NeverTaken
<1>4. \A p : Runs(p)' = Runs(p)
  BY <1>1 DEF Runs
<1>5. \A p : OneWay(p)' = OneWay(p)
  BY <1>1, <1>3 DEF OneWay, input
<1>6. \A i : RunAsFound(ranges[i])' <=> RunAsFound(ranges'[i])
  BY <1>1, <1>3 DEF RunAsFound, RunEndsAt
<1>7. \A i : WayAsFound(branches[i])' <=> WayAsFound(branches'[i])
  BY <1>2, <1>3 DEF WayAsFound, WayEndsAt
<1>8. WholeInstructions' <=> WholeInstructions
  BY DEF input, WholeInstructions, Bytes
<1>9. \A p : ListsTo(p)' <=> Lists(ranges', branches', p)
  BY <1>4, <1>5, <1>6, <1>7 DEF ListsTo, Lists, InOrder
<1>10. QED
  BY <1>8, <1>9

\* What is below an address is finite, and before it.
LEMMA RunsBelow ==
  ASSUME NEW p \in Nat
  PROVE  IsFiniteSet(Runs(p)) /\ Runs(p) \subseteq Nat /\ \A x \in Runs(p) : x < p
<1>1. Runs(p) \subseteq 0 .. p - 1
  BY DEF Runs
<1>2. IsFiniteSet(0 .. p - 1)
  <2>1. 0 \in Int /\ p - 1 \in Int
    OBVIOUS
  <2>2. QED
    BY <2>1, FS_Interval
<1>3. QED
  BY <1>1, <1>2, FS_Subset

\* An unexecuted stretch from a on is one range more, and no branch.
LEMMA RunStretch ==
  ASSUME a \in 0 .. endAddress, ~Executed(a), a = 0 \/ Executed(a - 1), branch \subseteq Int,
         NEW ha \in a + 1 .. SizeInBytes, NextExecuted(a, ha)
  PROVE  /\ Runs(ha) = Runs(a) \cup {a} /\ OneWay(ha) = OneWay(a)
         /\ RunEndsAt(a, ha - 1)
<1> USE SizeAssumption DEF endAddress
<1>1. a \in Int /\ ha \in Int /\ a < ha /\ ha <= SizeInBytes /\ 0 <= a
  OBVIOUS
<1>2. \A x \in a .. ha - 1 : ~Executed(x)
  <2>1. \A x \in a .. ha - 1 : x = a \/ x \in a + 1 .. ha - 1
    BY <1>1
  <2>2. QED
    BY <2>1 DEF NextExecuted
<1>3. Runs(ha) = Runs(a) \cup {a}
  <2>1. ASSUME NEW b \in Runs(ha) PROVE b \in Runs(a) \cup {a}
    <3>1. b \in 0 .. ha - 1 /\ ~Executed(b) /\ (b = 0 \/ Executed(b - 1))
      BY DEF Runs
    <3>2. CASE b < a
      <4>1. b \in 0 .. a - 1
        BY <1>1, <3>1, <3>2
      <4>2. QED
        BY <3>1, <4>1 DEF Runs
    <3>3. CASE a < b
      <4>1. b - 1 \in a .. ha - 1 /\ b # 0
        BY <1>1, <3>1, <3>3
      <4>2. QED
        BY <1>2, <3>1, <4>1
    <3>4. QED
      BY <1>1, <3>1, <3>2, <3>3
  <2>2. ASSUME NEW b \in Runs(a) PROVE b \in Runs(ha)
    <3>1. b \in 0 .. a - 1 /\ ~Executed(b) /\ (b = 0 \/ Executed(b - 1))
      BY DEF Runs
    <3>2. b \in 0 .. ha - 1
      BY <1>1, <3>1
    <3>3. QED
      BY <3>1, <3>2 DEF Runs
  <2>3. a \in Runs(ha)
    <3>1. a \in 0 .. ha - 1
      BY <1>1
    <3>2. QED
      BY <3>1 DEF Runs
  <2>4. QED
    BY <2>1, <2>2, <2>3
<1>4. OneWay(ha) = OneWay(a)
  <2>1. ASSUME NEW b \in branch, Executed(b) PROVE b < ha <=> b < a
    <3>1. b \in Int
      OBVIOUS
    <3>2. ~(b \in a .. ha - 1)
      BY <1>2, <2>1
    <3>3. QED
      BY <1>1, <3>1, <3>2
  <2>2. QED
    BY <2>1 DEF OneWay
<1>5. RunEndsAt(a, ha - 1)
  <2>1. ha - 1 \in a .. SizeInBytes - 1 /\ (ha - 1) + 1 = ha
    BY <1>1
  <2>2. ha - 1 = SizeInBytes - 1 \/ Executed((ha - 1) + 1)
    BY <1>1, <2>1 DEF NextExecuted
  <2>3. QED
    BY <1>2, <2>1, <2>2 DEF RunEndsAt
<1>6. QED
  BY <1>3, <1>4, <1>5

\* It counts all its instructions, the first included.
LEMMA RunCounted ==
  ASSUME a \in start, a \in Int, NEW h \in Int, a <= h
  PROVE  1 + Cardinality({b \in a + 1 .. h : IsStart(b)}) = Cardinality(start \cap a .. h)
<1> DEFINE S == {b \in a + 1 .. h : IsStart(b)}
<1>1. start \cap a .. h = S \cup {a}
  <2>1. \A b \in a .. h : b = a \/ b \in a + 1 .. h
    OBVIOUS
  <2>2. \A b \in a + 1 .. h : b \in a .. h
    OBVIOUS
  <2>3. a \in a .. h
    OBVIOUS
  <2>4. QED
    BY <2>1, <2>2, <2>3 DEF IsStart
<1>2. a \notin S
  OBVIOUS
<1>3. IsFiniteSet(S)
  <2>1. a + 1 \in Int
    OBVIOUS
  <2>2. IsFiniteSet(a + 1 .. h)
    BY <2>1, FS_Interval
  <2>3. S \subseteq a + 1 .. h
    OBVIOUS
  <2> HIDE DEF S
  <2>4. QED
    BY <2>2, <2>3, FS_Subset
<1> HIDE DEF S
<1>4. Cardinality(S \cup {a}) = Cardinality(S) + 1 /\ Cardinality(S) \in Nat
  BY <1>2, <1>3, FS_AddElement, FS_CardinalityType
<1>5. Cardinality(start \cap a .. h) = Cardinality(S \cup {a})
  BY <1>1
<1>6. 1 + Cardinality(S) = Cardinality(start \cap a .. h)
  BY <1>4, <1>5
<1>7. QED
  BY <1>6 DEF S

\* A range found keeps the lists as Reports has them,
LEMMA ScanRangeHands ==
  ASSUME HandInv, WholeInstructions, ScanRange
  PROVE  ListsTo(a)' /\ (a' = SizeInBytes \/ Executed(a)')
<1> USE SizeAssumption DEF endAddress
<1>1. PICK ha \in a + 1 .. SizeInBytes :
        NextExecuted(a, ha) /\ ranges' = Append(ranges, RangeOf(a, ha)) /\ a' = ha
  BY DEF ScanRange
<1>2. /\ TypeOK /\ ScanInv /\ WholeExec /\ pc = "scan" /\ a \in 0 .. endAddress /\ 0 \in start
      /\ ~Executed(a) /\ branches' = branches /\ UNCHANGED << input, exec >>
  BY DEF ScanRange, HandInv, AgreeInv, ScanInv, TypeOK
<1>3. ListsTo(a) /\ (a = 0 \/ Executed(a - 1))
  BY <1>2 DEF HandInv
<1>4. branch \subseteq Int /\ ranges \in Seq(RangeRecord) /\ ranges' \in Seq(RangeRecord)
  <2>1. RangeOf(a, ha) \in RangeRecord
    BY <1>1, <1>2, RangeOfType
  <2>2. branch \subseteq Bytes /\ mapSize \in Int /\ ranges \in Seq(RangeRecord)
    BY <1>2 DEF TypeOK, MapOK
  <2>3. QED
    BY <1>1, <2>1, <2>2 DEF Bytes
<1>5. Runs(ha) = Runs(a) \cup {a} /\ OneWay(ha) = OneWay(a) /\ RunEndsAt(a, ha - 1)
  BY <1>1, <1>2, <1>3, <1>4, RunStretch
<1>6. a \in start
  BY <1>2, RangeStartsInstruction
<1> DEFINE r == RangeOf(a, ha)
<1>7. r.low = a /\ r.high = ha - 1 /\ r.count = 1 + Cardinality({b \in a + 1 .. ha - 1 : IsStart(b)})
  BY DEF RangeOf
<1>8. r \in RangeRecord
  BY <1>1, <1>2, RangeOfType
<1> HIDE DEF r
<1>9. RunAsFound(r)
  <2>1. ha - 1 \in Int /\ a \in Int /\ a <= ha - 1
    BY <1>1, <1>2
  <2>2. r.count = Cardinality(start \cap a .. ha - 1)
    BY <1>6, <1>7, <2>1, RunCounted
  <2>3. QED
    BY <1>5, <1>7, <2>2 DEF RunAsFound
<1>10. InOrder(ranges', Runs(ha))
  <2>1. a \in Nat
    BY <1>2
  <2>2. IsFiniteSet(Runs(a)) /\ Runs(a) \subseteq Nat /\ \A x \in Runs(a) : x < a
    BY <2>1, RunsBelow
  <2>3. InOrder(ranges, Runs(a))
    BY <1>3 DEF ListsTo, Lists
  <2>4. InOrder(Append(ranges, r), Runs(a) \cup {a})
    BY <1>4, <1>7, <1>8, <2>1, <2>2, <2>3, AppendInOrder
  <2>5. QED
    BY <1>1, <1>5, <2>4 DEF r
<1>11. \A i \in 1 .. Len(ranges') : RunAsFound(ranges'[i])
  <2>1. /\ Len(ranges) \in Nat /\ Len(ranges') = Len(ranges) + 1
        /\ ranges'[Len(ranges) + 1] = r
        /\ \A i \in 1 .. Len(ranges) : ranges'[i] = ranges[i]
    BY <1>1, <1>4, <1>8 DEF r
  <2>2. \A i \in 1 .. Len(ranges) : RunAsFound(ranges[i])
    BY <1>3 DEF ListsTo, Lists
  <2>3. \A i \in 1 .. Len(ranges) + 1 : i = Len(ranges) + 1 \/ i \in 1 .. Len(ranges)
    BY <2>1
  <2>4. QED
    BY <1>9, <2>1, <2>2, <2>3
<1>12. InOrder(branches, OneWay(ha)) /\ \A i \in 1 .. Len(branches) : WayAsFound(branches[i])
  BY <1>3, <1>5 DEF ListsTo, Lists
<1>13. Lists(ranges', branches', ha)
  BY <1>2, <1>10, <1>11, <1>12 DEF Lists
<1>14. ListsTo(ha)'
  BY <1>2, <1>13, HandedKept
<1>15. ListsTo(a)'
  BY <1>1, <1>14 DEF ListsTo
<1>16. a' = SizeInBytes \/ Executed(a)'
  <2>1. \A b : Executed(b)' <=> Executed(b)
    BY <1>2, PredicatesKept
  <2>2. ha = SizeInBytes \/ Executed(ha)
    BY <1>1 DEF NextExecuted
  <2>3. Executed(a)' <=> Executed(ha)
    BY <1>1, <2>1 DEF Executed
  <2>4. QED
    BY <1>1, <2>2, <2>3
<1>17. QED
  BY <1>15, <1>16

\* Below executed bytes no range begins.
LEMMA NoRunHere ==
  ASSUME a \in Nat, NEW ha \in Nat, a < ha, \A x \in a .. ha - 1 : Executed(x)
  PROVE  Runs(ha) = Runs(a)
<1>1. ASSUME NEW b \in Runs(ha) PROVE b \in Runs(a)
  <2>1. b \in 0 .. ha - 1 /\ ~Executed(b) /\ (b = 0 \/ Executed(b - 1))
    BY DEF Runs
  <2>2. ~(b \in a .. ha - 1)
    BY <2>1
  <2>3. b \in 0 .. a - 1
    BY <2>1, <2>2
  <2>4. QED
    BY <2>1, <2>3 DEF Runs
<1>2. ASSUME NEW b \in Runs(a) PROVE b \in Runs(ha)
  <2>1. b \in 0 .. a - 1 /\ ~Executed(b) /\ (b = 0 \/ Executed(b - 1))
    BY DEF Runs
  <2>2. b \in 0 .. ha - 1
    BY <2>1
  <2>3. QED
    BY <2>1, <2>2 DEF Runs
<1>3. QED
  BY <1>1, <1>2

\* In code executed as a whole all of an executed branch is executed.
LEMMA BranchWhole ==
  ASSUME TypeOK, WholeInstructions, WholeExec, a \in branch, Executed(a), a \in Nat,
         NEW ha \in a + 1 .. SizeInBytes, NextStart(a, ha)
  PROVE  \A x \in a .. ha - 1 : Executed(x)
<1> USE SizeAssumption DEF endAddress
<1>1. ASSUME NEW x \in a .. ha - 1, x # a PROVE Executed(x)
  <2>1. x \in a + 1 .. ha - 1 /\ a < x /\ \A y \in a + 1 .. x : y \in a + 1 .. ha - 1
    BY <1>1
  <2>2. \A y \in a + 1 .. x : ~IsStart(y)
    BY <2>1 DEF NextStart
  <2>3. BranchTail(x)
    BY <2>1, <2>2 DEF BranchTail
  <2>4. mapSize = SizeInBytes
    BY DEF WholeInstructions
  <2>5. x \in Bytes
    BY <2>1, <2>4 DEF Bytes
  <2>6. QED
    BY <2>3, <2>5, TailExecuted
<1>2. QED
  BY <1>1

\* A branch passed keeps the lists those of the map,
LEMMA ScanBranchHands ==
  ASSUME HandInv, WholeInstructions, ScanBranch
  PROVE  ListsTo(a)' /\ Executed(a - 1)'
<1> USE SizeAssumption DEF endAddress
<1> DEFINE r(h) == [low |-> a, high |-> h - 1, reason |-> Verdict(a)]
<1>1. PICK ha \in a + 1 .. SizeInBytes :
        /\ NextStart(a, ha)
        /\ branches' = IF Verdict(a) = "covered" THEN branches ELSE Append(branches, r(ha))
        /\ a' = ha
  BY DEF ScanBranch
<1>2. /\ TypeOK /\ ScanInv /\ WholeExec /\ pc = "scan" /\ a \in 0 .. endAddress
      /\ a \in branch /\ Executed(a) /\ ranges' = ranges /\ UNCHANGED << input, exec >>
  BY DEF ScanBranch, HandInv, AgreeInv, ScanInv, TypeOK
<1>3. ListsTo(a) /\ branch \subseteq start
  BY <1>2 DEF HandInv, WholeInstructions
<1>4. a \in Nat /\ ha \in Nat /\ a < ha /\ ha <= SizeInBytes /\ ha - 1 \in a .. ha - 1
  BY <1>1, <1>2
<1>5. \A x \in a .. ha - 1 : Executed(x)
  BY <1>1, <1>2, <1>4, BranchWhole
<1>6. Runs(ha) = Runs(a)
  BY <1>4, <1>5, NoRunHere
<1>7. OneWay(ha) = IF Verdict(a) = "covered" THEN OneWay(a) ELSE OneWay(a) \cup {a}
  BY <1>1, <1>2, <1>3, ScanBranchSets
<1>8. InOrder(ranges', Runs(ha)) /\ \A i \in 1 .. Len(ranges') : RunAsFound(ranges'[i])
  BY <1>2, <1>3, <1>6 DEF ListsTo, Lists
<1>9. /\ InOrder(branches, OneWay(a)) /\ \A i \in 1 .. Len(branches) : WayAsFound(branches[i])
      /\ branches \in Seq(BranchRecord)
  BY <1>2, <1>3 DEF ListsTo, Lists, TypeOK
<1>10. InOrder(branches', OneWay(ha)) /\ \A i \in 1 .. Len(branches') : WayAsFound(branches'[i])
  <2>1. CASE Verdict(a) = "covered"
    BY <1>1, <1>7, <1>9, <2>1
  <2>2. CASE Verdict(a) # "covered"
    <3> DEFINE e == r(ha)
    <3>1. e.low = a /\ e.high = ha - 1 /\ e.reason = Verdict(a)
      OBVIOUS
    <3>2. e \in BranchRecord
      <4>1. a \in 0 .. endAddress /\ ha - 1 \in 0 .. endAddress
        BY <1>2, <1>4
      <4>2. Verdict(a) \in {"branchesAlwaysTaken", "branchesNeverTaken"}
        BY <2>2, VerdictType
      <4>3. QED
        BY <4>1, <4>2 DEF BranchRecord
    <3>3. branches' = Append(branches, e)
      BY <1>1, <2>2
    <3> HIDE DEF e
    <3>4. WayAsFound(e)
      <4>1. ha - 1 \in a .. SizeInBytes - 1 /\ (ha - 1) + 1 = ha
        BY <1>4
      <4>2. WayEndsAt(a, ha - 1)
        BY <1>1, <4>1 DEF WayEndsAt, NextStart
      <4>3. QED
        BY <3>1, <4>2 DEF WayAsFound
    <3>5. IsFiniteSet(OneWay(a)) /\ OneWay(a) \subseteq Nat /\ \A x \in OneWay(a) : x < a
      <4>1. IsFiniteSet(OneWay(a))
        BY <1>2, BelowFinite
      <4>2. branch \subseteq Nat
        BY <1>2 DEF TypeOK, MapOK, Bytes
      <4>3. QED
        BY <4>1, <4>2 DEF OneWay
    <3>6. InOrder(Append(branches, e), OneWay(a) \cup {a})
      BY <1>4, <1>9, <3>1, <3>2, <3>5, AppendInOrder
    <3>7. /\ Len(branches) \in Nat /\ Len(branches') = Len(branches) + 1
          /\ branches'[Len(branches) + 1] = e
          /\ \A i \in 1 .. Len(branches) : branches'[i] = branches[i]
      BY <1>9, <3>2, <3>3
    <3>8. \A i \in 1 .. Len(branches) + 1 : i = Len(branches) + 1 \/ i \in 1 .. Len(branches)
      BY <3>7
    <3>9. \A i \in 1 .. Len(branches') : WayAsFound(branches'[i])
      BY <1>9, <3>4, <3>7, <3>8
    <3>10. QED
      BY <1>7, <2>2, <3>3, <3>6, <3>9
  <2>3. QED
    BY <2>1, <2>2
<1>11. Lists(ranges', branches', ha)
  BY <1>8, <1>10 DEF Lists
<1>12. ListsTo(ha)'
  BY <1>2, <1>11, HandedKept
<1>13. ListsTo(a)'
  BY <1>1, <1>12 DEF ListsTo
<1>14. Executed(ha - 1)'
  BY <1>2, <1>4, <1>5, PredicatesKept
<1>15. Executed(a - 1)'
  BY <1>1, <1>14 DEF Executed
<1>16. QED
  BY <1>13, <1>15

\* ... a byte passed does so too.
LEMMA ScanOtherHands ==
  ASSUME HandInv, WholeInstructions, ScanOther
  PROVE  ListsTo(a)' /\ Executed(a - 1)'
<1> USE SizeAssumption DEF endAddress
<1>1. /\ TypeOK /\ pc = "scan" /\ a \in 0 .. endAddress /\ a \notin branch /\ Executed(a) /\ a' = a + 1
      /\ ranges' = ranges /\ branches' = branches /\ UNCHANGED << input, exec >>
  BY DEF ScanOther, HandInv, AgreeInv, ScanInv, TypeOK
<1>2. ListsTo(a)
  BY <1>1 DEF HandInv
<1>3. a \in Nat /\ a + 1 \in Nat /\ a < a + 1 /\ \A x \in a .. (a + 1) - 1 : x = a
  BY <1>1
<1>4. Runs(a + 1) = Runs(a)
  BY <1>1, <1>3, NoRunHere
<1>5. OneWay(a + 1) = OneWay(a)
  <2>1. branch \subseteq Int
    BY <1>1 DEF TypeOK, MapOK, Bytes
  <2>2. \A b \in branch : b < a + 1 <=> b < a
    BY <1>1, <1>3, <2>1
  <2>3. QED
    BY <2>2 DEF OneWay
<1>6. Lists(ranges', branches', a + 1)
  BY <1>1, <1>2, <1>4, <1>5 DEF ListsTo, Lists
<1>7. Lists(ranges', branches', a')
  BY <1>1, <1>6
<1>8. ListsTo(a)'
  <2>1. PICK ha \in Nat : ha = a + 1
    BY <1>3
  <2>2. ListsTo(ha)'
    BY <1>1, <1>6, <2>1, HandedKept
  <2>3. QED
    BY <1>1, <2>1, <2>2 DEF ListsTo
<1>9. Executed(a - 1)'
  <2>1. PICK y \in Nat : y = a
    BY <1>3
  <2>2. Executed(y)'
    BY <1>1, <2>1, PredicatesKept
  <2>3. a' - 1 = y
    BY <1>1, <2>1
  <2>4. QED
    BY <2>2, <2>3 DEF Executed
<1>10. QED
  BY <1>8, <1>9

\* Nothing is handed over to begin with.
LEMMA InitHandInv == Init => HandInv
<1> SUFFICES ASSUME Init PROVE HandInv
  OBVIOUS
<1>1. AgreeInv /\ BranchInv
  BY InitAgreeInv, InitBranchInv
<1>2. pc = "nops" /\ (mapSize = SizeInBytes => branch \subseteq start)
  BY DEF Init
<1>3. QED
  BY <1>1, <1>2 DEF HandInv

\* The scan starts with empty lists,
LEMMA NopsDoneHands ==
  ASSUME HandInv, NopsDone
  PROVE  ListsTo(a)' /\ a' = 0
<1>1. TypeOK /\ ranges' = << >> /\ branches' = << >> /\ a' = 0 /\ UNCHANGED << input, exec >>
  BY DEF NopsDone, HandInv, AgreeInv, ScanInv, BranchInv
<1>2. Runs(0) = {}
  BY DEF Runs
<1>3. OneWay(0) = {}
  BY <1>1, NothingBelow
<1>4. InOrder(<< >>, {})
  BY FS_EmptySet DEF InOrder
<1>5. Lists(<< >>, << >>, 0)
  <2>1. 1 .. Len(<< >>) = {}
    OBVIOUS
  <2>2. \A i \in 1 .. Len(<< >>) : RunAsFound(<< >>[i]) /\ WayAsFound(<< >>[i])
    BY <2>1
  <2>3. QED
    BY <1>2, <1>3, <1>4, <2>2 DEF Lists
<1>6. ListsTo(0)'
  BY <1>1, <1>5, HandedKept
<1>7. QED
  BY <1>1, <1>6 DEF ListsTo

\* ... and every step keeps what is handed over.
LEMMA NextHandInv == HandInv /\ [Next]_vars => HandInv'
<1> SUFFICES ASSUME HandInv, [Next]_vars PROVE HandInv'
  OBVIOUS
<1> USE SizeAssumption
<1>1. AgreeInv' /\ BranchInv' /\ TypeOK /\ TypeOK'
  BY NextAgreeInv, NextBranchInv DEF HandInv, BranchInv
<1>2. UNCHANGED input
  BY DEF Next, NopSkip, NopMark, NopsDone, ScanRange, ScanBranch, ScanOther, ScanDone,
         CountByte, CountDone, vars, input
<1>3. /\ (mapSize = SizeInBytes => branch \subseteq start)'
      /\ WholeInstructions' <=> WholeInstructions
  BY <1>2 DEF HandInv, input, WholeInstructions, Bytes
<1>4. CASE NopSkip \/ NopMark
  <2>1. pc' = "nops"
    BY <1>4 DEF NopSkip, NopMark
  <2>2. QED
    BY <1>1, <1>3, <2>1 DEF HandInv
<1>5. CASE NopsDone
  <2>1. pc' = "scan" /\ ListsTo(a)' /\ a' = 0
    BY <1>5, NopsDoneHands DEF NopsDone
  <2>2. QED
    BY <1>1, <1>3, <2>1 DEF HandInv
<1>6. CASE ScanRange \/ ScanBranch \/ ScanOther
  <2>1. pc' = "scan"
    BY <1>6 DEF ScanRange, ScanBranch, ScanOther
  <2>2. SizeInBytes' = SizeInBytes
    OBVIOUS
  <2>3. WholeInstructions => /\ ListsTo(a)'
                             /\ a' \in {0, SizeInBytes} \/ Executed(a)' \/ Executed(a - 1)'
    BY <1>6, ScanRangeHands, ScanBranchHands, ScanOtherHands
  <2>4. QED
    BY <1>1, <1>3, <2>1, <2>3 DEF HandInv
<1>7. CASE ScanDone \/ CountByte \/ CountDone
  <2>1. UNCHANGED << input, exec, ranges, branches >> /\ pc' \in {"stats", "done"}
    BY <1>7 DEF ScanDone, CountByte, CountDone
  <2>2. WholeInstructions => ListsTo(SizeInBytes)
    <3>1. CASE ScanDone
      <4>1. pc = "scan" /\ a = SizeInBytes
        BY <1>1, <3>1 DEF ScanDone, TypeOK, endAddress
      <4>2. QED
        BY <4>1 DEF HandInv
    <3>2. CASE CountByte \/ CountDone
      BY <3>2 DEF CountByte, CountDone, HandInv
    <3>3. QED
      BY <1>7, <3>1, <3>2
  <2>3. WholeInstructions => ListsTo(SizeInBytes)'
    BY <2>1, <2>2, HandedKept DEF ListsTo
  <2>4. pc' # "scan"
    BY <2>1
  <2>5. QED
    BY <1>1, <1>3, <2>3, <2>4 DEF HandInv
<1>8. CASE UNCHANGED vars
  <2>1. UNCHANGED << input, exec, ranges, branches, pc, a >>
    BY <1>8 DEF vars, input
  <2>2. PICK here : here = a
    OBVIOUS
  <2>3. ListsTo(here)' <=> ListsTo(here)
    BY <2>1, HandedKept DEF ListsTo
  <2>4. ListsTo(a)' <=> ListsTo(a)
    BY <2>1, <2>2, <2>3 DEF ListsTo
  <2>5. ListsTo(SizeInBytes)' <=> ListsTo(SizeInBytes)
    BY <2>1, HandedKept DEF ListsTo
  <2>6. Executed(a)' <=> Executed(a)
    BY <2>1 DEF Executed, Bytes, input
  <2>7. Executed(a - 1)' <=> Executed(a - 1)
    BY <2>1 DEF Executed, Bytes, input
  <2>8. QED
    BY <1>1, <1>3, <2>1, <2>4, <2>5, <2>6, <2>7 DEF HandInv
<1>9. QED
  BY <1>4, <1>5, <1>6, <1>7, <1>8 DEF Next

-----------------------------------------------------------------------------
(***************************************************************************)
(* The map at hand as Reports has one: with the nop pass, and a branch     *)
(* with how often it went either way, of which only zero or not matters    *)
(* here.  R is Reports with this symbol as its only one.                   *)
(***************************************************************************)
Times(yes) == IF yes THEN 1 ELSE 0
MapOf ==
  [base |-> 0, size |-> SizeInBytes, start |-> start, exec |-> {b \in Bytes : Executed(b)},
   went |-> [b \in branch |-> [taken |-> Times(b \in taken), notTaken |-> Times(b \in notTaken)]]]

R == INSTANCE Reports WITH
       Inputs <- {}, FileOf <- << >>, in <- [symbols |-> << MapOf >>], phase <- pc, at <- a,
       expect <- pc, entry <- pc, explanations <- << >>, found <- {}, lastId <- 0, job <- 1,
       lastState <- pc, ranges <- << ranges >>, branches <- << branches >>,
       files <- << >>, explained <- << >>, missed <- FALSE

\* A range or branch without its number and lines, as the scan adds it.
RunAdded(r) == [low |-> r.low, high |-> r.high, count |-> r.count]
WayAdded(r) == [low |-> r.low, high |-> r.high,
                reason |-> IF r.reason = "alwaysTaken" THEN "branchesAlwaysTaken"
                                                       ELSE "branchesNeverTaken"]

MapHandedOver ==
  LET s == MapOf IN
    /\ 0 \in s.start /\ s.start \subseteq 0 .. s.size - 1 /\ s.exec \subseteq 0 .. s.size - 1
    /\ DOMAIN s.went \subseteq s.start /\ \A b \in DOMAIN s.went : s.went[b] \in R!CountType
    /\ \A b \in 1 .. s.size - 1 : b \in s.start \/ (b \in s.exec <=> b - 1 \in s.exec)

ScanHandsOver ==
  (pc \in {"stats", "done"} /\ WholeInstructions) =>
    LET run == R!Listed(MapOf, R!RunStarts(MapOf), 0)
        way == R!Listed(MapOf, R!OneWay(MapOf), 0)
    IN  /\ MapHandedOver
        /\ ranges = [j \in DOMAIN run |-> RunAdded(run[j])]
        /\ branches = [j \in DOMAIN way |-> WayAdded(way[j])]

\* The predicates of Reports over the map at hand are those of the scan.
LEMMA MapFacts ==
  ASSUME TypeOK, mapSize = SizeInBytes
  PROVE  /\ MapOf.size = SizeInBytes /\ MapOf.start = start /\ MapOf.base = 0
         /\ \A b : R!Executed(MapOf, b) <=> Executed(b)
         /\ \A b : R!Always(MapOf, b) <=> b \in branch /\ AlwaysTaken(b)
         /\ \A b : R!Never(MapOf, b) <=> b \in branch /\ NeverTaken(b)
         /\ R!RunStarts(MapOf) = Runs(SizeInBytes)
         /\ R!OneWay(MapOf) = OneWay(SizeInBytes)
<1> USE SizeAssumption
<1>1. /\ MapOf.size = SizeInBytes /\ MapOf.start = start /\ MapOf.base = 0
      /\ MapOf.exec = {b \in Bytes : Executed(b)}
      /\ MapOf.went = [b \in branch |-> [taken |-> Times(b \in taken),
                                         notTaken |-> Times(b \in notTaken)]]
  BY DEF MapOf
<1>2. \A b : b \in MapOf.exec <=> Executed(b)
  BY <1>1 DEF Executed
<1>3. \A b : R!Executed(MapOf, b) <=> Executed(b)
  BY <1>2 DEF R!Executed
<1>4. DOMAIN MapOf.went = branch
  BY <1>1
<1>5. ASSUME NEW b \in branch
      PROVE  /\ MapOf.went[b].taken > 0 <=> b \in taken
             /\ MapOf.went[b].taken = 0 <=> b \notin taken
             /\ MapOf.went[b].notTaken > 0 <=> b \in notTaken
             /\ MapOf.went[b].notTaken = 0 <=> b \notin notTaken
  <2>1. /\ MapOf.went[b].taken = Times(b \in taken)
        /\ MapOf.went[b].notTaken = Times(b \in notTaken)
    BY <1>1
  <2>2. /\ b \in taken => Times(b \in taken) = 1
        /\ b \notin taken => Times(b \in taken) = 0
        /\ b \in notTaken => Times(b \in notTaken) = 1
        /\ b \notin notTaken => Times(b \in notTaken) = 0
    BY DEF Times
  <2>3. 1 > 0 /\ 1 # 0 /\ ~(0 > 0)
    OBVIOUS
  <2>4. QED
    BY <2>1, <2>2, <2>3
<1>6. \A b : R!Always(MapOf, b) <=> b \in branch /\ AlwaysTaken(b)
  BY <1>4, <1>5 DEF R!Always, R!IsBranch, AlwaysTaken
<1>7. \A b : R!Never(MapOf, b) <=> b \in branch /\ NeverTaken(b)
  BY <1>4, <1>5 DEF R!Never, R!IsBranch, NeverTaken
<1>8. R!RunStarts(MapOf) = Runs(SizeInBytes)
  BY <1>1, <1>3 DEF R!RunStarts, Runs
<1>9. R!OneWay(MapOf) = OneWay(SizeInBytes)
  <2>1. \A b \in branch : b < SizeInBytes
    BY DEF TypeOK, MapOK, Bytes
  <2>2. \A b : Verdict(b) # "covered" <=> AlwaysTaken(b) \/ NeverTaken(b)
    BY DEF Verdict
  <2>3. QED
    BY <1>2, <1>6, <1>7, <2>1, <2>2 DEF R!OneWay, OneWay
<1>10. QED
  BY <1>1, <1>3, <1>6, <1>7, <1>8, <1>9

\* R counts like this module.
LEMMA SameCardinality == \A S : R!Cardinality(S) = Cardinality(S)
BY DEF R!Cardinality, Cardinality

\* A list in order is the elements by their rank.
LEMMA OrderRanked ==
  ASSUME NEW L, NEW S, IsFiniteSet(S), S \subseteq Nat, InOrder(L, S), NEW j \in 1 .. Len(L)
  PROVE  R!Ranked(S, j) = L[j].low
<1>1. \A c \in S : R!Rank(S, c) = Place(S, c)
  BY SameCardinality DEF R!Rank, Place, UpTo
<1>2. L[j].low \in S /\ Place(S, L[j].low) = j
  BY DEF InOrder
<1>3. R!Ranked(S, j) \in S /\ R!Rank(S, R!Ranked(S, j)) = j
  BY <1>1, <1>2 DEF R!Ranked
<1>4. Place(S, R!Ranked(S, j)) = Place(S, L[j].low)
  BY <1>1, <1>2, <1>3
<1>5. QED
  BY <1>2, <1>3, <1>4, PlaceOne

\* A stretch of unexecuted bytes has one end, and an instruction has one.
LEMMA EndOfRun ==
  ASSUME TypeOK, mapSize = SizeInBytes, NEW b \in Nat, NEW h, RunEndsAt(b, h)
  PROVE  R!RunEnd(MapOf, b) = h
<1> USE SizeAssumption DEF endAddress
<1> DEFINE Ends(g) == /\ \A x \in b .. g : ~R!Executed(MapOf, x)
                      /\ g = MapOf.size - 1 \/ R!Executed(MapOf, g + 1)
<1>1. MapOf.size = SizeInBytes /\ \A x : R!Executed(MapOf, x) <=> Executed(x)
  BY MapFacts
<1>2. h \in b .. MapOf.size - 1 /\ Ends(h)
  BY <1>1 DEF RunEndsAt
<1>3. R!RunEnd(MapOf, b) = CHOOSE g \in b .. MapOf.size - 1 : Ends(g)
  BY DEF R!RunEnd
<1> DEFINE g == R!RunEnd(MapOf, b)
<1>4. g \in b .. MapOf.size - 1 /\ Ends(g)
  BY <1>2, <1>3
<1> HIDE DEF g
<1>5. g \in b .. SizeInBytes - 1 /\ h \in b .. SizeInBytes - 1
  BY <1>1, <1>2, <1>4
<1>6. ~(g < h)
  <2>1. ASSUME g < h PROVE FALSE
    <3>1. g + 1 \in b .. h /\ g # SizeInBytes - 1
      BY <1>5, <2>1
    <3>2. QED
      BY <1>1, <1>2, <1>4, <3>1
  <2>2. QED
    BY <2>1
<1>7. ~(h < g)
  <2>1. ASSUME h < g PROVE FALSE
    <3>1. h + 1 \in b .. g /\ h # SizeInBytes - 1
      BY <1>5, <2>1
    <3>2. QED
      BY <1>1, <1>2, <1>4, <3>1
  <2>2. QED
    BY <2>1
<1>8. g = h
  BY <1>5, <1>6, <1>7
<1>9. QED
  BY <1>8 DEF g

\* ... likewise that of an instruction.
LEMMA EndOfBranch ==
  ASSUME TypeOK, mapSize = SizeInBytes, NEW b \in Nat, NEW h, WayEndsAt(b, h)
  PROVE  R!BranchEnd(MapOf, b) = h
<1> USE SizeAssumption DEF endAddress, IsStart
<1> DEFINE Ends(g) == /\ \A x \in b + 1 .. g : x \notin MapOf.start
                      /\ g = MapOf.size - 1 \/ g + 1 \in MapOf.start
<1>1. MapOf.size = SizeInBytes /\ MapOf.start = start
  BY MapFacts
<1>2. h \in b .. MapOf.size - 1 /\ Ends(h)
  BY <1>1 DEF WayEndsAt
<1>3. R!BranchEnd(MapOf, b) = CHOOSE g \in b .. MapOf.size - 1 : Ends(g)
  BY DEF R!BranchEnd
<1> DEFINE g == R!BranchEnd(MapOf, b)
<1>4. g \in b .. MapOf.size - 1 /\ Ends(g)
  BY <1>2, <1>3
<1> HIDE DEF g
<1>5. g \in b .. SizeInBytes - 1 /\ h \in b .. SizeInBytes - 1
  BY <1>1, <1>2, <1>4
<1>6. ~(g < h)
  <2>1. ASSUME g < h PROVE FALSE
    <3>1. g + 1 \in b + 1 .. h /\ g # SizeInBytes - 1
      BY <1>5, <2>1
    <3>2. QED
      BY <1>1, <1>2, <1>4, <3>1
  <2>2. QED
    BY <2>1
<1>7. ~(h < g)
  <2>1. ASSUME h < g PROVE FALSE
    <3>1. h + 1 \in b + 1 .. g /\ h # SizeInBytes - 1
      BY <1>5, <2>1
    <3>2. QED
      BY <1>1, <1>2, <1>4, <3>1
  <2>2. QED
    BY <2>1
<1>8. g = h
  BY <1>5, <1>6, <1>7
<1>9. QED
  BY <1>8 DEF g

\* What Reports takes from the map for a run or a branch is what the scan adds.
LEMMA RunTaken ==
  ASSUME TypeOK, mapSize = SizeInBytes, NEW b \in Nat, NEW h, RunEndsAt(b, h)
  PROVE  RunAdded(R!Uncovered(MapOf, b, 0))
           = [low |-> b, high |-> h, count |-> Cardinality(start \cap b .. h)]
<1>1. MapOf.base = 0 /\ MapOf.start = start /\ \A x : R!Executed(MapOf, x) <=> Executed(x)
  BY MapFacts
<1>2. b \in b .. h /\ h \in Nat
  BY SizeAssumption DEF RunEndsAt, endAddress
<1>3. ~R!Executed(MapOf, b)
  BY <1>1, <1>2 DEF RunEndsAt
<1>4. R!RunEnd(MapOf, b) = h
  BY EndOfRun
<1> DEFINE u == R!Uncovered(MapOf, b, 0)
<1>5. u.low = 0 + b /\ u.high = 0 + h /\ u.count = R!Cardinality(start \cap b .. h)
  BY <1>1, <1>3, <1>4 DEF R!Uncovered
<1> HIDE DEF u
<1>6. u.low = b /\ u.high = h /\ u.count = Cardinality(start \cap b .. h)
  BY <1>2, <1>5, SameCardinality
<1>7. RunAdded(u) = [low |-> b, high |-> h, count |-> Cardinality(start \cap b .. h)]
  BY <1>6 DEF RunAdded
<1>8. QED
  BY <1>7 DEF u

\* ... of a branch too.
LEMMA WayTaken ==
  ASSUME TypeOK, mapSize = SizeInBytes, NEW b \in OneWay(SizeInBytes), NEW h, WayEndsAt(b, h)
  PROVE  WayAdded(R!Uncovered(MapOf, b, 0)) = [low |-> b, high |-> h, reason |-> Verdict(b)]
<1>1. /\ MapOf.base = 0 /\ \A x : R!Executed(MapOf, x) <=> Executed(x)
      /\ \A x : R!Always(MapOf, x) <=> x \in branch /\ AlwaysTaken(x)
  BY MapFacts
<1>2. b \in branch /\ Executed(b) /\ Verdict(b) # "covered" /\ b \in Nat
  BY SizeAssumption DEF OneWay, TypeOK, MapOK, Bytes
<1>3. h \in Nat
  BY <1>2, SizeAssumption DEF WayEndsAt, endAddress
<1>4. R!Executed(MapOf, b)
  BY <1>1, <1>2
<1>5. R!BranchEnd(MapOf, b) = h
  BY <1>2, EndOfBranch
<1> DEFINE u == R!Uncovered(MapOf, b, 0)
<1>6. /\ u.low = 0 + b /\ u.high = 0 + h
      /\ u.reason = IF R!Always(MapOf, b) THEN "alwaysTaken" ELSE "neverTaken"
  BY <1>1, <1>4, <1>5 DEF R!Uncovered
<1> HIDE DEF u
<1>7. u.low = b /\ u.high = h
  BY <1>2, <1>3, <1>6
<1>8. (IF u.reason = "alwaysTaken" THEN "branchesAlwaysTaken" ELSE "branchesNeverTaken") = Verdict(b)
  <2>1. CASE AlwaysTaken(b)
    BY <1>1, <1>2, <1>6, <2>1 DEF Verdict
  <2>2. CASE ~AlwaysTaken(b)
    BY <1>1, <1>2, <1>6, <2>2 DEF Verdict
  <2>3. QED
    BY <2>1, <2>2
<1>9. WayAdded(u) = [low |-> b, high |-> h, reason |-> Verdict(b)]
  BY <1>7, <1>8 DEF WayAdded
<1>10. QED
  BY <1>9 DEF u

\* The whole list of the elements of a set is a list of them in order.
LEMMA ListedInOrder ==
  ASSUME NEW L, NEW S, IsFiniteSet(S), S \subseteq Nat, InOrder(L, S)
  PROVE  /\ DOMAIN R!Listed(MapOf, S, 0) = 1 .. Len(L)
         /\ \A j \in 1 .. Len(L) :
              R!Listed(MapOf, S, 0)[j] = R!Uncovered(MapOf, L[j].low, 0)
<1>1. R!Cardinality(S) = Len(L)
  BY SameCardinality DEF InOrder
<1>2. \A j \in 1 .. Len(L) : R!Ranked(S, j) = L[j].low
  BY OrderRanked
<1>3. QED
  BY <1>1, <1>2 DEF R!Listed

\* What the invariant says of the lists is what is handed over.
LEMMA HandInvImplies == HandInv => ScanHandsOver
<1> SUFFICES ASSUME HandInv, pc \in {"stats", "done"}, WholeInstructions
             PROVE /\ MapHandedOver
                   /\ LET run == R!Listed(MapOf, R!RunStarts(MapOf), 0)
                          way == R!Listed(MapOf, R!OneWay(MapOf), 0)
                      IN  /\ ranges = [j \in DOMAIN run |-> RunAdded(run[j])]
                          /\ branches = [j \in DOMAIN way |-> WayAdded(way[j])]
  BY DEF ScanHandsOver
<1> USE SizeAssumption
<1> DEFINE rs == Runs(SizeInBytes)
           ws == OneWay(SizeInBytes)
           run == R!Listed(MapOf, rs, 0)
           way == R!Listed(MapOf, ws, 0)
<1>1. /\ TypeOK /\ mapSize = SizeInBytes /\ WholeExec /\ 0 \in start /\ branch \subseteq start
      /\ ListsTo(SizeInBytes) /\ SizeInBytes \in Nat
  BY DEF HandInv, AgreeInv, ScanInv, WholeInstructions
<1>2. /\ InOrder(ranges, rs) /\ \A i \in 1 .. Len(ranges) : RunAsFound(ranges[i])
      /\ InOrder(branches, ws) /\ \A i \in 1 .. Len(branches) : WayAsFound(branches[i])
  BY <1>1 DEF ListsTo, Lists
<1>3. R!RunStarts(MapOf) = rs /\ R!OneWay(MapOf) = ws
  BY <1>1, MapFacts
<1>4. ranges \in Seq(RangeRecord) /\ branches \in Seq(BranchRecord)
  BY <1>1 DEF TypeOK
<1>5. MapHandedOver
  <2>1. /\ MapOf.size = SizeInBytes /\ MapOf.start = start
        /\ MapOf.exec = {b \in Bytes : Executed(b)} /\ Bytes = 0 .. SizeInBytes - 1
        /\ start \subseteq Bytes
    BY <1>1 DEF MapOf, Bytes, TypeOK, MapOK
  <2>2. /\ DOMAIN MapOf.went = branch
        /\ \A b \in branch : MapOf.went[b] = [taken |-> Times(b \in taken),
                                              notTaken |-> Times(b \in notTaken)]
    BY DEF MapOf
  <2>3. \A b \in branch : Times(b \in taken) \in Nat /\ Times(b \in notTaken) \in Nat
    BY DEF Times
  <2>4. ASSUME NEW b \in branch PROVE MapOf.went[b] \in R!CountType
    <3>1. \A x, y \in Nat : [taken |-> x, notTaken |-> y] \in R!CountType
      BY DEF R!CountType
    <3>2. QED
      BY <2>2, <2>3, <3>1
  <2>5. ASSUME NEW b \in 1 .. SizeInBytes - 1
        PROVE  b \in start \/ (b \in MapOf.exec <=> b - 1 \in MapOf.exec)
    <3>1. b \in Bytes /\ b - 1 \in Bytes
      BY <2>1
    <3>2. b \in MapOf.exec <=> exec[b] > 0
      BY <2>1, <3>1 DEF Executed
    <3>3. b - 1 \in MapOf.exec <=> exec[b - 1] > 0
      BY <2>1, <3>1 DEF Executed
    <3>4. QED
      BY <1>1, <3>1, <3>2, <3>3 DEF WholeExec
  <2>6. QED
    BY <1>1, <2>1, <2>2, <2>4, <2>5 DEF MapHandedOver
<1>6. /\ DOMAIN run = 1 .. Len(ranges)
      /\ \A j \in 1 .. Len(ranges) : run[j] = R!Uncovered(MapOf, ranges[j].low, 0)
  BY <1>1, <1>2, RunsBelow, ListedInOrder
<1>7. /\ DOMAIN way = 1 .. Len(branches)
      /\ \A j \in 1 .. Len(branches) : way[j] = R!Uncovered(MapOf, branches[j].low, 0)
  <2>1. IsFiniteSet(ws)
    BY <1>1, BelowFinite
  <2>2. ws \subseteq Nat
    <3>1. branch \subseteq Nat
      BY <1>1 DEF TypeOK, MapOK, Bytes
    <3>2. QED
      BY <3>1 DEF OneWay
  <2>3. QED
    BY <1>2, <2>1, <2>2, ListedInOrder
<1> HIDE DEF run, way
<1>8. ASSUME NEW j \in 1 .. Len(ranges) PROVE RunAdded(run[j]) = ranges[j]
  <2>1. ranges[j] \in RangeRecord
    BY <1>4
  <2>2. ranges[j].low \in Nat
    BY <2>1 DEF RangeRecord, endAddress
  <2>3. /\ RunEndsAt(ranges[j].low, ranges[j].high)
        /\ ranges[j].count = Cardinality(start \cap ranges[j].low .. ranges[j].high)
    BY <1>2 DEF RunAsFound
  <2>4. RunAdded(run[j]) = [low |-> ranges[j].low, high |-> ranges[j].high,
                            count |-> ranges[j].count]
    BY <1>1, <1>6, <2>2, <2>3, RunTaken
  <2>5. QED
    BY <2>1, <2>4 DEF RangeRecord
<1>9. ASSUME NEW j \in 1 .. Len(branches) PROVE WayAdded(way[j]) = branches[j]
  <2>1. branches[j] \in BranchRecord
    BY <1>4
  <2>2. branches[j].low \in ws
    BY <1>2 DEF InOrder
  <2>3. /\ WayEndsAt(branches[j].low, branches[j].high)
        /\ branches[j].reason = Verdict(branches[j].low)
    BY <1>2 DEF WayAsFound
  <2>4. WayAdded(way[j]) = [low |-> branches[j].low, high |-> branches[j].high,
                            reason |-> branches[j].reason]
    BY <1>1, <1>7, <2>2, <2>3, WayTaken
  <2>5. QED
    BY <2>1, <2>4 DEF BranchRecord
<1>10. ranges = [j \in DOMAIN run |-> RunAdded(run[j])]
  BY <1>4, <1>6, <1>8
<1>11. branches = [j \in DOMAIN way |-> WayAdded(way[j])]
  BY <1>4, <1>7, <1>9
<1>12. QED
  BY <1>3, <1>5, <1>10, <1>11 DEF run, way

(***************************************************************************)
(* For every symbol and every map of code executed as a whole, the ranges  *)
(* and branches the loops of computeUncovered add are those, and in that   *)
(* order, which Reports takes from the map.                                *)
(***************************************************************************)
THEOREM ScanHandsReportsItsRanges == Spec => []ScanHandsOver
BY InitHandInv, NextHandInv, HandInvImplies, PTL DEF Spec

-----------------------------------------------------------------------------
(***************************************************************************)
(* Each range or branch added gets the number Reports gives it: its rank   *)
(* among all that the symbol has, of either kind.                          *)
(***************************************************************************)
NumberedInTurn ==
  [][ (WholeInstructions /\ << ranges, branches >>' # << ranges, branches >>)
        => Len(ranges') + Len(branches') = R!Number(MapOf, a, 0) ]_vars

\* The number of the address at hand, if what was passed goes no further.
LEMMA NumberSoFar ==
  ASSUME TypeOK, mapSize = SizeInBytes, a \in Nat, NEW p \in a + 1 .. SizeInBytes,
         \A x \in Runs(p) \cup OneWay(p) : x <= a
  PROVE  R!Number(MapOf, a, 0) = Cardinality(Runs(p)) + Cardinality(OneWay(p))
<1> USE SizeAssumption
<1> DEFINE all == R!Starts(MapOf)
<1>1. all = Runs(SizeInBytes) \cup OneWay(SizeInBytes)
  BY MapFacts DEF R!Starts
<1>2. branch \subseteq Nat /\ p \in Nat /\ a < p
  BY DEF TypeOK, MapOK, Bytes
<1>3. Runs(SizeInBytes) \subseteq Nat /\ OneWay(SizeInBytes) \subseteq Nat
  BY <1>2, RunsBelow DEF OneWay
<1>4. ASSUME NEW x \in all, x <= a PROVE x \in Runs(p) \cup OneWay(p)
  <2>1. x \in Nat /\ x < p
    BY <1>1, <1>2, <1>3, <1>4
  <2>2. CASE x \in Runs(SizeInBytes)
    BY <1>2, <2>1, <2>2 DEF Runs
  <2>3. CASE x \in OneWay(SizeInBytes)
    BY <2>1, <2>3 DEF OneWay
  <2>4. QED
    BY <1>1, <1>4, <2>2, <2>3
<1>5. ASSUME NEW x \in Runs(p) \cup OneWay(p) PROVE x \in all
  <2>1. CASE x \in Runs(p)
    <3>1. x \in 0 .. p - 1 /\ ~Executed(x) /\ (x = 0 \/ Executed(x - 1))
      BY <2>1 DEF Runs
    <3>2. x \in 0 .. SizeInBytes - 1
      BY <1>2, <3>1
    <3>3. QED
      BY <1>1, <3>1, <3>2 DEF Runs
  <2>2. CASE x \in OneWay(p)
    <3>1. x \in branch /\ x < p /\ Executed(x) /\ Verdict(x) # "covered"
      BY <2>2 DEF OneWay
    <3>2. x < SizeInBytes
      BY <1>2, <3>1
    <3>3. QED
      BY <1>1, <3>1, <3>2 DEF OneWay
  <2>3. QED
    BY <1>5, <2>1, <2>2
<1> HIDE DEF all
<1>6. {x \in all : x <= a} = Runs(p) \cup OneWay(p)
  BY <1>4, <1>5
<1>7. IsFiniteSet(Runs(p)) /\ IsFiniteSet(OneWay(p))
  BY <1>2, RunsBelow, BelowFinite
<1>8. Runs(p) \cap OneWay(p) = {}
  BY DEF Runs, OneWay
<1>9. Cardinality(Runs(p) \cup OneWay(p)) = Cardinality(Runs(p)) + Cardinality(OneWay(p))
  <2>1. Cardinality(Runs(p) \cap OneWay(p)) = 0
    BY <1>8, FS_EmptySet
  <2>2. Cardinality(Runs(p)) \in Nat /\ Cardinality(OneWay(p)) \in Nat
    BY <1>7, FS_CardinalityType
  <2>3. Cardinality(Runs(p) \cup OneWay(p))
          = Cardinality(Runs(p)) + Cardinality(OneWay(p)) - Cardinality(Runs(p) \cap OneWay(p))
    BY <1>7, FS_Union
  <2>4. QED
    BY <2>1, <2>2, <2>3
<1>10. R!Rank(all, a) = Cardinality(Runs(p) \cup OneWay(p))
  BY <1>6, SameCardinality DEF R!Rank
<1>11. R!Number(MapOf, a, 0) = 0 + R!Rank(all, a)
  BY DEF R!Number, all
<1>12. Cardinality(Runs(p)) + Cardinality(OneWay(p)) \in Nat
  <2>1. Cardinality(Runs(p)) \in Nat /\ Cardinality(OneWay(p)) \in Nat
    BY <1>7, FS_CardinalityType
  <2>2. QED
    BY <2>1
<1>13. QED
  BY <1>9, <1>10, <1>11, <1>12

\* What is added is numbered in turn.
LEMMA NumberedStep ==
  ASSUME HandInv, HandInv', [Next]_vars, WholeInstructions,
         << ranges, branches >>' # << ranges, branches >>
  PROVE  Len(ranges') + Len(branches') = R!Number(MapOf, a, 0)
<1> USE SizeAssumption DEF endAddress
<1>1. /\ TypeOK /\ mapSize = SizeInBytes /\ branch \subseteq start
  BY DEF HandInv, BranchInv, WholeInstructions
<1>2. branch \subseteq Nat /\ \A x \in Runs(a) \cup OneWay(a) : x < a /\ x \in Nat
  <2>1. branch \subseteq Nat /\ a \in Nat
    BY <1>1 DEF TypeOK, MapOK, Bytes
  <2>2. QED
    BY <2>1, RunsBelow DEF OneWay
<1>3. ASSUME NEW ha \in a + 1 .. SizeInBytes, a \in Nat, pc = "scan", pc' = "scan",
             a' = ha, UNCHANGED << input, exec >>,
             \A x \in Runs(ha) \cup OneWay(ha) : x <= a
      PROVE  Len(ranges') + Len(branches') = R!Number(MapOf, a, 0)
  <2>1. WholeInstructions'
    BY <1>3, HandedKept
  <2>2. ListsTo(a)'
    BY <1>3, <2>1 DEF HandInv
  <2>3. ListsTo(ha)'
    BY <1>3, <2>2 DEF ListsTo
  <2>4. Lists(ranges', branches', ha)
    BY <1>3, <2>3, HandedKept
  <2>5. Len(ranges') = Cardinality(Runs(ha)) /\ Len(branches') = Cardinality(OneWay(ha))
    BY <2>4 DEF Lists, InOrder
  <2>6. QED
    BY <1>1, <1>3, <2>5, NumberSoFar
<1>4. CASE ScanRange
  <2>1. PICK ha \in a + 1 .. SizeInBytes : NextExecuted(a, ha) /\ a' = ha
    BY <1>4 DEF ScanRange
  <2>2. /\ a \in 0 .. endAddress /\ ~Executed(a) /\ a \in Nat
        /\ pc = "scan" /\ pc' = "scan" /\ UNCHANGED << input, exec >>
    BY <1>1, <1>4 DEF ScanRange, TypeOK
  <2>3. a = 0 \/ Executed(a - 1)
    BY <2>2 DEF HandInv
  <2>4. Runs(ha) = Runs(a) \cup {a} /\ OneWay(ha) = OneWay(a)
    BY <1>2, <2>1, <2>2, <2>3, RunStretch
  <2>5. \A x \in Runs(ha) \cup OneWay(ha) : x <= a
    BY <1>2, <2>2, <2>4
  <2>6. QED
    BY <1>3, <2>1, <2>2, <2>5
<1>5. CASE ScanBranch
  <2>1. PICK ha \in a + 1 .. SizeInBytes : NextStart(a, ha) /\ a' = ha
    BY <1>5 DEF ScanBranch
  <2>2. /\ a \in 0 .. endAddress /\ Executed(a) /\ a \in Nat /\ a \in branch
        /\ pc = "scan" /\ pc' = "scan" /\ UNCHANGED << input, exec >>
    BY <1>1, <1>5 DEF ScanBranch, TypeOK
  <2>3. OneWay(ha) \subseteq OneWay(a) \cup {a}
    BY <1>1, <2>1, <2>2, ScanBranchSets
  <2>4. \A x \in a .. ha - 1 : Executed(x)
    BY <1>1, <2>1, <2>2, BranchWhole DEF HandInv, AgreeInv
  <2>5. Runs(ha) = Runs(a)
    BY <2>1, <2>2, <2>4, NoRunHere
  <2>6. \A x \in Runs(ha) \cup OneWay(ha) : x <= a
    BY <1>2, <2>2, <2>3, <2>5
  <2>7. QED
    BY <1>3, <2>1, <2>2, <2>6
<1>6. CASE NopsDone
  BY <1>6 DEF NopsDone
<1>7. QED
  BY <1>4, <1>5, <1>6
  DEF Next, NopSkip, NopMark, NopsDone, ScanOther, ScanDone, CountByte, CountDone, vars

(***************************************************************************)
(* For every symbol and every map of code executed as a whole, the number  *)
(* Reports gives a range or branch is the turn in which the scan adds it,  *)
(* so CoverageRanges::add numbers as Reports has it.                       *)
(***************************************************************************)
THEOREM ScanNumbersInTurn == Spec => NumberedInTurn
<1>1. HandInv /\ HandInv' /\ [Next]_vars
        => [ (WholeInstructions /\ << ranges, branches >>' # << ranges, branches >>)
               => Len(ranges') + Len(branches') = R!Number(MapOf, a, 0) ]_vars
  BY NumberedStep
<1>2. QED
  BY <1>1, InitHandInv, NextHandInv, PTL DEF Spec, NumberedInTurn

-----------------------------------------------------------------------------
(***************************************************************************)
(* The statistics too are those Reports takes from the map.  What no       *)
(* invariant above follows is how many branches there are of either kind,  *)
(* and how many instructions.                                              *)
(***************************************************************************)
StatisticsHandedOver ==
  (pc = "done" /\ WholeInstructions) =>
    R!Statistics(1) =
      [bytes |-> SizeInBytes, instructions |-> stats["sizeInInstructions"],
       ranges |-> stats["uncoveredRanges"], uncoveredBytes |-> stats["uncoveredBytes"],
       uncoveredInstructions |-> stats["uncoveredInstructions"],
       branches |-> stats["branchesExecuted"] + stats["branchesNotExecuted"],
       always |-> stats["branchesAlwaysTaken"], never |-> stats["branchesNeverTaken"]]

Kinds         == {"branchesAlwaysTaken", "branchesNeverTaken"}
OfKind(v, p)  == {b \in OneWay(p) : Verdict(b) = v}
InsnsBelow(p) == {b \in start : b < p}

Split(p)    == \A v \in Kinds : stats[v] = Cardinality(OfKind(v, p))
Measured(p) == stats["sizeInInstructions"] = Cardinality(InsnsBelow(p))

StatInv ==
  /\ TypeOK
  /\ pc = "done" => a = SizeInBytes
  /\ pc = "nops" => stats = [c \in Counter |-> 0]
  /\ branch \subseteq start =>
       /\ pc = "scan" => Split(a) /\ Measured(0)
       /\ pc \in {"stats", "done"} => Split(SizeInBytes) /\ Measured(a)

\* The sets are finite.
LEMMA KindsFinite ==
  ASSUME TypeOK, NEW p
  PROVE  IsFiniteSet(InsnsBelow(p)) /\ \A v : IsFiniteSet(OfKind(v, p))
<1>1. IsFiniteSet(OneWay(p))
  BY BelowFinite
<1>2. mapSize \in Int /\ start \subseteq 0 .. mapSize - 1
  BY SizeAssumption DEF TypeOK, MapOK, Bytes
<1>3. IsFiniteSet(0 .. mapSize - 1)
  BY <1>2, FS_Interval
<1>4. InsnsBelow(p) \subseteq 0 .. mapSize - 1
  BY <1>2 DEF InsnsBelow
<1>5. \A v : OfKind(v, p) \subseteq OneWay(p)
  BY DEF OfKind
<1>6. QED
  BY <1>1, <1>3, <1>4, <1>5, FS_Subset

\* A step that leaves the map and the counters concerned alone keeps them.
LEMMA SplitKept ==
  ASSUME UNCHANGED << input, exec >>, \A v \in Kinds : stats'[v] = stats[v], NEW p
  PROVE  Split(p)' <=> Split(p)
<1>1. \A v : OfKind(v, p)' = OfKind(v, p)
  BY BelowKept DEF OfKind
<1>2. QED
  BY <1>1 DEF Split, Kinds

\* ... likewise for instructions.
LEMMA MeasuredKept ==
  ASSUME UNCHANGED input, stats'["sizeInInstructions"] = stats["sizeInInstructions"], NEW p
  PROVE  Measured(p)' <=> Measured(p)
BY DEF Measured, InsnsBelow, input

\* The branch passed is counted by its verdict,
LEMMA ScanBranchSplits ==
  ASSUME StatInv, ScanBranch, branch \subseteq start
  PROVE  Split(a)' /\ Measured(0)'
<1>1. PICK ha \in a + 1 .. SizeInBytes : NextStart(a, ha) /\ a' = ha
  BY DEF ScanBranch
<1>2. /\ TypeOK /\ Split(a) /\ Measured(0) /\ a \in branch /\ Executed(a)
      /\ stats' = Bump({Verdict(a)}) /\ UNCHANGED << input, exec >>
  BY DEF ScanBranch, StatInv
<1>3. OneWay(ha) = IF Verdict(a) = "covered" THEN OneWay(a) ELSE OneWay(a) \cup {a}
  BY <1>1, <1>2, ScanBranchSets
<1>4. a \notin OneWay(a)
  BY <1>2 DEF OneWay, TypeOK
<1>5. ASSUME NEW v \in Kinds PROVE stats'[v] = Cardinality(OfKind(v, ha))
  <2>1. v \in Counter /\ v # "covered" /\ stats[v] = Cardinality(OfKind(v, a))
    BY <1>2 DEF Kinds, Counter, Split
  <2>2. CASE Verdict(a) = v
    <3>1. OfKind(v, ha) = OfKind(v, a) \cup {a} /\ a \notin OfKind(v, a)
      BY <1>3, <1>4, <2>1, <2>2 DEF OfKind
    <3>2. stats'[v] = stats[v] + 1
      BY <1>2, <2>1, <2>2, BumpFacts
    <3>3. QED
      BY <1>2, <2>1, <3>1, <3>2, KindsFinite, FS_AddElement
  <2>3. CASE Verdict(a) # v
    <3>1. OfKind(v, ha) = OfKind(v, a)
      BY <1>3, <2>3 DEF OfKind
    <3>2. stats'[v] = stats[v]
      BY <1>2, <2>1, <2>3, BumpFacts
    <3>3. QED
      BY <2>1, <3>1, <3>2
  <2>4. QED
    BY <2>2, <2>3
<1>6. \A v : OfKind(v, ha)' = OfKind(v, ha)
  BY <1>2, BelowKept DEF OfKind
<1>7. Split(ha)'
  BY <1>5, <1>6 DEF Split, Kinds
<1>8. stats'["sizeInInstructions"] = stats["sizeInInstructions"]
  BY <1>2, VerdictType, BumpFacts DEF Counter
<1>9. Measured(0)'
  BY <1>2, <1>8, MeasuredKept
<1>10. QED
  BY <1>1, <1>7, <1>9 DEF Split

\* ... and nothing else is counted,
LEMMA ScanOthersSplit ==
  ASSUME StatInv, ScanRange \/ ScanOther, branch \subseteq start
  PROVE  Split(a)' /\ Measured(0)'
<1>1. /\ TypeOK /\ Split(a) /\ Measured(0) /\ UNCHANGED << input, exec >>
  BY DEF ScanRange, ScanOther, StatInv
<1>2. \A c \in Counter \ {"uncoveredRanges"} : stats'[c] = stats[c]
  <2>1. CASE ScanOther
    BY <2>1 DEF ScanOther
  <2>2. CASE ScanRange
    <3>1. stats' = Bump({"uncoveredRanges"})
      BY <2>2 DEF ScanRange
    <3>2. QED
      BY <1>1, <3>1, BumpFacts
  <2>3. QED
    BY <2>1, <2>2
<1>3. /\ \A v \in Kinds : stats'[v] = stats[v]
      /\ stats'["sizeInInstructions"] = stats["sizeInInstructions"]
  BY <1>2 DEF Counter, Kinds
<1>4. PICK ha : ha = a'
  OBVIOUS
<1>5. OneWay(ha) = OneWay(a)
  BY <1>1, <1>4, ScanOthersSets
<1>6. Split(ha)
  BY <1>1, <1>5 DEF Split, OfKind
<1>7. Split(ha)' /\ Measured(0)'
  BY <1>1, <1>3, <1>6, SplitKept, MeasuredKept
<1>8. QED
  BY <1>4, <1>7 DEF Split

\* ... until calculateStatistics counts the instructions.
LEMMA CountByteMeasures ==
  ASSUME StatInv, CountByte, branch \subseteq start
  PROVE  Split(SizeInBytes)' /\ Measured(a)'
<1>1. /\ TypeOK /\ Split(SizeInBytes) /\ Measured(a)
      /\ UNCHANGED << input, exec >> /\ a' = a + 1 /\ a \in Nat
      /\ stats' = Bump(CountersOf(a))
  BY DEF CountByte, StatInv, TypeOK
<1>2. \A v \in Kinds : v \notin CountersOf(a) /\ v \in Counter
  BY DEF CountersOf, Kinds, Counter
<1>3. \A v \in Kinds : stats'[v] = stats[v]
  BY <1>1, <1>2, BumpFacts
<1>4. Split(SizeInBytes)'
  BY <1>1, <1>3, SplitKept
<1>5. /\ "sizeInInstructions" \in CountersOf(a) <=> a \in start
      /\ "sizeInInstructions" \in Counter
  BY DEF CountersOf, IsStart, Counter
<1>6. \A b \in start : b \in Int
  BY <1>1 DEF TypeOK, MapOK, Bytes
<1>7. InsnsBelow(a + 1) = IF a \in start THEN InsnsBelow(a) \cup {a} ELSE InsnsBelow(a)
  <2>1. \A b \in start : b < a + 1 <=> b < a \/ b = a
    BY <1>1, <1>6
  <2>2. QED
    BY <2>1 DEF InsnsBelow
<1>8. IsFiniteSet(InsnsBelow(a)) /\ a \notin InsnsBelow(a)
  BY <1>1, KindsFinite DEF InsnsBelow
<1>9. stats'["sizeInInstructions"] = Cardinality(InsnsBelow(a + 1))
  <2>1. CASE a \in start
    <3>1. stats'["sizeInInstructions"] = stats["sizeInInstructions"] + 1
      BY <1>1, <1>5, <2>1, BumpFacts
    <3>2. QED
      BY <1>1, <1>7, <1>8, <2>1, <3>1, FS_AddElement DEF Measured
  <2>2. CASE a \notin start
    <3>1. stats'["sizeInInstructions"] = stats["sizeInInstructions"]
      BY <1>1, <1>5, <2>2, BumpFacts
    <3>2. QED
      BY <1>1, <1>7, <2>2, <3>1 DEF Measured
  <2>3. QED
    BY <2>1, <2>2
<1>10. PICK next : next = a + 1
  OBVIOUS
<1>11. InsnsBelow(next)' = InsnsBelow(next)
  BY <1>1 DEF InsnsBelow, input
<1>12. Measured(next)'
  BY <1>9, <1>10, <1>11 DEF Measured
<1>13. QED
  BY <1>1, <1>4, <1>10, <1>12 DEF Measured

\* Nothing is counted to begin with.
LEMMA InitStatInv == Init => StatInv
BY InitTypeOK DEF Init, StatInv

\* Every step keeps the counts of branches by kind and of instructions.
LEMMA NextStatInv == StatInv /\ [Next]_vars => StatInv'
<1> SUFFICES ASSUME StatInv, [Next]_vars PROVE StatInv'
  OBVIOUS
<1>1. TypeOK /\ TypeOK'
  BY NextTypeOK DEF StatInv
<1>2. CASE NopSkip \/ NopMark
  BY <1>1, <1>2 DEF NopSkip, NopMark, StatInv
<1>3. CASE NopsDone
  <2>1. /\ stats' = [c \in Counter |-> 0] /\ a' = 0 /\ pc' = "scan" /\ UNCHANGED << input, exec >>
    BY <1>3 DEF NopsDone, StatInv
  <2>2. OneWay(0) = {}
    BY <1>1, NothingBelow
  <2>3. InsnsBelow(0) = {}
    <3>1. \A b \in start : ~(b < 0)
      BY <1>1, SizeAssumption DEF TypeOK, MapOK, Bytes
    <3>2. QED
      BY <3>1 DEF InsnsBelow
  <2>4. \A v : OfKind(v, 0)' = {}
    BY <2>1, <2>2, BelowKept DEF OfKind
  <2>5. InsnsBelow(0)' = {}
    BY <2>1, <2>3 DEF InsnsBelow, input
  <2>6. Cardinality({}) = 0
    BY FS_EmptySet
  <2>7. Split(0)' /\ Measured(0)'
    BY <2>1, <2>4, <2>5, <2>6 DEF Split, Measured, Kinds, Counter
  <2>8. Split(a)'
    BY <2>1, <2>7 DEF Split
  <2>9. QED
    BY <1>1, <2>1, <2>7, <2>8 DEF StatInv
<1>4. CASE ScanRange \/ ScanBranch \/ ScanOther
  <2>1. UNCHANGED input /\ pc' = "scan"
    BY <1>4 DEF ScanRange, ScanBranch, ScanOther
  <2>2. branch' \subseteq start' => Split(a)' /\ Measured(0)'
    BY <1>4, <2>1, ScanBranchSplits, ScanOthersSplit DEF input
  <2>3. QED
    BY <1>1, <2>1, <2>2 DEF StatInv
<1>5. CASE ScanDone
  <2>1. /\ UNCHANGED << input, exec, stats >> /\ pc = "scan" /\ pc' = "stats"
        /\ a' = 0 /\ a = SizeInBytes
    BY <1>1, <1>5, SizeAssumption DEF ScanDone, TypeOK, endAddress
  <2>2. ASSUME branch \subseteq start PROVE Split(SizeInBytes)' /\ Measured(a)'
    <3>1. Split(SizeInBytes) /\ Measured(0)
      BY <2>1, <2>2 DEF StatInv
    <3>2. Split(SizeInBytes)' /\ Measured(0)'
      BY <2>1, <3>1, SplitKept, MeasuredKept
    <3>3. QED
      BY <2>1, <3>2 DEF Measured
  <2>3. QED
    BY <1>1, <2>1, <2>2 DEF StatInv, input
<1>6. CASE CountByte
  <2>1. UNCHANGED input /\ pc' = "stats"
    BY <1>6 DEF CountByte
  <2>2. branch' \subseteq start' => Split(SizeInBytes)' /\ Measured(a)'
    BY <1>6, <2>1, CountByteMeasures DEF input
  <2>3. QED
    BY <1>1, <2>1, <2>2 DEF StatInv
<1>7. CASE CountDone \/ UNCHANGED vars
  <2>1. UNCHANGED << input, exec, stats, a >>
    BY <1>7 DEF CountDone, vars, input
  <2>2. \/ pc' = pc
        \/ pc = "stats" /\ pc' = "done" /\ a' = SizeInBytes
    BY <1>1, <1>7, SizeAssumption DEF CountDone, vars, TypeOK, endAddress
  <2>3. PICK here : here = a
    OBVIOUS
  <2>4. /\ Split(here)' <=> Split(here)
        /\ Measured(here)' <=> Measured(here)
        /\ Measured(0)' <=> Measured(0)
        /\ Split(SizeInBytes)' <=> Split(SizeInBytes)
    BY <2>1, SplitKept, MeasuredKept
  <2>5. /\ Split(a)' <=> Split(a)
        /\ Measured(a)' <=> Measured(a)
    BY <2>1, <2>3, <2>4
  <2>6. branch' = branch /\ start' = start
    BY <2>1 DEF input
  <2>7. QED
    BY <1>1, <2>1, <2>2, <2>4, <2>5, <2>6 DEF StatInv
<1>8. QED
  BY <1>2, <1>3, <1>4, <1>5, <1>6, <1>7 DEF Next

\* Of a number of bytes, those executed and those not make up the whole.
LEMMA RestOfBytes ==
  ASSUME NEW n \in Nat, NEW E, E \subseteq 0 .. n - 1
  PROVE  n - Cardinality(E) = Cardinality((0 .. n - 1) \ E)
<1>1. 0 \in Int /\ n - 1 \in Int
  OBVIOUS
<1>2. IsFiniteSet(0 .. n - 1) /\ Cardinality(0 .. n - 1) = IF 0 > n - 1 THEN 0 ELSE n - 1 - 0 + 1
  BY <1>1, FS_Interval
<1>3. Cardinality(0 .. n - 1) = n
  BY <1>2
<1> DEFINE all == 0 .. n - 1
<1>4. IsFiniteSet(all) /\ E \subseteq all /\ Cardinality(all) = n
  BY <1>2, <1>3
<1> HIDE DEF all
<1>5. Cardinality(all \ E) = Cardinality(all) - Cardinality(all \cap E) /\ all \cap E = E
  BY <1>4, FS_Difference
<1>6. IsFiniteSet(E) /\ Cardinality(E) \in Nat
  BY <1>4, FS_Subset, FS_CardinalityType
<1>7. n - Cardinality(E) = Cardinality(all \ E)
  BY <1>4, <1>5, <1>6
<1>8. QED
  BY <1>7 DEF all

\* What the invariants say of the counters is what Reports takes from the map.
LEMMA StatInvImplies == HandInv /\ StatInv => StatisticsHandedOver
<1> SUFFICES ASSUME HandInv, StatInv, pc = "done", WholeInstructions
             PROVE R!Statistics(1) =
      [bytes |-> SizeInBytes, instructions |-> stats["sizeInInstructions"],
       ranges |-> stats["uncoveredRanges"], uncoveredBytes |-> stats["uncoveredBytes"],
       uncoveredInstructions |-> stats["uncoveredInstructions"],
       branches |-> stats["branchesExecuted"] + stats["branchesNotExecuted"],
       always |-> stats["branchesAlwaysTaken"], never |-> stats["branchesNeverTaken"]]
  BY DEF StatisticsHandedOver
<1> USE SizeAssumption
<1> DEFINE s == MapOf
<1>1. /\ TypeOK /\ mapSize = SizeInBytes /\ branch \subseteq start /\ a = SizeInBytes
      /\ Bytes = 0 .. SizeInBytes - 1 /\ SizeInBytes \in Nat
  BY DEF HandInv, AgreeInv, ScanInv, WholeInstructions, Bytes
<1>2. /\ Totals(SizeInBytes) /\ CountedTo(SizeInBytes) /\ Tallied(SizeInBytes)
      /\ Split(SizeInBytes) /\ Measured(SizeInBytes)
  <2>1. Totals(SizeInBytes) /\ CountedTo(SizeInBytes)
    BY <1>1 DEF HandInv, AgreeInv
  <2>2. Tallied(SizeInBytes)
    BY <1>1 DEF HandInv, BranchInv
  <2>3. Split(SizeInBytes) /\ Measured(SizeInBytes)
    BY <1>1 DEF StatInv
  <2>4. QED
    BY <2>1, <2>2, <2>3
<1>3. /\ s.size = SizeInBytes /\ s.start = start /\ s.exec = {b \in Bytes : Executed(b)}
      /\ DOMAIN s.went = branch
  BY DEF MapOf
<1>4. /\ start \subseteq 0 .. SizeInBytes - 1 /\ branch \subseteq 0 .. SizeInBytes - 1
      /\ \A b \in 0 .. SizeInBytes - 1 : b < SizeInBytes
  BY <1>1 DEF TypeOK, MapOK
<1>5. /\ \A b : R!Always(s, b) <=> b \in branch /\ AlwaysTaken(b)
      /\ \A b : R!Never(s, b) <=> b \in branch /\ NeverTaken(b)
  BY <1>1, MapFacts
<1>6. R!Symbols[1] = s
  BY DEF R!Symbols
<1>7. Cardinality(s.start) = stats["sizeInInstructions"]
  <2>1. InsnsBelow(SizeInBytes) = start
    BY <1>4 DEF InsnsBelow
  <2>2. QED
    BY <1>2, <1>3, <2>1 DEF Measured
<1>8. s.size - Cardinality(s.exec) = stats["uncoveredBytes"]
  <2>1. UncoveredBelow(SizeInBytes) = (0 .. SizeInBytes - 1) \ s.exec
    BY <1>1, <1>3 DEF UncoveredBelow
  <2>2. s.exec \subseteq 0 .. SizeInBytes - 1
    BY <1>1, <1>3
  <2>3. SizeInBytes - Cardinality(s.exec) = Cardinality((0 .. SizeInBytes - 1) \ s.exec)
    BY <1>1, <2>2, RestOfBytes
  <2>4. QED
    BY <1>2, <1>3, <2>1, <2>3 DEF CountedTo
<1>9. Cardinality(s.start \ s.exec) = stats["uncoveredInstructions"]
  <2>1. StartsBelow(SizeInBytes) = s.start \ s.exec
    BY <1>1, <1>3, <1>4 DEF StartsBelow
  <2>2. QED
    BY <1>2, <2>1 DEF CountedTo
<1>10. /\ Cardinality(R!BranchesExecuted(s)) = stats["branchesExecuted"]
       /\ Cardinality(R!BranchesNotExecuted(s)) = stats["branchesNotExecuted"]
  <2>1. R!BranchesExecuted(s) = RanBelow(SizeInBytes)
    BY <1>1, <1>3, <1>4 DEF R!BranchesExecuted, RanBelow
  <2>2. R!BranchesNotExecuted(s) = UnranBelow(SizeInBytes)
    BY <1>1, <1>3, <1>4 DEF R!BranchesNotExecuted, UnranBelow
  <2>3. QED
    BY <1>2, <2>1, <2>2 DEF Tallied
<1>11. Cardinality({b \in s.exec : R!Always(s, b)}) = stats["branchesAlwaysTaken"]
  <2>1. \A b : Verdict(b) = "branchesAlwaysTaken" <=> AlwaysTaken(b)
    BY DEF Verdict
  <2>2. OfKind("branchesAlwaysTaken", SizeInBytes) = {b \in s.exec : R!Always(s, b)}
    BY <1>1, <1>3, <1>4, <1>5, <2>1 DEF OfKind, OneWay
  <2>3. QED
    BY <1>2, <2>2 DEF Split, Kinds
<1>12. Cardinality({b \in s.exec : R!Never(s, b)}) = stats["branchesNeverTaken"]
  <2>1. \A b : Verdict(b) = "branchesNeverTaken" <=> NeverTaken(b)
    BY DEF Verdict, AlwaysTaken, NeverTaken
  <2>2. OfKind("branchesNeverTaken", SizeInBytes) = {b \in s.exec : R!Never(s, b)}
    BY <1>1, <1>3, <1>4, <1>5, <2>1 DEF OfKind, OneWay
  <2>3. QED
    BY <1>2, <2>2 DEF Split, Kinds
<1>13. Len(<< ranges >>[1]) = stats["uncoveredRanges"]
  BY <1>2 DEF Totals
<1> HIDE DEF s
<1>14. R!Statistics(1) =
         [bytes |-> s.size, instructions |-> Cardinality(s.start),
          ranges |-> Len(<< ranges >>[1]),
          uncoveredBytes |-> s.size - Cardinality(s.exec),
          uncoveredInstructions |-> Cardinality(s.start \ s.exec),
          branches |-> Cardinality(R!BranchesExecuted(s)) + Cardinality(R!BranchesNotExecuted(s)),
          always |-> Cardinality({b \in s.exec : R!Always(s, b)}),
          never |-> Cardinality({b \in s.exec : R!Never(s, b)})]
  BY <1>6, SameCardinality DEF R!Statistics
<1>15. QED
  BY <1>3, <1>7, <1>8, <1>9, <1>10, <1>11, <1>12, <1>13, <1>14

(***************************************************************************)
(* For every symbol and every map of code executed as a whole, the         *)
(* counters computeUncovered and calculateStatistics leave are the         *)
(* statistics Reports takes from the map.                                  *)
(***************************************************************************)
THEOREM ScanHandsReportsItsStatistics == Spec => []StatisticsHandedOver
BY InitHandInv, NextHandInv, InitStatInv, NextStatInv, StatInvImplies, PTL DEF Spec
=============================================================================
