--------------------------- MODULE UncoveredScan ---------------------------
(***************************************************************************)
(* The two passes covoar makes over the unified coverage map of one        *)
(* symbol once every coverage file is merged: DesiredSymbols::             *)
(* computeUncovered (mark nops, then collect uncovered ranges and          *)
(* branches) and DesiredSymbols::calculateStatistics (count).  One action  *)
(* is one iteration of a loop of the code; addresses are offsets from the  *)
(* symbol's base address.  Operators named Slip... are wrong variants of   *)
(* the definition that follows them; no specification uses them.           *)
(***************************************************************************)
EXTENDS Integers, Sequences, FiniteSets, Functions

CONSTANTS
  SizeInBytes,  (* stats.sizeInBytes of the symbol                *)
  Counts        (* the execution counts a merged byte may hold    *)

ASSUME SizeAssumption  == SizeInBytes \in Nat \ {0}
ASSUME CountAssumption == Counts \subseteq Nat

VARIABLES
  mapSize,             (* bytes of the unified map; below SizeInBytes when a  *)
                       (* later executable held a longer version              *)
  start, branch, nop,  (* offsets flagged while reading the objdumps          *)
  taken, notTaken,     (* offsets of branches that went that way              *)
  exec0,               (* execution counts as merged from the executables     *)
  exec,                (* execution counts, the nop pass included             *)
  pc, a,               (* which loop runs, and its address                    *)
  ranges, branches,    (* uncoveredRanges and uncoveredBranches, as added     *)
  stats                (* the counters of Statistics                          *)

input == << mapSize, start, branch, nop, taken, notTaken, exec0 >>
vars  == << mapSize, start, branch, nop, taken, notTaken, exec0, exec, pc, a,
            ranges, branches, stats >>

Bytes      == 0 .. mapSize - 1
endAddress == SizeInBytes - 1
Counter    == { "branchesAlwaysTaken", "branchesNeverTaken", "branchesExecuted",
                "branchesNotExecuted", "sizeInInstructions",
                "uncoveredInstructions", "uncoveredBytes", "uncoveredRanges" }

(***************************************************************************)
(* The map's predicates answer FALSE outside the map.                      *)
(***************************************************************************)
IsStart(b)     == b \in start
Executed(b)    == b \in Bytes /\ exec[b] > 0
AlwaysTaken(b) == b \in taken /\ b \notin notTaken
NeverTaken(b)  == b \notin taken /\ b \in notTaken

\* h is where a loop that runs on from b + 1 stops: the first offset that is
\* the start of an instruction (NextStart) or executed (NextExecuted), or the
\* one past endAddress.
NextStart(b, h) ==
  /\ h \in b + 1 .. SizeInBytes
  /\ h = SizeInBytes \/ IsStart(h)
  /\ \A x \in b + 1 .. h - 1 : ~IsStart(x)
SlipNextExecuted(b, h) ==
  /\ h \in b + 1 .. SizeInBytes
  /\ h = SizeInBytes \/ Executed(h) \/ IsStart(h)
  /\ \A x \in b + 1 .. h - 1 : ~Executed(x) /\ ~IsStart(x)
NextExecuted(b, h) ==
  /\ h \in b + 1 .. SizeInBytes
  /\ h = SizeInBytes \/ Executed(h)
  /\ \A x \in b + 1 .. h - 1 : ~Executed(x)

Bump(names) == [c \in Counter |-> stats[c] + IF c \in names THEN 1 ELSE 0]
-----------------------------------------------------------------------------
(***************************************************************************)
(* The nop and branch flags come from the disassembly of the first         *)
(* executable that held the symbol, the rest from every executable whose   *)
(* version had sizeInBytes bytes.  Unless the sizes differ, the flags sit  *)
(* on starts of instructions.  The directions of other offsets are never   *)
(* read.                                                                   *)
(***************************************************************************)
Init ==
  /\ mapSize \in 1 .. SizeInBytes
  /\ start \in {s \in SUBSET Bytes : 0 \in s}
  /\ branch \in SUBSET (IF mapSize = SizeInBytes THEN start ELSE Bytes)
  /\ nop \in SUBSET ((IF mapSize = SizeInBytes THEN start ELSE Bytes) \ branch)
  /\ exec0 \in [Bytes -> Counts]
  /\ taken \in SUBSET branch
  /\ notTaken \in SUBSET branch
  /\ exec = exec0
  /\ pc = "nops"
  /\ a = 0
  /\ ranges = << >>
  /\ branches = << >>
  /\ stats = [c \in Counter |-> 0]

\* while (a < endAddress): an unexecuted byte is stepped over.
SlipNopSkip ==
  /\ pc = "nops" /\ a < endAddress /\ ~Executed(a)
  /\ a' = a
  /\ UNCHANGED << input, exec, pc, ranges, branches, stats >>
NopSkip ==
  /\ pc = "nops" /\ a < endAddress /\ ~Executed(a)
  /\ a' = a + 1
  /\ UNCHANGED << input, exec, pc, ranges, branches, stats >>

\* Where marking the instruction at ha stops: its bytes up to the next start,
\* endAddress itself excluded.
SlipMarkedUpTo(ha, to) == to = IF ha \in nop THEN endAddress ELSE ha
MarkedUpTo(ha, to) ==
  IF ha \in nop THEN \E up \in ha + 1 .. SizeInBytes :
                        /\ NextStart(ha, up)
                        /\ to = IF up < endAddress THEN up ELSE endAddress
                ELSE to = ha

\* ... an executed byte leads to the next instruction; a nop there counts as
\* executed, and the loop goes on behind it.
NopMark ==
  /\ pc = "nops" /\ a < endAddress /\ Executed(a)
  /\ \E ha \in a + 1 .. endAddress - 1, to \in a + 1 .. endAddress :
       /\ NextStart(a, ha)
       /\ MarkedUpTo(ha, to)
       /\ exec' = [b \in Bytes |-> exec[b] + IF b \in ha .. to - 1 THEN 1 ELSE 0]
       /\ a' = to
  /\ UNCHANGED << input, pc, ranges, branches, stats >>

\* The loop ends at endAddress, or by the break when no instruction is left.
NopsDone ==
  /\ pc = "nops"
  /\ \/ a >= endAddress
     \/ Executed(a) /\ \E ha \in endAddress .. SizeInBytes : NextStart(a, ha)
  /\ pc' = "scan" /\ a' = 0
  /\ UNCHANGED << input, exec, ranges, branches, stats >>

\* while (a <= endAddress): a maximal run of unexecuted bytes is one range.
\* Its first byte counts as an instruction, then every start in it does.
SlipRangeOf(la, ha) == [low |-> la, high |-> ha, count |-> 1]
SlipCountOf(la, ha) ==
  [low |-> la, high |-> ha - 1,
   count |-> Cardinality({b \in la + 1 .. ha - 1 : IsStart(b)})]
RangeOf(la, ha) ==
  [low |-> la, high |-> ha - 1,
   count |-> 1 + Cardinality({b \in la + 1 .. ha - 1 : IsStart(b)})]

ScanRange ==
  /\ pc = "scan" /\ a <= endAddress /\ ~Executed(a)
  /\ \E ha \in a + 1 .. SizeInBytes :
       /\ NextExecuted(a, ha)
       /\ ranges' = Append(ranges, RangeOf(a, ha))
       /\ a' = ha
  /\ stats' = Bump({"uncoveredRanges"})
  /\ UNCHANGED << input, exec, pc, branches >>

\* Why an executed branch is uncovered, by the counter of that reason.
SlipVerdict(b) ==
  IF b \in taken THEN "branchesAlwaysTaken"
  ELSE IF b \in notTaken THEN "branchesNeverTaken" ELSE "covered"
Verdict(b) ==
  IF AlwaysTaken(b) THEN "branchesAlwaysTaken"
  ELSE IF NeverTaken(b) THEN "branchesNeverTaken" ELSE "covered"

\* ... an executed branch that only ever went one way is an uncovered branch.
ScanBranch ==
  /\ pc = "scan" /\ a <= endAddress /\ Executed(a) /\ a \in branch
  /\ \E ha \in a + 1 .. SizeInBytes :
       /\ NextStart(a, ha)
       /\ branches' = IF Verdict(a) = "covered" THEN branches
                      ELSE Append(branches,
                             [low |-> a, high |-> ha - 1, reason |-> Verdict(a)])
       /\ a' = ha
  /\ stats' = Bump({Verdict(a)})
  /\ UNCHANGED << input, exec, pc, ranges >>

ScanOther ==
  /\ pc = "scan" /\ a <= endAddress /\ Executed(a) /\ a \notin branch
  /\ a' = a + 1
  /\ UNCHANGED << input, exec, pc, ranges, branches, stats >>

ScanDone ==
  /\ pc = "scan" /\ a > endAddress
  /\ pc' = "stats" /\ a' = 0
  /\ UNCHANGED << input, exec, ranges, branches, stats >>

\* calculateStatistics: the counters one byte adds to.
CountersOf(b) ==
  UNION { IF IsStart(b) THEN {"sizeInInstructions"} ELSE {},
          IF IsStart(b) /\ ~Executed(b) THEN {"uncoveredInstructions"} ELSE {},
          IF IsStart(b) /\ b \in branch
            THEN {IF Executed(b) THEN "branchesExecuted" ELSE "branchesNotExecuted"}
            ELSE {},
          IF Executed(b) THEN {} ELSE {"uncoveredBytes"} }

CountByte ==
  /\ pc = "stats" /\ a <= endAddress
  /\ stats' = Bump(CountersOf(a))
  /\ a' = a + 1
  /\ UNCHANGED << input, exec, pc, ranges, branches >>

CountDone ==
  /\ pc = "stats" /\ a > endAddress
  /\ pc' = "done"
  /\ UNCHANGED << input, exec, a, ranges, branches, stats >>

Next == \/ NopSkip \/ NopMark \/ NopsDone
        \/ ScanRange \/ ScanBranch \/ ScanOther \/ ScanDone
        \/ CountByte \/ CountDone

\* The loops run to completion unless the process is killed.
Spec     == Init /\ [][Next]_vars
FairSpec == Spec /\ WF_vars(Next)
-----------------------------------------------------------------------------
(***************************************************************************)
(* Types.                                                                  *)
(***************************************************************************)
RangeRecord  == [low : 0 .. endAddress, high : 0 .. endAddress,
                 count : Nat \ {0}]
BranchRecord == [low : 0 .. endAddress, high : 0 .. endAddress,
                 reason : {"branchesAlwaysTaken", "branchesNeverTaken"}]

(***************************************************************************)
(* The variables stay within the types the code gives them; in particular  *)
(* no recorded range leaves the symbol and none is empty of instructions.  *)
(***************************************************************************)
MapOK ==
  /\ mapSize \in 1 .. SizeInBytes
  /\ start \subseteq Bytes /\ branch \subseteq Bytes /\ nop \subseteq Bytes
  /\ taken \subseteq branch /\ notTaken \subseteq branch
  /\ exec0 \in [Bytes -> Nat] /\ exec \in [Bytes -> Nat]

TypeOK ==
  /\ MapOK
  /\ pc \in {"nops", "scan", "stats", "done"}
  /\ a \in 0 .. SizeInBytes
  /\ ranges \in Seq(RangeRecord)
  /\ branches \in Seq(BranchRecord)
  /\ stats \in [Counter -> Nat]

(***************************************************************************)
(* Once computeUncovered is through, a byte of the symbol lies in an       *)
(* uncovered range exactly when it was not executed and is not skipped as  *)
(* the tail of an executed branch; and the ranges are in address order     *)
(* with an executed byte between any two: none overlaps another, none is   *)
(* split, none is lost at either end (DesiredSymbols.cc 250-289).          *)
(***************************************************************************)
InRange(b, i)  == ranges[i].low <= b /\ b <= ranges[i].high
InSomeRange(b) == \E i \in 1 .. Len(ranges) : InRange(b, i)

BranchTail(b) ==
  \E p \in branch : /\ p < b /\ Executed(p)
                    /\ \A x \in p + 1 .. b : ~IsStart(x)

RangesExact ==
  pc \in {"stats", "done"} =>
    /\ \A b \in 0 .. endAddress :
         InSomeRange(b) <=> ~Executed(b) /\ ~BranchTail(b)
    /\ \A i, j \in 1 .. Len(ranges) :
         i < j => ranges[i].high + 1 < ranges[j].low

(***************************************************************************)
(* The nop pass hides only padding: a byte whose count it raises belongs   *)
(* to a nop, is raised once, and that nop directly follows an instruction  *)
(* some byte of which really was executed (224-248).                       *)
(***************************************************************************)
PaddingAfter(b, n, p) ==
  /\ n \in nop /\ n \in start /\ p < n /\ exec0[p] > 0
  /\ \A x \in p + 1 .. b : IsStart(x) => x = n

OnlyPaddingMarked ==
  \A b \in Bytes :
    \/ exec[b] = exec0[b]
    \/ /\ exec[b] = exec0[b] + 1
       /\ \E n \in 0 .. b, p \in 0 .. b : PaddingAfter(b, n, p)

(***************************************************************************)
(* The two passes agree.  The ranges computeUncovered recorded never hold  *)
(* more bytes than calculateStatistics counts as uncovered; and when the   *)
(* unified map is as long as the symbol, every instruction was executed    *)
(* whole or not at all and the last one is no nop (finalizeSymbol strips   *)
(* those), bytes and instructions of the ranges add up to the counters.    *)
(***************************************************************************)
WholeInstructions ==
  /\ mapSize = SizeInBytes
  /\ \A b \in Bytes \ start : exec0[b] > 0 <=> exec0[b - 1] > 0
  /\ \A n \in nop : \E s \in start : n < s

RangeBytes ==
  SumFunction([i \in DOMAIN ranges |-> ranges[i].high - ranges[i].low + 1])
RangeInstructions ==
  SumFunction([i \in DOMAIN ranges |-> ranges[i].count])

ReportsAgree ==
  pc = "done" =>
    /\ stats["uncoveredRanges"] = Len(ranges)
    /\ RangeBytes <= stats["uncoveredBytes"]
    /\ WholeInstructions =>
         /\ RangeBytes = stats["uncoveredBytes"]
         /\ RangeInstructions = stats["uncoveredInstructions"]

(***************************************************************************)
(* While the branch flags sit on starts of instructions, the uncovered     *)
(* branches are exactly the executed branches seen going one way only,     *)
(* each recorded once and with the right reason, and the totals of the two *)
(* passes fit together (281-329 against 171-182).                          *)
(***************************************************************************)
BranchesExact ==
  (pc = "done" /\ branch \subseteq start) =>
    /\ {<< r.low, r.reason >> : r \in {branches[i] : i \in DOMAIN branches}} =
         {<< b, "branchesAlwaysTaken" >> :
            b \in {x \in branch : Executed(x) /\ x \in taken \ notTaken}} \cup
         {<< b, "branchesNeverTaken" >> :
            b \in {x \in branch : Executed(x) /\ x \in notTaken \ taken}}
    /\ Len(branches) = stats["branchesAlwaysTaken"] + stats["branchesNeverTaken"]
    /\ Len(branches) <= stats["branchesExecuted"]
    /\ stats["branchesExecuted"] + stats["branchesNotExecuted"]
         = Cardinality(branch)

(***************************************************************************)
(* Both passes come to an end: every iteration of their nested loops moves *)
(* the address forward, whatever the map holds.                            *)
(***************************************************************************)
Termination == <>(pc = "done")
=============================================================================
