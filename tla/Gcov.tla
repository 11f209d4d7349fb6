-------------------------------- MODULE Gcov --------------------------------
(***************************************************************************)
(* covoar's GcovData and GcovFunctionData, for one notes file.  From the   *)
(* flow graphs the compiler left in the notes and the unified coverage     *)
(* maps they work out how often each arc of each graph was followed, and   *)
(* write those counts as a data file for gcov.  The maps only know how     *)
(* often a function was entered and how often each conditional branch was  *)
(* taken and not taken.  Operators named Slip... are wrong variants of the *)
(* definition that follows them; no specification uses them.               *)
(***************************************************************************)
EXTENDS Integers, Sequences, SequencesExt, FiniteSetsExt, Functions

CONSTANT Inputs   (* the notes files to consider, with what was executed    *)

\* An arc from one block to another; blocks are numbered from 0, the entry.
ArcType == [source : Nat, destination : Nat, flags : {{}, {"fake"}, {"fall"},
             {"tree"}, {"tree", "fake"}, {"tree", "fall"}}]
\* A function: its blocks and arcs in the order of the notes, whether covoar
\* has a coverage map for it, how often each arc was really followed, and
\* which of its conditional branches has no branch instruction (0: none).
FunctionType == [blocks : Nat \ {0}, arcs : Seq(ArcType), mapped : BOOLEAN,
                 followed : Seq(Nat), merged : Nat]
InputType == [functions : Seq(FunctionType)]

Sum(f, S)  == SumFunctionOnSet(f, S)
OutOf(d, b) == {k \in DOMAIN d.arcs : d.arcs[k].source = b}
Into(d, b) == {k \in DOMAIN d.arcs : d.arcs[k].destination = b}

\* Arcs come block by block, the last block is the exit, and none leads back
\* to the entry.  A call goes from the entry to the exit: it leaves every block
\* between them as often as it enters it.
Ordered(d) ==
  /\ \A k, l \in DOMAIN d.arcs : k < l => d.arcs[k].source <= d.arcs[l].source
  /\ \A k \in DOMAIN d.arcs : /\ d.arcs[k].source < d.blocks - 1
                              /\ d.arcs[k].destination \in 1 .. d.blocks - 1
  /\ DOMAIN d.followed = DOMAIN d.arcs
  /\ \A b \in 1 .. d.blocks - 2 : Sum(d.followed, Into(d, b)) = Sum(d.followed, OutOf(d, b))

ASSUME InputAssumption ==
  /\ Inputs \subseteq InputType
  /\ \A i \in Inputs : \A f \in DOMAIN i.functions : Ordered(i.functions[f])

VARIABLES
  in,          (* notes file and execution                                  *)
  pc,          (* where GcovData is                                         *)
  frame,       (* the frame that is next in the notes: kind, function, block *)
  functions,   (* the functions read, with the counters of blocks and arcs  *)
  fn,          (* the function being processed or written                   *)
  block, arc,  (* blockIterator and arcIterator                             *)
  taken, notTaken,  (* counts of the branches not assigned yet              *)
  gcda         (* the data file                                             *)

vars == << in, pc, frame, functions, fn, block, arc, taken, notTaken, gcda >>
iterators == << block, arc, taken, notTaken >>

NoData     == [written |-> << >>, counters |-> 0, sum |-> 0, max |-> 0]
Frame(k, i, b) == [kind |-> k, of |-> i, block |-> b]
FirstFrame == Frame("function", 1, 0)

Init ==
  /\ in \in Inputs
  /\ pc = "read" /\ frame = FirstFrame /\ functions = << >>
  /\ fn = 1 /\ block = 0 /\ arc = 1 /\ taken = << >> /\ notTaken = << >>
  /\ gcda = NoData
-----------------------------------------------------------------------------
(***************************************************************************)
(* The notes: for each function its frame, one with the blocks, one with   *)
(* the arcs of each block that has any, and one with line numbers.  A file *)
(* may end, or have a frame cut short, anywhere: this ends the reading,    *)
(* and what was read is used.                                              *)
(***************************************************************************)
Sources(d) == {d.arcs[k].source : k \in DOMAIN d.arcs}

\* The frame behind frame f.
NextFrame(f) ==
  LET rest == {b \in Sources(in.functions[f.of]) : f.kind = "blocks" \/ f.block < b}
  IN  CASE f.kind = "function" -> Frame("blocks", f.of, 0)
        [] f.kind = "lines"    -> Frame("function", f.of + 1, 0)
        [] f.kind \in {"blocks", "arcs"} ->
             IF rest = {} THEN Frame("lines", f.of, 0) ELSE Frame("arcs", f.of, Min(rest))

AllRead == frame.of > Len(in.functions)
Back    == Len(functions)

NewFunction(i) == [of |-> i, blocks |-> << >>, arcs |-> << >>]
NewArc(a)      == [source |-> a.source, destination |-> a.destination,
                   flags |-> a.flags, counter |-> 0]
ArcsFrom(d, b) ==
  LET leaving == SubSeq(d.arcs, Min(OutOf(d, b)), Max(OutOf(d, b)))
  IN  [k \in DOMAIN leaving |-> NewArc(leaving[k])]

ReadFrame ==
  /\ pc = "read" /\ ~ AllRead
  /\ frame' = NextFrame(frame)
  /\ LET d == in.functions[frame.of]
     IN functions' =
          CASE frame.kind = "function" -> Append(functions, NewFunction(frame.of))
            [] frame.kind = "blocks" ->
                 [functions EXCEPT ![Back].blocks = [b \in 1 .. d.blocks |-> 0]]
            [] frame.kind = "arcs" ->
                 [functions EXCEPT ![Back].arcs = @ \o ArcsFrom(d, frame.block)]
            [] frame.kind = "lines" -> functions
  /\ UNCHANGED << in, pc, fn, iterators, gcda >>

\* The file cannot be opened, or its preamble is not one: main goes on with
\* the next notes file.
Unreadable ==
  /\ pc = "read" /\ frame = FirstFrame
  /\ pc' = "failed"
  /\ UNCHANGED << in, frame, functions, fn, iterators, gcda >>

EndReading ==
  /\ pc = "read"
  /\ pc' = "function"
  /\ UNCHANGED << in, frame, functions, fn, iterators, gcda >>
-----------------------------------------------------------------------------
(***************************************************************************)
(* processFunctionCounters.  It is left early when the arcs run out before *)
(* the blocks do, or the branches before the branching blocks; what was    *)
(* assigned until then stays.                                              *)
(***************************************************************************)
Current == functions[fn]
arcs    == Current.arcs
blocks  == Current.blocks
Descr   == in.functions[Current.of]

IsFake(a)  == "fake" \in a.flags
\* Two arcs leave one block, and neither is FAKE: a conditional branch.
Forks(as, k) == /\ k < Len(as) /\ as[k].source = as[k + 1].source
                /\ ~ IsFake(as[k]) /\ ~ IsFake(as[k + 1])

\* The number at place j of a set of numbers in their order.
Nth(S, j) == CHOOSE k \in S : Cardinality({l \in S : l <= k}) = j

\* processBranches: what the coverage map counted at each branch instruction.
ForksOf(d) == {k \in DOMAIN d.arcs : Forks(d.arcs, k)}
Goes(d, k, direction) ==
  IF ("fall" \in d.arcs[k].flags) <=> (direction = "notTaken") THEN d.followed[k]
                                                               ELSE d.followed[k + 1]
BranchCounts(d, direction) ==
  LET counts == [j \in 1 .. Cardinality(ForksOf(d)) |-> Goes(d, Nth(ForksOf(d), j), direction)]
  IN  IF d.merged \in DOMAIN counts THEN RemoveAt(counts, d.merged) ELSE counts
WasExecuted(d) == Sum(d.followed, OutOf(d, 0))

NextFunction ==
  /\ pc' = "function" /\ fn' = fn + 1
  /\ block' = 0 /\ arc' = 1 /\ taken' = << >> /\ notTaken' = << >>

SlipUnusable == ~ Descr.mapped   \* the lists may be empty
Unusable     == blocks = << >> \/ arcs = << >> \/ ~ Descr.mapped

StartFunction ==
  /\ pc = "function" /\ fn <= Len(functions)
  /\ IF Unusable
     THEN NextFunction
     ELSE /\ pc' = "branches" /\ block' = 0 /\ arc' = 1
          /\ taken' = BranchCounts(Descr, "taken")
          /\ notTaken' = BranchCounts(Descr, "notTaken")
          /\ UNCHANGED fn
  /\ UNCHANGED << in, frame, functions, gcda >>

\* Where arcIterator stops in the search for an arc of the block.
Found  == {k \in arc .. Len(arcs) : arcs[k].source = block}
Here   == Min(Found)
IsLast == Here = Len(arcs)

\* Arc k gets the count c, which also reaches the block it leads to.
Assigned(f, k, c) ==
  [f EXCEPT !.arcs[k].counter = c, !.blocks[f.arcs[k].destination + 1] = @ + c]

BranchFails ==   \* no arc of this block, or no branch instruction left
  /\ pc = "branches"
  /\ \/ Found = {}
     \/ Found # {} /\ ~ IsLast /\ Forks(arcs, Here) /\ taken = << >>
  /\ NextFunction
  /\ UNCHANGED << in, frame, functions, gcda >>

SlipFallsFirst(k)  == TRUE   \* the flag is not looked at
FallsFirst(k)      == "fall" \in arcs[k].flags
ProcessBranch ==
  /\ pc = "branches" /\ Found # {} /\ ~ IsLast
  /\ Forks(arcs, Here) /\ taken # << >>
  /\ LET cs == IF FallsFirst(Here) THEN << Head(notTaken), Head(taken) >>
               ELSE << Head(taken), Head(notTaken) >>
     IN  functions' = [functions EXCEPT ![fn] =
                         Assigned(Assigned(@, Here, cs[1]), Here + 1, cs[2])]
  /\ taken' = Tail(taken) /\ notTaken' = Tail(notTaken)
  /\ block' = block + 1 /\ arc' = Here
  /\ UNCHANGED << in, pc, frame, fn, gcda >>

PassBranch ==
  /\ pc = "branches" /\ Found # {} /\ ~ IsLast
  /\ ~ Forks(arcs, Here)
  /\ block' = block + 1 /\ arc' = Here
  /\ UNCHANGED << in, pc, frame, functions, fn, taken, notTaken, gcda >>

\* The last arc ends the pass over the branches; the exit, which has none, is
\* not reached.  The first block counts the calls.
BranchesDone ==
  /\ pc = "branches" /\ Found # {} /\ IsLast
  /\ pc' = "simple" /\ block' = 0 /\ arc' = 1
  /\ functions' = [functions EXCEPT ![fn].blocks[1] = WasExecuted(Descr)]
  /\ UNCHANGED << in, frame, fn, taken, notTaken, gcda >>

SlipPasses(k) == arcs[k].source # arcs[k + 1].source   \* calls are forgotten
\* One arc leaves the block, or one that is followed and a FAKE one.
Passes(k) == \/ arcs[k].source # arcs[k + 1].source
             \/ IsFake(arcs[k + 1])

PropagateBlock ==
  /\ pc = "simple" /\ ~ IsLast
  /\ functions' =
       IF Passes(Here)
       THEN [functions EXCEPT ![fn] = Assigned(@, Here, blocks[block + 1])]
       ELSE functions
  /\ block' = block + 1 /\ arc' = Here
  /\ UNCHANGED << in, pc, frame, fn, taken, notTaken, gcda >>

\* The second pass ends where the first did; it never runs out of arcs.
PropagateLast ==
  /\ pc = "simple" /\ IsLast
  /\ functions' = [functions EXCEPT ![fn] = Assigned(@, Here, blocks[block + 1])]
  /\ NextFunction
  /\ UNCHANGED << in, frame, gcda >>

-----------------------------------------------------------------------------
(***************************************************************************)
(* writeGcdaFile.                                                          *)
(***************************************************************************)
memory == << in, frame, functions, iterators >>

OpenGcda ==
  /\ pc = "function" /\ fn > Len(functions)
  /\ pc' = "write" /\ fn' = 1
  /\ UNCHANGED << memory, gcda >>

OpenFails ==   \* the data file of an earlier run stays
  /\ pc = "function" /\ fn > Len(functions)
  /\ pc' = "failed"
  /\ UNCHANGED << memory, fn, gcda >>

SlipOffTree(a) == a.flags # {"tree"}
OffTree(a)     == a.flags \in {{}, {"fake"}, {"fall"}}
GetCounters(f) ==
  LET off == {k \in DOMAIN f.arcs : OffTree(f.arcs[k])}
  IN  [j \in 1 .. Cardinality(off) |-> f.arcs[Nth(off, j)].counter]
Total(cs) == SumFunction(cs)

\* getCounters starts its sum and maximum afresh for every function.
Summed(cs) == [gcda EXCEPT !.counters = @ + Len(cs), !.sum = Total(cs),
                           !.max = Max({0} \cup ToSet(cs))]

WriteFunction ==
  /\ pc = "write" /\ fn <= Len(functions)
  /\ LET cs == GetCounters(Current)
     IN  gcda' = [Summed(cs) EXCEPT !.written = Append(@, [of |-> Current.of, counters |-> cs])]
  /\ fn' = fn + 1
  /\ UNCHANGED << memory, pc >>

LoseFunction ==   \* a write fails; an error is printed and the next function follows
  /\ pc = "write" /\ fn <= Len(functions)
  /\ gcda' = Summed(GetCounters(Current))
  /\ fn' = fn + 1
  /\ UNCHANGED << memory, pc >>

WriteSummary ==
  /\ pc = "write" /\ fn > Len(functions)
  /\ pc' = "written"
  /\ UNCHANGED << memory, fn, gcda >>

Next ==
  \/ Unreadable \/ ReadFrame \/ EndReading \/ StartFunction
  \/ BranchFails \/ ProcessBranch \/ PassBranch \/ BranchesDone
  \/ PropagateBlock \/ PropagateLast
  \/ OpenGcda \/ OpenFails \/ WriteFunction \/ LoseFunction \/ WriteSummary

Spec == Init /\ [][Next]_vars
-----------------------------------------------------------------------------
ArcSet   == [source : Nat, destination : Nat, flags : SUBSET {"fake", "fall", "tree"},
             counter : Nat]
TypeOK ==
  /\ in \in InputType
  /\ pc \in {"read", "function", "branches", "simple", "write", "written", "failed"}
  /\ frame \in [kind : {"function", "blocks", "arcs", "lines"},
                of : 1 .. Len(in.functions) + 1, block : Nat]
  /\ functions \in Seq([of : 1 .. Len(in.functions), blocks : Seq(Nat), arcs : Seq(ArcSet)])
  /\ fn \in 1 .. Len(functions) + 1
  /\ pc \in {"branches", "simple"} => block < Len(blocks) /\ arc \in DOMAIN arcs
  /\ {taken, notTaken} \subseteq Seq(Nat) /\ Len(taken) = Len(notTaken)
  /\ gcda \in [written : Seq([of : Nat, counters : Seq(Nat)]), counters : Nat,
              sum : Nat, max : Nat]

\* What happened: the number of times a block was entered.
Entered(d, b) == IF b = 0 THEN WasExecuted(d) ELSE Sum(d.followed, Into(d, b))

\* The graphs the passes are made for: no block has more than two arcs, and
\* when the second of two is FAKE it is never followed.
Beside(d) == {k \in 1 .. Len(d.arcs) - 1 : d.arcs[k].source = d.arcs[k + 1].source}
Binary(d) == \A k \in Beside(d) : k + 1 \notin Beside(d)
Quiet(d)  == \A k \in Beside(d) : IsFake(d.arcs[k + 1]) => d.followed[k + 1] = 0

\* Where nothing is lost: arcs leave every block but the exit, the last arc is
\* alone and the first of two is not FAKE; every other arc leads forward or
\* to a block with a conditional branch; each conditional branch has its
\* instruction.
ForkAt(d, b) == \E k \in ForksOf(d) : d.arcs[k].source = b
Regular(d) ==
  /\ Binary(d) /\ Quiet(d)
  /\ Sources(d) = 0 .. d.blocks - 2
  /\ \A k \in Beside(d) : k + 1 < Len(d.arcs) /\ ~ IsFake(d.arcs[k])
  /\ \A k \in DOMAIN d.arcs :
       LET a == d.arcs[k] IN
       a.source < a.destination \/ ForkAt(d, a.source) \/ ForkAt(d, a.destination)
  /\ d.merged = 0

Processed == pc \in {"write", "written"}

(* Branch counts of the coverage map and the number of calls are enough:   *)
(* every arc of a regular graph ends up with the number of times it was    *)
(* followed and every block with the number of times it was entered; a     *)
(* function without a coverage map keeps zeros.  Two passes over three     *)
(* lists that only agree by their order must fit together.                 *)
ArcsExact ==
  Processed /\ AllRead =>
    \A i \in DOMAIN functions :
      LET f == functions[i]
          d == in.functions[f.of]
      IN  /\ d.mapped /\ Regular(d) =>
               /\ \A k \in DOMAIN f.arcs : f.arcs[k].counter = d.followed[k]
               /\ \A b \in DOMAIN f.blocks : f.blocks[b] = Entered(d, b - 1)
          /\ ~ d.mapped => \A k \in DOMAIN f.arcs : f.arcs[k].counter = 0

(* gcov is never told of executions that did not happen, wherever the      *)
(* notes are cut off and whatever else is wrong with the graph: an early   *)
(* return, or a counter passed on before it is complete, can only lose     *)
(* some.  (A call that does not return but has a FAKE arc would be counted *)
(* as if it did; such graphs are left out.)                                *)
NeverMore ==
  \A i \in DOMAIN functions :
    LET f == functions[i]
        d == in.functions[f.of]
    IN  Binary(d) /\ Quiet(d) /\ d.merged = 0 =>
          /\ \A k \in DOMAIN f.arcs : f.arcs[k].counter <= d.followed[k]
          /\ \A b \in DOMAIN f.blocks : f.blocks[b] <= Entered(d, b - 1)

(* A data file no write of which failed holds, for every function of the   *)
(* notes, the counts of exactly the arcs off the spanning tree, in order,  *)
(* and its summary counts them.                                            *)
GcdaExact ==
  pc = "written" /\ AllRead /\ Len(gcda.written) = Len(functions) =>
    /\ gcda.counters = Total([i \in DOMAIN gcda.written |-> Len(gcda.written[i].counters)])
    /\ \A i \in DOMAIN in.functions :
         LET d   == in.functions[i]
             off == {k \in DOMAIN d.arcs : "tree" \notin d.arcs[k].flags}
             Rank(k) == Cardinality({l \in off : l <= k})
         IN  d.mapped /\ Regular(d) =>
               /\ Len(gcda.written[i].counters) = Cardinality(off)
               /\ \A k \in off : gcda.written[i].counters[Rank(k)] = d.followed[k]
=============================================================================
