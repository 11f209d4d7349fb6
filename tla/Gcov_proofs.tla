----------------------------- MODULE Gcov_proofs -----------------------------
(***************************************************************************)
(* Proofs about Gcov for every notes file, every execution of its          *)
(* functions and every place where the notes may be cut off.               *)
(***************************************************************************)
EXTENDS Gcov, FiniteLemmas, SequenceTheorems, TLAPS

FunctionSet == [of : 1 .. Len(in.functions), blocks : Seq(Nat), arcs : Seq(ArcSet)]

(***************************************************************************)
(* What was read of a function d: the first of its arcs, never only some   *)
(* of the arcs of a block, and its blocks before any of its arcs.          *)
(***************************************************************************)
PartOf(f, d) ==
  /\ Len(f.arcs) <= Len(d.arcs)
  /\ \A k \in DOMAIN f.arcs : /\ f.arcs[k].source = d.arcs[k].source
                              /\ f.arcs[k].destination = d.arcs[k].destination
                              /\ f.arcs[k].flags = d.arcs[k].flags
  /\ \A k \in DOMAIN d.arcs, l \in DOMAIN f.arcs :
       d.arcs[k].source <= d.arcs[l].source => k \in DOMAIN f.arcs
  /\ Len(f.blocks) = d.blocks \/ (f.blocks = << >> /\ f.arcs = << >>)

Whole(f, d) == Len(f.arcs) = Len(d.arcs) /\ Len(f.blocks) = d.blocks

Fresh(f) == /\ \A k \in DOMAIN f.arcs : f.arcs[k].counter = 0
            /\ \A b \in DOMAIN f.blocks : f.blocks[b] = 0

FrameSet == [kind : {"function", "blocks", "arcs", "lines"},
             of : 1 .. Len(in.functions) + 1, block : Nat]

\* The function that is being read, by the frame fr that is next.
Reading(fr, f, d) ==
  /\ fr.kind = "blocks" => f.blocks = << >> /\ f.arcs = << >>
  /\ fr.kind = "arcs" =>
       /\ Len(f.blocks) = d.blocks
       /\ \A k \in DOMAIN d.arcs : k \in DOMAIN f.arcs <=> d.arcs[k].source < fr.block
  /\ fr.kind = "lines" => Whole(f, d)

ReadState(fr, fs) ==
  /\ fr \in FrameSet
  /\ fr.kind # "function" => fr.of <= Len(in.functions)
  /\ fr.kind = "arcs" => fr.block \in Sources(in.functions[fr.of])
  /\ fs \in Seq(FunctionSet)
  /\ Len(fs) = IF fr.kind = "function" THEN fr.of - 1 ELSE fr.of
  /\ \A i \in DOMAIN fs :
       LET f == fs[i]
           d == in.functions[i]
       IN  /\ f.of = i /\ PartOf(f, d)
           /\ i < fr.of => Whole(f, d)
           /\ i = fr.of => Reading(fr, f, d)

ReadInv == ReadState(frame, functions)

(***************************************************************************)
(* The program counter and the lists in their types.                       *)
(***************************************************************************)
ControlInv ==
  /\ in \in Inputs
  /\ pc \in {"read", "function", "branches", "simple", "write", "written", "failed"}
  /\ fn \in 1 .. Len(functions) + 1
  /\ pc = "read" => fn = 1
  /\ taken \in Seq(Nat) /\ notTaken \in Seq(Nat) /\ Len(taken) = Len(notTaken)
  /\ gcda \in [written : Seq([of : Nat, counters : Seq(Nat)]), counters : Nat,
               sum : Nat, max : Nat]

(***************************************************************************)
(* The walk over the blocks of function f, at block b and arc a: every     *)
(* block passed has arcs, and the arcs of the blocks to come lie ahead of  *)
(* the iterator.  The second pass begins only where all blocks up to that  *)
(* of the last arc have arcs, and the last arc is the only one of its      *)
(* block; it does not get further than that block.                         *)
(***************************************************************************)
Walk(b, a, f, d) ==
  /\ d.mapped /\ f.blocks # << >> /\ f.arcs # << >>
  /\ b \in Nat /\ b < Len(f.blocks) /\ a \in DOMAIN f.arcs
  /\ \A c \in 0 .. b - 1 : \E k \in DOMAIN f.arcs : f.arcs[k].source = c
  /\ \A k \in DOMAIN f.arcs : f.arcs[k].source >= b => a <= k

Again(b, f) ==
  LET last == f.arcs[Len(f.arcs)].source
  IN  /\ b <= last
      /\ \A c \in 0 .. last : \E k \in DOMAIN f.arcs : f.arcs[k].source = c
      /\ \A k \in DOMAIN f.arcs : f.arcs[k].source = last => k = Len(f.arcs)

WalkInv ==
  pc \in {"branches", "simple"} =>
    /\ fn <= Len(functions)
    /\ Walk(block, arc, functions[fn], in.functions[fn])
    /\ pc = "simple" => Again(block, functions[fn])

TypesInv == ControlInv /\ ReadInv /\ WalkInv

(***************************************************************************)
(* The arcs of conditional branches, and how many such branches leave the  *)
(* blocks below b.                                                         *)
(***************************************************************************)
ForkArcs(d)      == ForksOf(d) \cup {k + 1 : k \in ForksOf(d)}
ForksBelow(d, b) == {k \in ForksOf(d) : d.arcs[k].source < b}

Sound(d) == Binary(d) /\ Quiet(d) /\ d.merged = 0

\* What the blocks count is what their arcs brought.
Counter(f)      == [k \in DOMAIN f.arcs |-> f.arcs[k].counter]
Balanced(f, B) ==
  \A b \in DOMAIN f.blocks \cap B : f.blocks[b] = Sum(Counter(f), Into(f, b - 1))

\* The counts that are left are those of the branches from block b on.
Left(b, list, d, direction) ==
  LET n == Cardinality(ForksBelow(d, b))
  IN  /\ Len(list) = Cardinality(ForksOf(d)) - n
      /\ \A j \in 1 .. Len(list) : list[j] = Goes(d, Nth(ForksOf(d), n + j), direction)

\* The first pass, at block b, with the lists tk and nt,
Branching(b, tk, nt, f, d) ==
  /\ \A k \in DOMAIN f.arcs :
       f.arcs[k].counter = IF f.arcs[k].source < b /\ k \in ForkArcs(d)
                           THEN d.followed[k] ELSE 0
  /\ Balanced(f, Nat)
  /\ Left(b, tk, d, "taken") /\ Left(b, nt, d, "notTaken")
  /\ Regular(d) /\ Whole(f, d) => b \in Sources(d)

\* and the second.
Propagating(b, f, d) ==
  /\ \A k \in DOMAIN f.arcs :
       /\ k \in ForkArcs(d) => f.arcs[k].counter = d.followed[k]
       /\ k \notin ForkArcs(d) /\ f.arcs[k].source >= b => f.arcs[k].counter = 0
       /\ k \notin ForkArcs(d) => f.arcs[k].counter <= d.followed[k]
       /\ Regular(d) /\ Whole(f, d) /\ f.arcs[k].source < b =>
            f.arcs[k].counter = d.followed[k]
  /\ f.blocks[1] = WasExecuted(d) /\ Balanced(f, Nat \ {1})

Below(f, d) == /\ \A k \in DOMAIN f.arcs : f.arcs[k].counter <= d.followed[k]
               /\ \A b \in DOMAIN f.blocks : f.blocks[b] <= Entered(d, b - 1)
Exact(f, d) == /\ \A k \in DOMAIN f.arcs : f.arcs[k].counter = d.followed[k]
               /\ \A b \in DOMAIN f.blocks : f.blocks[b] = Entered(d, b - 1)

Finished(f, d) ==
  /\ Sound(d) => Below(f, d)
  /\ ~ d.mapped => Fresh(f)
  /\ d.mapped /\ Regular(d) /\ Whole(f, d) => Exact(f, d)

\* Where the pass has come to function n.
CountState(p, n, b, tk, nt, fs) ==
  \A i \in DOMAIN fs :
    LET f == fs[i]
        d == in.functions[i]
    IN  /\ p = "read" \/ (p = "function" /\ n <= i) \/ (p \in {"branches", "simple"} /\ n < i)
             => Fresh(f)
        /\ p \in {"write", "written"} \/ (p \in {"function", "branches", "simple"} /\ i < n)
             => Finished(f, d)
        /\ p = "branches" /\ i = n /\ Sound(d) => Branching(b, tk, nt, f, d)
        /\ p = "simple" /\ i = n /\ Sound(d) => Propagating(b, f, d)
        /\ p = "failed" /\ Sound(d) => Below(f, d)

CountInv == CountState(pc, fn, block, taken, notTaken, functions)

(***************************************************************************)
(* What a function of the notes is: the types of its fields and the order  *)
(* of its arcs.                                                            *)
(***************************************************************************)
Graph(d) == d \in FunctionType /\ Ordered(d)

\* The functions of the notes file at hand are graphs.
LEMMA GraphOf ==
  ASSUME in \in Inputs
  PROVE  /\ in \in InputType /\ Len(in.functions) \in Nat
         /\ DOMAIN in.functions = 1 .. Len(in.functions)
         /\ \A i \in DOMAIN in.functions : Graph(in.functions[i])
<1>1. in \in InputType /\ \A f \in DOMAIN in.functions : Ordered(in.functions[f])
  BY InputAssumption
<1>2. in.functions \in Seq(FunctionType)
  BY <1>1 DEF InputType
<1>3. Len(in.functions) \in Nat /\ DOMAIN in.functions = 1 .. Len(in.functions)
  BY <1>2, LenProperties
<1>4. \A i \in DOMAIN in.functions : in.functions[i] \in FunctionType
  BY <1>2, <1>3, ElementOfSeq
<1>5. QED
  BY <1>1, <1>3, <1>4 DEF Graph

\* The fields of a graph and of its arcs.
LEMMA GraphTypes ==
  ASSUME NEW d, Graph(d)
  PROVE  /\ d.blocks \in Nat \ {0} /\ d.mapped \in BOOLEAN /\ d.merged \in Nat
         /\ d.arcs \in Seq(ArcType) /\ Len(d.arcs) \in Nat /\ DOMAIN d.arcs = 1 .. Len(d.arcs)
         /\ \A k \in DOMAIN d.arcs :
              /\ d.arcs[k] \in ArcType /\ d.arcs[k].source \in Nat
              /\ d.arcs[k].destination \in Nat /\ d.followed[k] \in Nat
              /\ d.arcs[k].flags \in SUBSET {"fake", "fall", "tree"}
              /\ d.arcs[k].source < d.blocks - 1
              /\ d.arcs[k].destination \in 1 .. d.blocks - 1
<1>1. /\ d.blocks \in Nat \ {0} /\ d.mapped \in BOOLEAN /\ d.merged \in Nat
      /\ d.arcs \in Seq(ArcType) /\ d.followed \in Seq(Nat)
  BY DEF Graph, FunctionType
<1>2. Len(d.arcs) \in Nat /\ DOMAIN d.arcs = 1 .. Len(d.arcs) /\ DOMAIN d.followed = DOMAIN d.arcs
  BY <1>1, LenProperties DEF Graph, Ordered
<1>3. \A k \in DOMAIN d.arcs : d.arcs[k] \in ArcType /\ d.followed[k] \in Nat
  <2>1. DOMAIN d.followed = 1 .. Len(d.followed)
    BY <1>1, LenProperties
  <2>2. QED
    BY <1>1, <1>2, <2>1, ElementOfSeq
<1>4. \A k \in DOMAIN d.arcs : /\ d.arcs[k].source < d.blocks - 1
                               /\ d.arcs[k].destination \in 1 .. d.blocks - 1
  BY DEF Graph, Ordered
<1>5. \A a \in ArcType : /\ a.source \in Nat /\ a.destination \in Nat
                         /\ a.flags \in SUBSET {"fake", "fall", "tree"}
  BY DEF ArcType
<1>6. QED
  BY <1>1, <1>2, <1>3, <1>4, <1>5

\* The arcs are in the order of their sources.
LEMMA GraphOrder ==
  ASSUME NEW d, Graph(d)
  PROVE  \A k, l \in DOMAIN d.arcs :
           /\ k <= l => d.arcs[k].source <= d.arcs[l].source
           /\ d.arcs[k].source < d.arcs[l].source => k < l
<1>1. \A k, l \in DOMAIN d.arcs : k < l => d.arcs[k].source <= d.arcs[l].source
  BY DEF Graph, Ordered
<1>2. \A k \in DOMAIN d.arcs : k \in Nat /\ d.arcs[k].source \in Nat
  BY GraphTypes
<1>3. QED
  BY <1>1, <1>2

(***************************************************************************)
(* The arcs of one block stand together.                                   *)
(***************************************************************************)
LEMMA OutRange ==
  ASSUME NEW d, Graph(d), NEW b, OutOf(d, b) # {}
  PROVE  LET lo == Min(OutOf(d, b))
             hi == Max(OutOf(d, b))
         IN  /\ lo \in 1 .. Len(d.arcs) /\ hi \in 1 .. Len(d.arcs) /\ lo <= hi
             /\ lo \in OutOf(d, b) /\ hi \in OutOf(d, b)
             /\ OutOf(d, b) = lo .. hi
<1> DEFINE lo == Min(OutOf(d, b))
           hi == Max(OutOf(d, b))
<1>1. /\ Len(d.arcs) \in Nat /\ DOMAIN d.arcs = 1 .. Len(d.arcs)
      /\ \A k \in DOMAIN d.arcs : d.arcs[k].source \in Nat
  BY GraphTypes
<1>2. OutOf(d, b) \subseteq 1 .. Len(d.arcs)
  BY <1>1 DEF OutOf
<1>3. lo \in OutOf(d, b) /\ \A k \in OutOf(d, b) : lo <= k
  <2>1. OutOf(d, b) \subseteq Int /\ 1 \in Int /\ \A k \in OutOf(d, b) : 1 <= k
    BY <1>1, <1>2
  <2>2. QED
    BY <2>1, MinFacts
<1>4. hi \in OutOf(d, b) /\ \A k \in OutOf(d, b) : hi >= k
  <2>1. OutOf(d, b) \subseteq Int /\ Len(d.arcs) \in Int /\ \A k \in OutOf(d, b) : k <= Len(d.arcs)
    BY <1>1, <1>2
  <2>2. QED
    BY <2>1, MaxFacts
<1> HIDE DEF lo, hi
<1>5. ASSUME NEW k \in lo .. hi PROVE k \in OutOf(d, b)
  <2>1. /\ k \in DOMAIN d.arcs /\ lo \in DOMAIN d.arcs /\ hi \in DOMAIN d.arcs
        /\ lo <= k /\ k <= hi
    BY <1>1, <1>2, <1>3, <1>4, <1>5
  <2>2. d.arcs[lo].source <= d.arcs[k].source /\ d.arcs[k].source <= d.arcs[hi].source
    BY <2>1, GraphOrder
  <2>3. d.arcs[lo].source = b /\ d.arcs[hi].source = b
    BY <1>3, <1>4 DEF OutOf
  <2>4. d.arcs[k].source = b
    BY <1>1, <2>1, <2>2, <2>3
  <2>5. QED
    BY <2>1, <2>4 DEF OutOf
<1>6. OutOf(d, b) \subseteq lo .. hi
  BY <1>1, <1>2, <1>3, <1>4
<1>7. lo \in 1 .. Len(d.arcs) /\ hi \in 1 .. Len(d.arcs) /\ lo <= hi
  BY <1>1, <1>2, <1>3, <1>4
<1>8. QED
  BY <1>3, <1>4, <1>5, <1>6, <1>7 DEF lo, hi

(***************************************************************************)
(* The frame of the arcs of a block gives them in their order, new.        *)
(***************************************************************************)
LEMMA ArcsFromFacts ==
  ASSUME NEW d, Graph(d), NEW b \in Sources(d)
  PROVE  LET lo == Min(OutOf(d, b))
             hi == Max(OutOf(d, b))
             s  == ArcsFrom(d, b)
         IN  /\ OutOf(d, b) = lo .. hi /\ lo <= hi
             /\ lo \in 1 .. Len(d.arcs) /\ hi \in 1 .. Len(d.arcs)
             /\ s \in Seq(ArcSet) /\ Len(s) = hi - lo + 1
             /\ \A j \in 1 .. hi - lo + 1 : s[j] = NewArc(d.arcs[lo + j - 1])
<1> DEFINE lo == Min(OutOf(d, b))
           hi == Max(OutOf(d, b))
           run == SubSeq(d.arcs, lo, hi)
<1>1. /\ Len(d.arcs) \in Nat /\ DOMAIN d.arcs = 1 .. Len(d.arcs) /\ d.arcs \in Seq(ArcType)
      /\ \A k \in DOMAIN d.arcs :
           /\ d.arcs[k].source \in Nat /\ d.arcs[k].destination \in Nat
           /\ d.arcs[k].flags \in SUBSET {"fake", "fall", "tree"}
  BY GraphTypes
<1>2. OutOf(d, b) # {}
  BY DEF Sources, OutOf
<1>3. /\ lo \in 1 .. Len(d.arcs) /\ hi \in 1 .. Len(d.arcs) /\ lo <= hi
      /\ OutOf(d, b) = lo .. hi
  BY <1>2, OutRange
<1>4. ArcsFrom(d, b) = [k \in DOMAIN run |-> NewArc(run[k])]
  BY DEF ArcsFrom
<1> HIDE DEF lo, hi
<1>5. /\ run \in Seq(ArcType) /\ Len(run) = hi - lo + 1
      /\ \A j \in 1 .. hi - lo + 1 : run[j] = d.arcs[lo + j - 1]
  <2>1. lo \in Int /\ hi \in Int /\ \A j \in lo .. hi : d.arcs[j] \in ArcType
    <3>1. \A j \in 1 .. Len(d.arcs) : d.arcs[j] \in ArcType
      BY <1>1, ElementOfSeq
    <3>2. QED
      BY <1>1, <1>3, <3>1
  <2>2. QED
    BY <1>1, <1>3, <2>1, SubSeqProperties
<1>6. DOMAIN run = 1 .. hi - lo + 1
  BY <1>5, LenProperties
<1> HIDE DEF run
<1> DEFINE s == ArcsFrom(d, b)
<1>7. \A j \in 1 .. hi - lo + 1 : s[j] = NewArc(d.arcs[lo + j - 1]) /\ s[j] \in ArcSet
  <2>1. ASSUME NEW j \in 1 .. hi - lo + 1
        PROVE  s[j] = NewArc(d.arcs[lo + j - 1]) /\ s[j] \in ArcSet
    <3>1. s[j] = NewArc(d.arcs[lo + j - 1])
      BY <1>4, <1>5, <1>6
    <3>2. lo + j - 1 \in 1 .. Len(d.arcs)
      BY <1>1, <1>3
    <3>3. NewArc(d.arcs[lo + j - 1]) \in ArcSet
      BY <1>1, <3>2 DEF NewArc, ArcSet
    <3>4. QED
      BY <3>1, <3>3
  <2>2. QED
    BY <2>1
<1>8. hi - lo + 1 \in Nat /\ s = [j \in 1 .. hi - lo + 1 |-> NewArc(run[j])]
  BY <1>1, <1>3, <1>4, <1>6
<1>9. s \in Seq(ArcSet) /\ Len(s) = hi - lo + 1
  BY <1>7, <1>8
<1>10. QED
  BY <1>3, <1>7, <1>9 DEF lo, hi

(***************************************************************************)
(* Functions in memory.  One may be changed in its counters only: it keeps *)
(* its shape.                                                              *)
(***************************************************************************)
SameShape(f, g) ==
  /\ g.of = f.of /\ DOMAIN g.arcs = DOMAIN f.arcs /\ DOMAIN g.blocks = DOMAIN f.blocks
  /\ Len(g.arcs) = Len(f.arcs) /\ Len(g.blocks) = Len(f.blocks)
  /\ \A k \in DOMAIN f.arcs : /\ g.arcs[k].source = f.arcs[k].source
                              /\ g.arcs[k].destination = f.arcs[k].destination
                              /\ g.arcs[k].flags = f.arcs[k].flags

\* The fields of a function and of its arcs.
LEMMA FunctionTypes ==
  ASSUME NEW f \in FunctionSet
  PROVE  /\ f.of \in 1 .. Len(in.functions) /\ f.blocks \in Seq(Nat) /\ f.arcs \in Seq(ArcSet)
         /\ Len(f.arcs) \in Nat /\ DOMAIN f.arcs = 1 .. Len(f.arcs)
         /\ Len(f.blocks) \in Nat /\ DOMAIN f.blocks = 1 .. Len(f.blocks)
         /\ \A b \in DOMAIN f.blocks : f.blocks[b] \in Nat
         /\ \A k \in DOMAIN f.arcs :
              /\ f.arcs[k] \in ArcSet /\ f.arcs[k].source \in Nat
              /\ f.arcs[k].destination \in Nat /\ f.arcs[k].counter \in Nat
<1>1. f.of \in 1 .. Len(in.functions) /\ f.blocks \in Seq(Nat) /\ f.arcs \in Seq(ArcSet)
  BY DEF FunctionSet
<1>2. /\ Len(f.arcs) \in Nat /\ DOMAIN f.arcs = 1 .. Len(f.arcs)
      /\ Len(f.blocks) \in Nat /\ DOMAIN f.blocks = 1 .. Len(f.blocks)
  BY <1>1, LenProperties
<1>3. /\ \A b \in DOMAIN f.blocks : f.blocks[b] \in Nat
      /\ \A k \in DOMAIN f.arcs : f.arcs[k] \in ArcSet
  BY <1>1, <1>2, ElementOfSeq
<1>4. \A a \in ArcSet : a.source \in Nat /\ a.destination \in Nat /\ a.counter \in Nat
  BY DEF ArcSet
<1>5. QED
  BY <1>1, <1>2, <1>3, <1>4

\* A sequence changed at one place.
LEMMA SeqChange ==
  ASSUME NEW S, NEW s \in Seq(S), NEW k \in DOMAIN s, NEW v \in S
  PROVE  LET t == [s EXCEPT ![k] = v]
         IN  /\ t \in Seq(S) /\ Len(t) = Len(s) /\ DOMAIN t = DOMAIN s
             /\ \A j \in DOMAIN s : t[j] = IF j = k THEN v ELSE s[j]
<1> DEFINE t == [s EXCEPT ![k] = v]
<1>1. DOMAIN s = 1 .. Len(s) /\ Len(s) \in Nat /\ \A j \in 1 .. Len(s) : s[j] \in S
  BY LenProperties, ElementOfSeq
<1>2. /\ DOMAIN t = DOMAIN s
      /\ \A j \in DOMAIN s : t[j] = IF j = k THEN v ELSE s[j]
  OBVIOUS
<1>3. t = [j \in 1 .. Len(s) |-> IF j = k THEN v ELSE s[j]]
  BY <1>1
<1>4. t \in Seq(S) /\ Len(t) = Len(s)
  BY <1>1, <1>3
<1>5. QED
  BY <1>2, <1>4

(***************************************************************************)
(* What assigning a count changes.                                         *)
(***************************************************************************)
LEMMA AssignedFacts ==
  ASSUME NEW f \in FunctionSet, NEW k \in DOMAIN f.arcs, NEW c \in Nat,
         f.arcs[k].destination + 1 \in DOMAIN f.blocks
  PROVE  LET g == Assigned(f, k, c)
             b == f.arcs[k].destination + 1
         IN  /\ g \in FunctionSet /\ SameShape(f, g)
             /\ \A j \in DOMAIN f.arcs :
                  g.arcs[j].counter = IF j = k THEN c ELSE f.arcs[j].counter
             /\ \A j \in DOMAIN f.blocks :
                  g.blocks[j] = IF j = b THEN f.blocks[j] + c ELSE f.blocks[j]
<1> DEFINE g  == Assigned(f, k, c)
           b  == f.arcs[k].destination + 1
           a  == [f.arcs[k] EXCEPT !.counter = c]
           as == [f.arcs EXCEPT ![k] = a]
           bs == [f.blocks EXCEPT ![b] = f.blocks[b] + c]
<1>1. /\ f.blocks \in Seq(Nat) /\ f.arcs \in Seq(ArcSet)
      /\ f.arcs[k] \in ArcSet /\ f.blocks[b] \in Nat
  BY FunctionTypes
<1>2. a \in ArcSet /\ a.counter = c /\ a.source = f.arcs[k].source
      /\ a.destination = f.arcs[k].destination /\ a.flags = f.arcs[k].flags
  BY <1>1 DEF ArcSet
<1>3. g = [f EXCEPT !.arcs = as, !.blocks = bs]
  BY DEF Assigned
<1>4. g.of = f.of /\ g.arcs = as /\ g.blocks = bs
  BY <1>3 DEF FunctionSet
<1>5. /\ as \in Seq(ArcSet) /\ Len(as) = Len(f.arcs) /\ DOMAIN as = DOMAIN f.arcs
      /\ \A j \in DOMAIN f.arcs : as[j] = IF j = k THEN a ELSE f.arcs[j]
  <2> HIDE DEF a
  <2>1. QED
    BY <1>1, <1>2, SeqChange
<1>6. /\ bs \in Seq(Nat) /\ Len(bs) = Len(f.blocks) /\ DOMAIN bs = DOMAIN f.blocks
      /\ \A j \in DOMAIN f.blocks : bs[j] = IF j = b THEN f.blocks[b] + c ELSE f.blocks[j]
  <2>1. f.blocks[b] + c \in Nat /\ b \in DOMAIN f.blocks
    BY <1>1
  <2> HIDE DEF b
  <2>2. QED
    BY <1>1, <2>1, SeqChange
<1> HIDE DEF a, as, bs
<1>7. g \in FunctionSet
  <2>1. g = [of |-> f.of, blocks |-> bs, arcs |-> as]
    BY <1>3 DEF FunctionSet
  <2>2. f.of \in 1 .. Len(in.functions)
    BY FunctionTypes
  <2>3. as \in Seq(ArcSet) /\ bs \in Seq(Nat)
    BY <1>5, <1>6
  <2>4. [of |-> f.of, blocks |-> bs, arcs |-> as] \in FunctionSet
    BY <2>2, <2>3 DEF FunctionSet
  <2>5. QED
    BY <2>1, <2>4
<1> HIDE DEF g, b
<1>8. \A j \in DOMAIN f.arcs :
        /\ g.arcs[j].source = f.arcs[j].source
        /\ g.arcs[j].destination = f.arcs[j].destination
        /\ g.arcs[j].flags = f.arcs[j].flags
        /\ g.arcs[j].counter = IF j = k THEN c ELSE f.arcs[j].counter
  BY <1>2, <1>4, <1>5
<1>9. SameShape(f, g)
  BY <1>4, <1>5, <1>6, <1>8 DEF SameShape
<1>10. QED
  BY <1>4, <1>6, <1>7, <1>8, <1>9 DEF g, b

\* The shape tells whether a function is a part of a graph, or all of it.
LEMMA ShapeKept ==
  ASSUME NEW f \in FunctionSet, NEW g \in FunctionSet, NEW d, SameShape(f, g)
  PROVE  /\ PartOf(f, d) => PartOf(g, d)
         /\ Whole(f, d) <=> Whole(g, d)
<1>1. /\ DOMAIN g.arcs = DOMAIN f.arcs /\ Len(g.arcs) = Len(f.arcs) /\ Len(g.blocks) = Len(f.blocks)
      /\ \A k \in DOMAIN f.arcs : /\ g.arcs[k].source = f.arcs[k].source
                                  /\ g.arcs[k].destination = f.arcs[k].destination
                                  /\ g.arcs[k].flags = f.arcs[k].flags
  BY DEF SameShape
<1>2. f.arcs = << >> /\ f.blocks = << >> => g.arcs = << >> /\ g.blocks = << >>
  <2>1. f.arcs = << >> /\ f.blocks = << >> => Len(f.arcs) = 0 /\ Len(f.blocks) = 0
    BY EmptySeq
  <2>2. g.arcs \in Seq(ArcSet) /\ g.blocks \in Seq(Nat)
    BY FunctionTypes
  <2>3. QED
    BY <1>1, <2>1, <2>2, EmptySeq
<1>3. PartOf(f, d) => PartOf(g, d)
  BY <1>1, <1>2 DEF PartOf
<1>4. QED
  BY <1>1, <1>3 DEF Whole

\* Changes of shape one after the other, and none.
LEMMA ShapeChain ==
  ASSUME NEW f, NEW g, NEW h, SameShape(f, g), SameShape(g, h)
  PROVE  SameShape(f, h)
BY DEF SameShape

(***************************************************************************)
(* Reading a frame keeps ReadInv, kind by kind.                            *)
(***************************************************************************)
\* Frames are made of a kind, a function and a block.
LEMMA FrameFacts ==
  ASSUME NEW k \in {"function", "blocks", "arcs", "lines"}, NEW i \in 1 .. Len(in.functions) + 1,
         NEW b \in Nat
  PROVE  /\ Frame(k, i, b) \in FrameSet /\ Frame(k, i, b).kind = k
         /\ Frame(k, i, b).of = i /\ Frame(k, i, b).block = b
BY DEF Frame, FrameSet

\* Where the file begins, nothing is read.
LEMMA ReadInit == ASSUME Init PROVE ReadInv
<1>1. in \in Inputs /\ frame = Frame("function", 1, 0) /\ functions = << >>
  BY DEF Init, FirstFrame
<1>2. 1 \in 1 .. Len(in.functions) + 1
  BY <1>1, GraphOf
<1>3. frame \in FrameSet /\ frame.kind = "function" /\ frame.of = 1
  BY <1>1, <1>2, FrameFacts
<1>4. functions \in Seq(FunctionSet) /\ Len(functions) = 0 /\ DOMAIN functions = {}
  BY <1>1
<1>5. QED
  BY <1>3, <1>4 DEF ReadInv, ReadState

(***************************************************************************)
(* The last function may be replaced, and the frame with it, when the      *)
(* function fits the frame.                                                *)
(***************************************************************************)
LEMMA ReadReplace ==
  ASSUME in \in Inputs, NEW fr, NEW fs, ReadState(fr, fs),
         NEW gr \in FrameSet, NEW gs \in Seq(FunctionSet),
         gr.of \in DOMAIN in.functions, gr.kind # "function",
         gr.kind = "arcs" => gr.block \in Sources(in.functions[gr.of]),
         Len(gs) = gr.of,
         \A i \in 1 .. gr.of - 1 : /\ i \in DOMAIN fs /\ gs[i] = fs[i]
                                   /\ i < fr.of \/ (i = fr.of /\ fr.kind = "lines"),
         gs[gr.of].of = gr.of, PartOf(gs[gr.of], in.functions[gr.of]),
         Reading(gr, gs[gr.of], in.functions[gr.of])
  PROVE  ReadState(gr, gs)
<1>1. /\ Len(in.functions) \in Nat /\ DOMAIN in.functions = 1 .. Len(in.functions)
  BY GraphOf
<1>2. DOMAIN gs = 1 .. gr.of
  BY LenProperties
<1>3. ASSUME NEW i \in DOMAIN gs
      PROVE  /\ gs[i].of = i /\ PartOf(gs[i], in.functions[i])
             /\ i < gr.of => Whole(gs[i], in.functions[i])
             /\ i = gr.of => Reading(gr, gs[i], in.functions[i])
  <2>1. CASE i = gr.of
    BY <2>1, <1>1
  <2>2. CASE i # gr.of
    <3>1. i \in 1 .. gr.of - 1 /\ i < gr.of
      BY <1>1, <1>2, <2>2
    <3>2. gs[i] = fs[i] /\ i \in DOMAIN fs /\ (i < fr.of \/ (i = fr.of /\ fr.kind = "lines"))
      BY <3>1
    <3>3. /\ fs[i].of = i /\ PartOf(fs[i], in.functions[i])
          /\ i < fr.of => Whole(fs[i], in.functions[i])
          /\ i = fr.of => Reading(fr, fs[i], in.functions[i])
      BY <3>2 DEF ReadState
    <3>4. i = fr.of /\ fr.kind = "lines" => Whole(fs[i], in.functions[i])
      BY <3>3 DEF Reading
    <3>5. QED
      BY <2>2, <3>2, <3>3, <3>4
  <2>3. QED
    BY <2>1, <2>2
<1>4. QED
  BY <1>1, <1>3 DEF ReadState

\* The frame of a function starts a new one.
LEMMA ReadNewFunction ==
  ASSUME in \in Inputs, ReadInv, ReadFrame, frame.kind = "function"
  PROVE  ReadState(frame', functions')
<1> DEFINE m == frame.of
           f == NewFunction(m)
<1>1. /\ ~ AllRead /\ frame' = NextFrame(frame) /\ functions' = Append(functions, f)
  BY DEF ReadFrame
<1>2. /\ Len(in.functions) \in Nat /\ DOMAIN in.functions = 1 .. Len(in.functions)
      /\ \A i \in DOMAIN in.functions : Graph(in.functions[i])
  BY GraphOf
<1>3. frame \in FrameSet /\ m \in 1 .. Len(in.functions)
  <2>1. frame \in FrameSet
    BY DEF ReadInv, ReadState
  <2>2. m \in 1 .. Len(in.functions) + 1
    BY <2>1 DEF FrameSet
  <2>3. QED
    BY <1>1, <1>2, <2>1, <2>2 DEF AllRead
<1>4. frame' = Frame("blocks", m, 0)
  BY <1>1 DEF NextFrame
<1>5. frame' \in FrameSet /\ frame'.kind = "blocks" /\ frame'.of = m
  BY <1>2, <1>3, <1>4, FrameFacts
<1>6. /\ functions \in Seq(FunctionSet) /\ Len(functions) = m - 1
      /\ DOMAIN functions = 1 .. m - 1
  BY LenProperties DEF ReadInv, ReadState
<1>7. f \in FunctionSet /\ f.of = m /\ f.blocks = << >> /\ f.arcs = << >>
  BY <1>3 DEF NewFunction, FunctionSet
<1> HIDE DEF f
<1>8. /\ functions' \in Seq(FunctionSet) /\ Len(functions') = m
      /\ functions'[m] = f /\ \A i \in 1 .. m - 1 : functions'[i] = functions[i]
  BY <1>1, <1>3, <1>6, <1>7, AppendProperties
<1>9. PartOf(f, in.functions[m])
  <2>1. Graph(in.functions[m])
    BY <1>2, <1>3
  <2>2. Len(in.functions[m].arcs) \in Nat
    BY <2>1, GraphTypes
  <2>3. Len(f.arcs) = 0 /\ DOMAIN f.arcs = {}
    BY <1>7
  <2>4. QED
    BY <1>7, <2>2, <2>3 DEF PartOf
<1>10. Reading(frame', f, in.functions[m])
  BY <1>5, <1>7 DEF Reading
<1>11. \A i \in 1 .. m - 1 : i \in DOMAIN functions /\ functions'[i] = functions[i] /\ i < m
  BY <1>3, <1>6, <1>8
<1> HIDE DEF m
<1>12. /\ frame'.of \in DOMAIN in.functions /\ frame'.kind # "function" /\ frame'.kind # "arcs"
       /\ Len(functions') = frame'.of
       /\ \A i \in 1 .. frame'.of - 1 : /\ i \in DOMAIN functions /\ functions'[i] = functions[i]
                                        /\ i < frame.of
  BY <1>2, <1>3, <1>5, <1>8, <1>11 DEF m
<1>13. /\ functions'[frame'.of].of = frame'.of
       /\ PartOf(functions'[frame'.of], in.functions[frame'.of])
       /\ Reading(frame', functions'[frame'.of], in.functions[frame'.of])
  BY <1>5, <1>7, <1>8, <1>9, <1>10
<1>14. ReadState(frame, functions)
  BY DEF ReadInv
<1>15. QED
  BY <1>5, <1>8, <1>12, <1>13, <1>14, ReadReplace

\* The function being read, and where its next frame takes the reading.
LEMMA ReadingFacts ==
  ASSUME in \in Inputs, ReadInv, frame.kind \in {"blocks", "arcs", "lines"}
  PROVE  LET m == frame.of
             d == in.functions[m]
         IN  /\ frame \in FrameSet /\ m \in 1 .. Len(in.functions) /\ m \in DOMAIN in.functions
             /\ Graph(d) /\ Len(functions) = m /\ m \in DOMAIN functions
             /\ functions \in Seq(FunctionSet) /\ DOMAIN functions = 1 .. m
             /\ functions[m] \in FunctionSet /\ functions[m].of = m
             /\ PartOf(functions[m], d) /\ Reading(frame, functions[m], d)
             /\ Sources(d) \subseteq Nat /\ \A k \in DOMAIN d.arcs : d.arcs[k].source \in Sources(d)
<1> DEFINE m == frame.of
           d == in.functions[m]
<1>1. /\ Len(in.functions) \in Nat /\ DOMAIN in.functions = 1 .. Len(in.functions)
      /\ \A i \in DOMAIN in.functions : Graph(in.functions[i])
  BY GraphOf
<1>2. ReadState(frame, functions) /\ frame.kind # "function"
  BY DEF ReadInv
<1>3. frame \in FrameSet /\ m \in 1 .. Len(in.functions)
  BY <1>1, <1>2 DEF FrameSet, ReadState
<1>4. functions \in Seq(FunctionSet) /\ Len(functions) = m
  BY <1>2 DEF ReadState
<1>5. DOMAIN functions = 1 .. m /\ m \in DOMAIN functions
  BY <1>3, <1>4, LenProperties
<1>6. functions[m] \in FunctionSet
  BY <1>4, <1>5, ElementOfSeq
<1>7. /\ functions[m].of = m /\ PartOf(functions[m], d) /\ Reading(frame, functions[m], d)
  BY <1>2, <1>5 DEF ReadState
<1>8. Graph(d)
  BY <1>1, <1>3
<1>9. \A k \in DOMAIN d.arcs : d.arcs[k].source \in Nat
  BY <1>8, GraphTypes
<1>10. QED
  BY <1>1, <1>3, <1>4, <1>5, <1>6, <1>7, <1>8, <1>9 DEF Sources

\* After its blocks, the arcs of a function from block b on are next.
LEMMA NextFrameFacts ==
  ASSUME in \in Inputs, ReadInv, frame.kind \in {"blocks", "arcs"}
  PROVE  LET m  == frame.of
             d  == in.functions[m]
             fr == NextFrame(frame)
             Ahead(b) == frame.kind = "blocks" \/ frame.block < b
         IN  /\ fr \in FrameSet /\ fr.of = m
             /\ \/ fr.kind = "lines" /\ \A b \in Sources(d) : ~ Ahead(b)
                \/ /\ fr.kind = "arcs" /\ fr.block \in Sources(d) /\ Ahead(fr.block)
                   /\ \A b \in Sources(d) : Ahead(b) => fr.block <= b
<1> DEFINE m  == frame.of
           d  == in.functions[m]
           Ahead(b) == frame.kind = "blocks" \/ frame.block < b
           rest == {b \in Sources(d) : Ahead(b)}
<1>1. /\ m \in 1 .. Len(in.functions) /\ Graph(d) /\ Sources(d) \subseteq Nat
      /\ Len(in.functions) \in Nat
  BY ReadingFacts, GraphOf
<1>2. m \in 1 .. Len(in.functions) + 1
  BY <1>1
<1>3. NextFrame(frame) = IF rest = {} THEN Frame("lines", m, 0) ELSE Frame("arcs", m, Min(rest))
  BY DEF NextFrame
<1>4. CASE rest = {}
  BY <1>2, <1>3, <1>4, FrameFacts
<1>5. CASE rest # {}
  <2>1. rest \subseteq Int /\ 0 \in Int /\ \A b \in rest : 0 <= b
    BY <1>1
  <2>2. Min(rest) \in rest /\ \A b \in rest : Min(rest) <= b
    <3> HIDE DEF rest
    <3>1. QED
      BY <1>5, <2>1, MinFacts
  <2>3. Min(rest) \in Nat
    BY <1>1, <2>2
  <2>4. NextFrame(frame) = Frame("arcs", m, Min(rest))
    BY <1>3, <1>5
  <2>5. LET fr == NextFrame(frame)
        IN  fr \in FrameSet /\ fr.kind = "arcs" /\ fr.of = m /\ fr.block = Min(rest)
    <3> HIDE DEF rest
    <3>1. QED
      BY <1>2, <2>3, <2>4, FrameFacts
  <2>6. QED
    BY <2>2, <2>5
<1>6. QED
  BY <1>4, <1>5

\* The frame with the blocks gives them a counter each.
LEMMA ReadBlocks ==
  ASSUME in \in Inputs, ReadInv, ReadFrame, frame.kind = "blocks"
  PROVE  ReadState(frame', functions')
<1> DEFINE m == frame.of
           d == in.functions[m]
           z == [b \in 1 .. d.blocks |-> 0]
           g == [functions[m] EXCEPT !.blocks = z]
<1>1. /\ frame \in FrameSet /\ m \in 1 .. Len(in.functions) /\ m \in DOMAIN in.functions
      /\ Graph(d) /\ Len(functions) = m /\ m \in DOMAIN functions
      /\ functions \in Seq(FunctionSet) /\ DOMAIN functions = 1 .. m
      /\ functions[m] \in FunctionSet /\ functions[m].of = m
      /\ PartOf(functions[m], d) /\ Reading(frame, functions[m], d)
      /\ Sources(d) \subseteq Nat /\ \A k \in DOMAIN d.arcs : d.arcs[k].source \in Sources(d)
  BY ReadingFacts
<1>2. frame' = NextFrame(frame) /\ functions' = [functions EXCEPT ![m] = g]
  BY <1>1 DEF ReadFrame, Back
<1>3. functions[m].arcs = << >>
  BY <1>1 DEF Reading
<1>4. /\ d.blocks \in Nat \ {0} /\ Len(d.arcs) \in Nat /\ DOMAIN d.arcs = 1 .. Len(d.arcs)
  BY <1>1, GraphTypes
<1>5. z \in Seq(Nat) /\ Len(z) = d.blocks
  BY <1>4
<1>6. g \in FunctionSet /\ g.of = m /\ g.arcs = << >> /\ g.blocks = z
  <2> HIDE DEF z
  <2>1. functions[m] \in [of : 1 .. Len(in.functions), blocks : Seq(Nat), arcs : Seq(ArcSet)]
    BY <1>1 DEF FunctionSet
  <2>2. QED
    BY <1>1, <1>3, <1>5, <2>1 DEF FunctionSet
<1> HIDE DEF z, g
<1>7. /\ functions' \in Seq(FunctionSet) /\ Len(functions') = m
      /\ functions'[m] = g /\ \A i \in 1 .. m - 1 : functions'[i] = functions[i]
  <2>1. /\ functions' \in Seq(FunctionSet) /\ Len(functions') = Len(functions)
        /\ \A i \in DOMAIN functions : functions'[i] = IF i = m THEN g ELSE functions[i]
    BY <1>1, <1>2, <1>6, SeqChange
  <2>2. \A i \in 1 .. m - 1 : i \in DOMAIN functions /\ i # m
    BY <1>1
  <2>3. QED
    BY <1>1, <2>1, <2>2
<1>8. PartOf(g, d)
  <2>1. Len(g.arcs) = 0 /\ DOMAIN g.arcs = {}
    BY <1>6
  <2>2. QED
    BY <1>4, <1>5, <1>6, <2>1 DEF PartOf
<1> DEFINE fr == frame'
<1>9. /\ fr \in FrameSet /\ fr.of = m
      /\ \/ fr.kind = "lines" /\ \A b \in Sources(d) : FALSE
         \/ /\ fr.kind = "arcs" /\ fr.block \in Sources(d)
            /\ \A b \in Sources(d) : fr.block <= b
  BY <1>2, NextFrameFacts
<1>10. Reading(fr, g, d)
  <2>1. CASE fr.kind = "lines"
    <3>1. DOMAIN d.arcs = {}
      BY <1>1, <1>9, <2>1
    <3>2. Len(d.arcs) = 0
      <4>1. Len(d.arcs) \in Nat /\ 1 \notin 1 .. Len(d.arcs)
        BY <1>4, <3>1
      <4>2. QED
        BY ONLY <4>1
    <3>3. Len(g.arcs) = 0
      BY <1>6
    <3>4. QED
      BY <1>5, <1>6, <2>1, <3>2, <3>3 DEF Reading, Whole
  <2>2. CASE fr.kind = "arcs"
    <3>1. \A k \in DOMAIN d.arcs : fr.block <= d.arcs[k].source /\ fr.block \in Nat
                                   /\ d.arcs[k].source \in Nat
      BY <1>1, <1>9, <2>2
    <3>2. \A k \in DOMAIN d.arcs : ~(d.arcs[k].source < fr.block)
      BY <3>1
    <3>3. DOMAIN g.arcs = {}
      BY <1>6
    <3>4. QED
      BY <1>5, <1>6, <2>2, <3>2, <3>3 DEF Reading
  <2>3. QED
    BY <1>9, <2>1, <2>2
<1>11. \A i \in 1 .. m - 1 : i \in DOMAIN functions /\ functions'[i] = functions[i] /\ i < m
  BY <1>1, <1>7
<1> HIDE DEF m, d, fr
<1>12. /\ fr \in FrameSet /\ fr.of \in DOMAIN in.functions /\ fr.kind # "function"
       /\ fr.kind = "arcs" => fr.block \in Sources(in.functions[fr.of])
       /\ Len(functions') = fr.of
       /\ \A i \in 1 .. fr.of - 1 : /\ i \in DOMAIN functions /\ functions'[i] = functions[i]
                                    /\ i < frame.of
       /\ functions'[fr.of].of = fr.of /\ PartOf(functions'[fr.of], in.functions[fr.of])
       /\ Reading(fr, functions'[fr.of], in.functions[fr.of])
  BY <1>1, <1>6, <1>7, <1>8, <1>9, <1>10, <1>11 DEF m, d
<1>13. ReadState(frame, functions)
  BY DEF ReadInv
<1>14. ReadState(fr, functions')
  BY <1>7, <1>12, <1>13, ReadReplace
<1>15. QED
  BY <1>14 DEF fr

(***************************************************************************)
(* Where the arcs of the blocks before b are read, those of b come next:   *)
(* they join the others at the places they have in the graph.              *)
(***************************************************************************)
LEMMA JoinedArcs ==
  ASSUME NEW d, Graph(d), NEW f \in FunctionSet, PartOf(f, d), NEW b \in Sources(d), b \in Nat,
         \A k \in DOMAIN d.arcs : k \in DOMAIN f.arcs <=> d.arcs[k].source < b
  PROVE  LET as == f.arcs \o ArcsFrom(d, b)
         IN  /\ as \in Seq(ArcSet) /\ Len(as) <= Len(d.arcs)
             /\ \A k \in DOMAIN d.arcs : k \in DOMAIN as <=> d.arcs[k].source <= b
             /\ DOMAIN as \subseteq DOMAIN d.arcs
             /\ \A k \in DOMAIN as : /\ as[k].source = d.arcs[k].source
                                     /\ as[k].destination = d.arcs[k].destination
                                     /\ as[k].flags = d.arcs[k].flags
<1> DEFINE as == f.arcs \o ArcsFrom(d, b)
           s  == ArcsFrom(d, b)
           lo == Min(OutOf(d, b))
           hi == Max(OutOf(d, b))
           n  == Len(f.arcs)
<1>1. /\ OutOf(d, b) = lo .. hi /\ lo <= hi
      /\ lo \in 1 .. Len(d.arcs) /\ hi \in 1 .. Len(d.arcs)
      /\ s \in Seq(ArcSet) /\ Len(s) = hi - lo + 1
      /\ \A j \in 1 .. hi - lo + 1 : s[j] = NewArc(d.arcs[lo + j - 1])
  BY ArcsFromFacts
<1>2. /\ Len(d.arcs) \in Nat /\ DOMAIN d.arcs = 1 .. Len(d.arcs)
      /\ \A k \in DOMAIN d.arcs : d.arcs[k].source \in Nat
  BY GraphTypes
<1>3. f.arcs \in Seq(ArcSet) /\ n \in Nat /\ DOMAIN f.arcs = 1 .. n /\ n <= Len(d.arcs)
  BY FunctionTypes DEF PartOf
<1> HIDE DEF lo, hi, n, s
<1>4. \A k \in lo .. hi : k \in DOMAIN d.arcs /\ d.arcs[k].source = b
  BY <1>1 DEF OutOf
<1>5. \A k \in DOMAIN d.arcs : d.arcs[k].source = b => k \in lo .. hi
  BY <1>1 DEF OutOf
<1>6. lo = n + 1
  <2>1. lo \in DOMAIN d.arcs /\ lo \notin 1 .. n
    <3>1. lo \in lo .. hi
      BY <1>1, <1>2
    <3>2. lo \in DOMAIN d.arcs /\ d.arcs[lo].source = b
      BY <1>4, <3>1
    <3>3. ~(d.arcs[lo].source < b)
      BY <3>2
    <3>4. QED
      BY <1>3, <3>2, <3>3
  <2>2. n + 1 <= lo /\ n + 1 \in DOMAIN d.arcs /\ n + 1 \notin 1 .. n
    BY <1>1, <1>2, <1>3, <2>1
  <2>3. d.arcs[n + 1].source <= d.arcs[lo].source
    BY <2>1, <2>2, GraphOrder
  <2>4. ~(d.arcs[n + 1].source < b)
    BY <1>3, <2>2
  <2>5. d.arcs[lo].source = b
    <3>1. lo \in lo .. hi
      BY <1>1, <1>2
    <3>2. QED
      BY <1>4, <3>1
  <2>6. d.arcs[n + 1].source \in Nat
    BY <1>2, <2>2
  <2>7. d.arcs[n + 1].source = b
    BY <2>3, <2>4, <2>5, <2>6
  <2>8. n + 1 \in lo .. hi
    BY <1>5, <2>2, <2>7
  <2>9. QED
    BY <1>1, <1>2, <1>3, <2>2, <2>8
<1>7. /\ as \in Seq(ArcSet) /\ Len(as) = hi
      /\ \A k \in 1 .. n : as[k] = f.arcs[k]
      /\ \A k \in n + 1 .. hi : as[k] = s[k - n]
  <2>1. /\ as \in Seq(ArcSet) /\ Len(as) = Len(f.arcs) + Len(s)
        /\ \A k \in 1 .. Len(f.arcs) + Len(s) :
             as[k] = IF k <= Len(f.arcs) THEN f.arcs[k] ELSE s[k - Len(f.arcs)]
    <3>1. as = f.arcs \o s
      BY DEF s
    <3> HIDE DEF as
    <3>2. QED
      BY <1>1, <1>3, <3>1, ConcatProperties
  <2>2. Len(f.arcs) = n
    BY DEF n
  <2>3. Len(f.arcs) + Len(s) = hi
    BY <1>1, <1>2, <1>3, <1>6, <2>2
  <2>4. \A k \in 1 .. n : k \in 1 .. hi /\ k <= n
    BY <1>1, <1>2, <1>3, <1>6
  <2>5. \A k \in n + 1 .. hi : k \in 1 .. hi /\ ~(k <= n)
    BY <1>1, <1>2, <1>3, <1>6
  <2> HIDE DEF as
  <2>6. QED
    BY <2>1, <2>2, <2>3, <2>4, <2>5
<1> HIDE DEF as
<1>8. DOMAIN as = 1 .. hi
  BY <1>7, LenProperties
<1>9. ASSUME NEW k \in 1 .. hi
      PROVE  /\ k \in DOMAIN d.arcs
             /\ as[k].source = d.arcs[k].source
             /\ as[k].destination = d.arcs[k].destination
             /\ as[k].flags = d.arcs[k].flags
  <2>1. k \in DOMAIN d.arcs
    BY <1>1, <1>2
  <2>2. CASE k \in 1 .. n
    BY <1>3, <1>7, <2>1, <2>2 DEF PartOf
  <2>3. CASE k \notin 1 .. n
    <3>1. k \in n + 1 .. hi /\ k - n \in 1 .. hi - lo + 1 /\ lo + (k - n) - 1 = k
      BY <1>1, <1>2, <1>3, <1>6, <2>3
    <3>2. as[k] = NewArc(d.arcs[k])
      BY <1>1, <1>7, <3>1
    <3>3. QED
      BY <2>1, <3>2 DEF NewArc
  <2>4. QED
    BY <2>2, <2>3
<1>10. ASSUME NEW k \in DOMAIN d.arcs
       PROVE  k \in 1 .. hi <=> d.arcs[k].source <= b
  <2>1. k \in Nat /\ d.arcs[k].source \in Nat /\ 1 <= k /\ hi \in Nat /\ hi \in DOMAIN d.arcs
    BY <1>1, <1>2
  <2>2. d.arcs[hi].source = b
    BY <1>1, <1>2, <1>4, <2>1
  <2>3. k <= hi => d.arcs[k].source <= d.arcs[hi].source
    BY <2>1, GraphOrder
  <2>4. ASSUME d.arcs[k].source <= b PROVE k <= hi
    <3>1. CASE d.arcs[k].source = b
      BY <1>5, <2>1, <3>1
    <3>2. CASE d.arcs[k].source < b
      <4>1. d.arcs[k].source < d.arcs[hi].source
        BY <2>2, <3>2
      <4>2. k < hi
        BY <2>1, <4>1, GraphOrder
      <4>3. QED
        BY <2>1, <4>2
    <3>3. QED
      BY <2>1, <2>4, <3>1, <3>2
  <2>5. QED
    BY <2>1, <2>2, <2>3, <2>4
<1>11. Len(as) <= Len(d.arcs)
  BY <1>1, <1>2, <1>7
<1>12. QED
  BY <1>7, <1>8, <1>9, <1>10, <1>11 DEF as

\* A frame with arcs adds those of one block.
LEMMA ReadArcs ==
  ASSUME in \in Inputs, ReadInv, ReadFrame, frame.kind = "arcs"
  PROVE  ReadState(frame', functions')
<1> DEFINE m == frame.of
           d == in.functions[m]
           c == frame.block
           as == functions[m].arcs \o ArcsFrom(d, c)
           g == [functions[m] EXCEPT !.arcs = as]
<1>1. /\ frame \in FrameSet /\ m \in 1 .. Len(in.functions) /\ m \in DOMAIN in.functions
      /\ Graph(d) /\ Len(functions) = m /\ m \in DOMAIN functions
      /\ functions \in Seq(FunctionSet) /\ DOMAIN functions = 1 .. m
      /\ functions[m] \in FunctionSet /\ functions[m].of = m
      /\ PartOf(functions[m], d) /\ Reading(frame, functions[m], d)
      /\ Sources(d) \subseteq Nat /\ \A k \in DOMAIN d.arcs : d.arcs[k].source \in Sources(d)
  BY ReadingFacts
<1>2. frame' = NextFrame(frame) /\ functions' = [functions EXCEPT ![m] = g]
  BY <1>1 DEF ReadFrame, Back
<1>3. c \in Sources(d)
  BY DEF ReadInv, ReadState
<1>4. /\ Len(functions[m].blocks) = d.blocks
      /\ \A k \in DOMAIN d.arcs : k \in DOMAIN functions[m].arcs <=> d.arcs[k].source < c
  BY <1>1 DEF Reading
<1>5. c \in Nat
  BY <1>1, <1>3
<1>6. /\ as \in Seq(ArcSet) /\ Len(as) <= Len(d.arcs)
      /\ \A k \in DOMAIN d.arcs : k \in DOMAIN as <=> d.arcs[k].source <= c
      /\ DOMAIN as \subseteq DOMAIN d.arcs
      /\ \A k \in DOMAIN as : /\ as[k].source = d.arcs[k].source
                              /\ as[k].destination = d.arcs[k].destination
                              /\ as[k].flags = d.arcs[k].flags
  <2>1. LET f == functions[m] IN
          /\ f \in FunctionSet /\ PartOf(f, d)
          /\ \A k \in DOMAIN d.arcs : k \in DOMAIN f.arcs <=> d.arcs[k].source < c
    BY <1>1, <1>4
  <2> HIDE DEF d, c, m
  <2>2. QED
    BY <1>1, <1>3, <1>5, <2>1, JoinedArcs
<1>7. /\ d.blocks \in Nat \ {0} /\ Len(d.arcs) \in Nat /\ DOMAIN d.arcs = 1 .. Len(d.arcs)
      /\ \A k \in DOMAIN d.arcs : d.arcs[k].source \in Nat
  BY <1>1, GraphTypes
<1>8. g \in FunctionSet /\ g.of = m /\ g.arcs = as /\ g.blocks = functions[m].blocks
  <2> HIDE DEF as
  <2>1. functions[m] \in [of : 1 .. Len(in.functions), blocks : Seq(Nat), arcs : Seq(ArcSet)]
    BY <1>1 DEF FunctionSet
  <2>2. QED
    BY <1>1, <1>6, <2>1 DEF FunctionSet
<1> HIDE DEF as, g
<1>9. /\ functions' \in Seq(FunctionSet) /\ Len(functions') = m
      /\ functions'[m] = g /\ \A i \in 1 .. m - 1 : functions'[i] = functions[i]
  <2>1. /\ functions' \in Seq(FunctionSet) /\ Len(functions') = Len(functions)
        /\ \A i \in DOMAIN functions : functions'[i] = IF i = m THEN g ELSE functions[i]
    BY <1>1, <1>2, <1>8, SeqChange
  <2>2. \A i \in 1 .. m - 1 : i \in DOMAIN functions /\ i # m
    BY <1>1
  <2>3. QED
    BY <1>1, <2>1, <2>2
<1>10. PartOf(g, d)
  <2>1. \A k \in DOMAIN d.arcs, l \in DOMAIN g.arcs :
          d.arcs[k].source <= d.arcs[l].source => k \in DOMAIN g.arcs
    <3>1. ASSUME NEW k \in DOMAIN d.arcs, NEW l \in DOMAIN as,
                 d.arcs[k].source <= d.arcs[l].source
          PROVE  k \in DOMAIN as
      <4>1. l \in DOMAIN d.arcs /\ d.arcs[l].source <= c
        BY <1>6, <3>1
      <4>2. d.arcs[k].source <= c
        <5>1. d.arcs[k].source \in Nat /\ d.arcs[l].source \in Nat
          BY <1>7, <4>1
        <5>2. QED
          BY <1>5, <3>1, <4>1, <5>1
      <4>3. QED
        BY <1>6, <4>2
    <3>2. QED
      BY <1>8, <3>1
  <2>2. Len(g.blocks) = d.blocks
    BY <1>4, <1>8
  <2>3. QED
    BY <1>6, <1>8, <2>1, <2>2 DEF PartOf
<1> DEFINE fr == frame'
<1>11. /\ fr \in FrameSet /\ fr.of = m
       /\ \/ fr.kind = "lines" /\ \A b \in Sources(d) : ~(c < b)
          \/ /\ fr.kind = "arcs" /\ fr.block \in Sources(d) /\ c < fr.block
             /\ \A b \in Sources(d) : c < b => fr.block <= b
  BY <1>2, NextFrameFacts
<1>12. Reading(fr, g, d)
  <2>1. CASE fr.kind = "lines"
    <3>1. \A k \in DOMAIN d.arcs : d.arcs[k].source <= c
      <4>1. \A k \in DOMAIN d.arcs : ~(c < d.arcs[k].source) /\ d.arcs[k].source \in Nat
        BY <1>1, <1>7, <1>11, <2>1
      <4>2. QED
        BY <1>5, <4>1
    <3>2. DOMAIN as = DOMAIN d.arcs
      BY <1>6, <3>1
    <3>3. Len(as) = Len(d.arcs)
      <4>1. DOMAIN as = 1 .. Len(as) /\ Len(as) \in Nat
        BY <1>6, LenProperties
      <4>2. Len(d.arcs) \in Nat /\ 1 .. Len(as) = 1 .. Len(d.arcs)
        BY <1>7, <3>2, <4>1
      <4>3. QED
        BY <4>1, <4>2, SameEnd
    <3>4. QED
      BY <1>4, <1>8, <2>1, <3>3 DEF Reading, Whole
  <2>2. CASE fr.kind = "arcs"
    <3>1. \A k \in DOMAIN d.arcs : d.arcs[k].source <= c <=> d.arcs[k].source < fr.block
      <4>1. ASSUME NEW k \in DOMAIN d.arcs
            PROVE  d.arcs[k].source <= c <=> d.arcs[k].source < fr.block
        <5>1. /\ d.arcs[k].source \in Nat /\ d.arcs[k].source \in Sources(d)
              /\ fr.block \in Nat /\ c < fr.block
              /\ c < d.arcs[k].source => fr.block <= d.arcs[k].source
          BY <1>1, <1>7, <1>11, <2>2
        <5>2. QED
          BY <1>5, <5>1
      <4>2. QED
        BY <4>1
    <3>2. QED
      BY <1>4, <1>6, <1>8, <2>2, <3>1 DEF Reading
  <2>3. QED
    BY <1>11, <2>1, <2>2
<1>13. \A i \in 1 .. m - 1 : i \in DOMAIN functions /\ functions'[i] = functions[i] /\ i < m
  BY <1>1, <1>9
<1> HIDE DEF m, d, fr
<1>14. /\ fr \in FrameSet /\ fr.of \in DOMAIN in.functions /\ fr.kind # "function"
       /\ fr.kind = "arcs" => fr.block \in Sources(in.functions[fr.of])
       /\ Len(functions') = fr.of
       /\ \A i \in 1 .. fr.of - 1 : /\ i \in DOMAIN functions /\ functions'[i] = functions[i]
                                    /\ i < frame.of
       /\ functions'[fr.of].of = fr.of /\ PartOf(functions'[fr.of], in.functions[fr.of])
       /\ Reading(fr, functions'[fr.of], in.functions[fr.of])
  BY <1>1, <1>8, <1>9, <1>10, <1>11, <1>12, <1>13 DEF m, d
<1>15. ReadState(frame, functions)
  BY DEF ReadInv
<1>16. ReadState(fr, functions')
  BY <1>9, <1>14, <1>15, ReadReplace
<1>17. QED
  BY <1>16 DEF fr

\* The line numbers change nothing: the next function's frame is next.
LEMMA ReadLines ==
  ASSUME in \in Inputs, ReadInv, ReadFrame, frame.kind = "lines"
  PROVE  ReadState(frame', functions')
<1> DEFINE m == frame.of
<1>1. /\ m \in 1 .. Len(in.functions) /\ Len(functions) = m /\ DOMAIN functions = 1 .. m
      /\ Len(in.functions) \in Nat
  BY ReadingFacts, GraphOf
<1>2. functions' = functions /\ frame' = Frame("function", m + 1, 0)
  BY DEF ReadFrame, NextFrame
<1>3. m + 1 \in 1 .. Len(in.functions) + 1
  BY <1>1
<1>4. frame' \in FrameSet /\ frame'.kind = "function" /\ frame'.of = m + 1
  BY <1>2, <1>3, FrameFacts
<1>5. ReadState(frame, functions)
  BY DEF ReadInv
<1>6. ASSUME NEW i \in DOMAIN functions
      PROVE  /\ functions[i].of = i /\ PartOf(functions[i], in.functions[i])
             /\ Whole(functions[i], in.functions[i]) /\ i # m + 1
  <2>1. /\ functions[i].of = i /\ PartOf(functions[i], in.functions[i])
        /\ i < m => Whole(functions[i], in.functions[i])
        /\ i = m => Reading(frame, functions[i], in.functions[i])
    BY <1>5 DEF ReadState
  <2>2. i = m \/ i < m
    BY <1>1
  <2>3. i # m + 1
    BY <1>1
  <2>4. QED
    BY <2>1, <2>2, <2>3 DEF Reading
<1>7. functions \in Seq(FunctionSet) /\ Len(functions) = (m + 1) - 1
  BY <1>1, <1>5 DEF ReadState
<1> HIDE DEF m
<1>8. QED
  BY <1>2, <1>4, <1>6, <1>7 DEF ReadState

\* ReadFrame keeps what the reading has established.
LEMMA ReadFrameInv ==
  ASSUME in \in Inputs, ReadInv, ReadFrame
  PROVE  ReadState(frame', functions')
<1>1. frame.kind \in {"function", "blocks", "arcs", "lines"}
  BY DEF ReadInv, ReadState, FrameSet
<1>2. QED
  BY <1>1, ReadNewFunction, ReadBlocks, ReadArcs, ReadLines

(***************************************************************************)
(* Nth takes the element at a place.                                       *)
(***************************************************************************)
LEMMA NthFacts ==
  ASSUME NEW S, IsFiniteSet(S), S \subseteq Nat, NEW j \in 1 .. Cardinality(S)
  PROVE  Nth(S, j) \in S /\ Place(S, Nth(S, j)) = j
<1>1. PICK k \in S : Place(S, k) = j
  BY PlaceTaken
<1>2. Nth(S, j) = CHOOSE l \in S : Place(S, l) = j
  BY DEF Nth, Place, UpTo
<1>3. QED
  BY <1>1, <1>2

\* An element stands at its place.
LEMMA NthPlace ==
  ASSUME NEW S, IsFiniteSet(S), S \subseteq Nat, NEW k \in S
  PROVE  Nth(S, Place(S, k)) = k
<1>1. Place(S, k) \in 1 .. Cardinality(S)
  BY PlaceFacts
<1>2. Nth(S, Place(S, k)) \in S /\ Place(S, Nth(S, Place(S, k))) = Place(S, k)
  BY <1>1, NthFacts
<1>3. QED
  BY <1>2, PlaceOne

\* Sets of arcs are finite.
LEMMA ArcsFinite ==
  ASSUME NEW n \in Nat, NEW S, S \subseteq 1 .. n
  PROVE  IsFiniteSet(S) /\ S \subseteq Nat /\ Cardinality(S) \in Nat
<1>1. IsFiniteSet(1 .. n)
  <2>1. 1 \in Int /\ n \in Int
    OBVIOUS
  <2>2. QED
    BY <2>1, FS_Interval
<1>2. IsFiniteSet(S)
  BY <1>1, FS_Subset
<1>3. S \subseteq Nat
  OBVIOUS
<1>4. QED
  BY <1>2, <1>3, FS_CardinalityType

\* The arcs a fork begins with, and where its two ways go.
LEMMA ForkFacts ==
  ASSUME NEW d, Graph(d)
  PROVE  /\ ForksOf(d) \subseteq 1 .. Len(d.arcs) /\ IsFiniteSet(ForksOf(d))
         /\ ForksOf(d) \subseteq Nat /\ Cardinality(ForksOf(d)) \in Nat
         /\ \A k \in ForksOf(d) : k + 1 \in DOMAIN d.arcs /\ k \in DOMAIN d.arcs
         /\ \A k \in ForksOf(d) : Goes(d, k, "taken") \in Nat /\ Goes(d, k, "notTaken") \in Nat
<1>1. /\ Len(d.arcs) \in Nat /\ DOMAIN d.arcs = 1 .. Len(d.arcs)
      /\ \A k \in DOMAIN d.arcs : d.followed[k] \in Nat
  BY GraphTypes
<1>2. ForksOf(d) \subseteq 1 .. Len(d.arcs)
  BY <1>1 DEF ForksOf
<1>3. IsFiniteSet(ForksOf(d)) /\ ForksOf(d) \subseteq Nat /\ Cardinality(ForksOf(d)) \in Nat
  BY <1>1, <1>2, ArcsFinite
<1>4. ASSUME NEW k \in ForksOf(d) PROVE k + 1 \in DOMAIN d.arcs /\ k \in DOMAIN d.arcs
  <2>1. k < Len(d.arcs) /\ k \in DOMAIN d.arcs
    BY DEF ForksOf, Forks
  <2>2. QED
    BY <1>1, <2>1
<1>5. ASSUME NEW k \in ForksOf(d)
      PROVE  Goes(d, k, "taken") \in Nat /\ Goes(d, k, "notTaken") \in Nat
  <2>1. d.followed[k] \in Nat /\ d.followed[k + 1] \in Nat
    BY <1>1, <1>4
  <2>2. QED
    BY <2>1 DEF Goes
<1>6. QED
  BY <1>2, <1>3, <1>4, <1>5

(***************************************************************************)
(* The counts of the coverage map are one for each branch, or for each but *)
(* one.                                                                    *)
(***************************************************************************)
LEMMA BranchCountsFacts ==
  ASSUME NEW d, Graph(d), NEW direction \in {"taken", "notTaken"}
  PROVE  LET n == Cardinality(ForksOf(d))
             s == BranchCounts(d, direction)
         IN  /\ s \in Seq(Nat)
             /\ Len(s) = IF d.merged \in 1 .. n THEN n - 1 ELSE n
             /\ d.merged = 0 =>
                  \A j \in 1 .. n : s[j] = Goes(d, Nth(ForksOf(d), j), direction)
<1> DEFINE n == Cardinality(ForksOf(d))
           counts == [j \in 1 .. n |-> Goes(d, Nth(ForksOf(d), j), direction)]
           m == d.merged
<1>1. n \in Nat /\ m \in Nat
  BY ForkFacts, GraphTypes
<1>2. \A j \in 1 .. n : Goes(d, Nth(ForksOf(d), j), direction) \in Nat
  <2>1. ASSUME NEW j \in 1 .. n PROVE Goes(d, Nth(ForksOf(d), j), direction) \in Nat
    <3>1. Nth(ForksOf(d), j) \in ForksOf(d)
      BY ForkFacts, NthFacts
    <3>2. \A k \in ForksOf(d) : Goes(d, k, "taken") \in Nat /\ Goes(d, k, "notTaken") \in Nat
      BY ForkFacts
    <3>3. QED
      BY <3>1, <3>2
  <2>2. QED
    BY <2>1
<1>3. counts \in Seq(Nat) /\ Len(counts) = n /\ DOMAIN counts = 1 .. n
  <2> HIDE DEF n
  <2>1. QED
    BY <1>1, <1>2
<1>4. BranchCounts(d, direction) = IF m \in 1 .. n THEN RemoveAt(counts, m) ELSE counts
  BY <1>3 DEF BranchCounts
<1>5. \A j \in 1 .. n : counts[j] = Goes(d, Nth(ForksOf(d), j), direction)
  OBVIOUS
<1> HIDE DEF n, counts, m
<1>6. CASE m \in 1 .. n
  <2> DEFINE s1 == SubSeq(counts, 1, m - 1)
             s2 == SubSeq(counts, m + 1, n)
  <2>1. s1 \in Seq(Nat) /\ Len(s1) = m - 1
    <3>1. 1 \in Int /\ m - 1 \in Int /\ \A j \in 1 .. m - 1 : counts[j] \in Nat
      <4>1. \A j \in 1 .. n : counts[j] \in Nat
        BY <1>3, ElementOfSeq
      <4>2. QED
        BY <1>1, <1>6, <4>1
    <3>2. s1 \in Seq(Nat) /\ Len(s1) = IF 1 <= m - 1 THEN (m - 1) - 1 + 1 ELSE 0
      BY <1>3, <3>1, SubSeqProperties
    <3>3. QED
      BY <1>1, <1>6, <3>2
  <2>2. s2 \in Seq(Nat) /\ Len(s2) = n - m
    <3>1. m + 1 \in Int /\ n \in Int /\ \A j \in m + 1 .. n : counts[j] \in Nat
      <4>1. \A j \in 1 .. n : counts[j] \in Nat
        BY <1>3, ElementOfSeq
      <4>2. QED
        BY <1>1, <1>6, <4>1
    <3>2. s2 \in Seq(Nat) /\ Len(s2) = IF m + 1 <= n THEN n - (m + 1) + 1 ELSE 0
      BY <1>3, <3>1, SubSeqProperties
    <3>3. QED
      BY <1>1, <1>6, <3>2
  <2>3. BranchCounts(d, direction) = s1 \o s2
    BY <1>3, <1>4, <1>6 DEF RemoveAt
  <2> HIDE DEF s1, s2
  <2>4. s1 \o s2 \in Seq(Nat) /\ Len(s1 \o s2) = Len(s1) + Len(s2)
    BY <2>1, <2>2, ConcatProperties
  <2>5. (m - 1) + (n - m) = n - 1 /\ m # 0
    BY <1>1, <1>6
  <2>6. QED
    BY <1>6, <2>1, <2>2, <2>3, <2>4, <2>5 DEF n, m
<1>7. CASE m \notin 1 .. n
  BY <1>3, <1>4, <1>5, <1>7 DEF n, m
<1>8. QED
  BY <1>6, <1>7

(***************************************************************************)
(* A part of a graph with blocks has all of them, its arcs are in the      *)
(* order of their sources, and all lead to its blocks.                     *)
(***************************************************************************)
LEMMA PartFacts ==
  ASSUME NEW d, Graph(d), NEW f \in FunctionSet, PartOf(f, d), f.blocks # << >>
  PROVE  /\ Len(f.blocks) = d.blocks
         /\ DOMAIN f.arcs \subseteq DOMAIN d.arcs
         /\ \A k \in DOMAIN f.arcs :
              /\ f.arcs[k].source = d.arcs[k].source
              /\ f.arcs[k].destination = d.arcs[k].destination
              /\ f.arcs[k].flags = d.arcs[k].flags
              /\ f.arcs[k].destination + 1 \in DOMAIN f.blocks
              /\ f.arcs[k].destination # 0
              /\ f.arcs[k].source + 1 < d.blocks
         /\ \A k, l \in DOMAIN f.arcs :
              /\ k <= l => f.arcs[k].source <= f.arcs[l].source
              /\ f.arcs[k].source < f.arcs[l].source => k < l
         /\ \A b : \A l \in DOMAIN f.arcs : f.arcs[l].source = b => OutOf(d, b) = OutOf(f, b)
<1>1. /\ d.blocks \in Nat \ {0} /\ Len(d.arcs) \in Nat /\ DOMAIN d.arcs = 1 .. Len(d.arcs)
      /\ \A k \in DOMAIN d.arcs :
           /\ d.arcs[k].source \in Nat /\ d.arcs[k].destination \in Nat
           /\ d.arcs[k].source < d.blocks - 1
           /\ d.arcs[k].destination \in 1 .. d.blocks - 1
  BY GraphTypes
<1>2. Len(f.blocks) = d.blocks
  BY DEF PartOf
<1>3. /\ Len(f.arcs) \in Nat /\ DOMAIN f.arcs = 1 .. Len(f.arcs) /\ Len(f.arcs) <= Len(d.arcs)
      /\ DOMAIN f.blocks = 1 .. Len(f.blocks)
  BY FunctionTypes DEF PartOf
<1>4. DOMAIN f.arcs \subseteq DOMAIN d.arcs
  BY <1>1, <1>3
<1>5. \A k \in DOMAIN f.arcs : /\ f.arcs[k].source = d.arcs[k].source
                               /\ f.arcs[k].destination = d.arcs[k].destination
                               /\ f.arcs[k].flags = d.arcs[k].flags
  BY DEF PartOf
<1>6. \A k \in DOMAIN f.arcs : /\ f.arcs[k].destination + 1 \in DOMAIN f.blocks
                               /\ f.arcs[k].destination # 0
                               /\ f.arcs[k].source + 1 < d.blocks
  <2>1. ASSUME NEW k \in DOMAIN f.arcs
        PROVE  /\ f.arcs[k].destination + 1 \in DOMAIN f.blocks
               /\ f.arcs[k].destination # 0 /\ f.arcs[k].source + 1 < d.blocks
    <3>1. /\ d.arcs[k].source \in Nat /\ d.arcs[k].source < d.blocks - 1
          /\ d.arcs[k].destination \in 1 .. d.blocks - 1
      BY <1>1, <1>4
    <3>2. QED
      BY <1>1, <1>2, <1>3, <1>5, <3>1
  <2>2. QED
    BY <2>1
<1>7. \A k, l \in DOMAIN f.arcs : /\ k <= l => f.arcs[k].source <= f.arcs[l].source
                                  /\ f.arcs[k].source < f.arcs[l].source => k < l
  <2>1. ASSUME NEW k \in DOMAIN f.arcs, NEW l \in DOMAIN f.arcs
        PROVE  /\ k <= l => f.arcs[k].source <= f.arcs[l].source
               /\ f.arcs[k].source < f.arcs[l].source => k < l
    <3>1. k \in DOMAIN d.arcs /\ l \in DOMAIN d.arcs
      BY <1>4
    <3>2. /\ k <= l => d.arcs[k].source <= d.arcs[l].source
          /\ d.arcs[k].source < d.arcs[l].source => k < l
      BY <3>1, GraphOrder
    <3>3. QED
      BY <1>5, <3>2
  <2>2. QED
    BY <2>1
<1>8. ASSUME NEW b, NEW l \in DOMAIN f.arcs, f.arcs[l].source = b
      PROVE  OutOf(d, b) = OutOf(f, b)
  <2>1. ASSUME NEW k \in DOMAIN d.arcs, d.arcs[k].source = b
        PROVE  k \in DOMAIN f.arcs /\ f.arcs[k].source = b
    <3>1. l \in DOMAIN d.arcs /\ d.arcs[l].source = b /\ d.arcs[l].source \in Nat
      BY <1>1, <1>4, <1>5, <1>8
    <3>2. d.arcs[k].source <= d.arcs[l].source
      BY <2>1, <3>1
    <3>3. k \in DOMAIN f.arcs
      BY <3>2 DEF PartOf
    <3>4. QED
      BY <1>5, <2>1, <3>3
  <2>2. QED
    BY <1>4, <1>5, <2>1 DEF OutOf
<1>9. QED
  BY <1>2, <1>4, <1>5, <1>6, <1>7, <1>8

(***************************************************************************)
(* One step of the walk: the search finds the first arc of the block,      *)
(* which is the first of all that are left, and goes on there.             *)
(***************************************************************************)
LEMMA WalkStep ==
  ASSUME NEW d, Graph(d), NEW f \in FunctionSet, PartOf(f, d), NEW b, NEW a, Walk(b, a, f, d)
  PROVE  LET found == {k \in a .. Len(f.arcs) : f.arcs[k].source = b}
             h     == Min(found)
         IN  /\ found = OutOf(f, b)
             /\ found # {} =>
                  /\ h \in DOMAIN f.arcs /\ f.arcs[h].source = b /\ OutOf(d, b) = found
                  /\ \A k \in DOMAIN f.arcs : f.arcs[k].source >= b => h <= k
                  /\ h # Len(f.arcs) => h + 1 \in DOMAIN f.arcs
                  /\ Walk(b + 1, h, f, d)
<1> DEFINE found == {k \in a .. Len(f.arcs) : f.arcs[k].source = b}
           h     == Min(found)
<1>1. /\ d.mapped /\ f.blocks # << >> /\ f.arcs # << >>
      /\ b \in Nat /\ b < Len(f.blocks) /\ a \in DOMAIN f.arcs
      /\ \A c \in 0 .. b - 1 : \E k \in DOMAIN f.arcs : f.arcs[k].source = c
      /\ \A k \in DOMAIN f.arcs : f.arcs[k].source >= b => a <= k
  BY DEF Walk
<1>2. /\ Len(f.arcs) \in Nat /\ DOMAIN f.arcs = 1 .. Len(f.arcs)
      /\ \A k \in DOMAIN f.arcs : f.arcs[k].source \in Nat
  BY FunctionTypes
<1>3. found = OutOf(f, b)
  <2>1. \A k \in a .. Len(f.arcs) : k \in DOMAIN f.arcs
    BY <1>1, <1>2
  <2>2. \A k \in DOMAIN f.arcs : f.arcs[k].source = b => k \in a .. Len(f.arcs)
    <3>1. ASSUME NEW k \in DOMAIN f.arcs, f.arcs[k].source = b PROVE k \in a .. Len(f.arcs)
      <4>1. f.arcs[k].source >= b
        BY <1>1, <3>1
      <4>2. a <= k
        BY <1>1, <4>1
      <4>3. QED
        BY <1>1, <1>2, <4>2
    <3>2. QED
      BY <3>1
  <2>3. QED
    BY <2>1, <2>2 DEF OutOf
<1>4. ASSUME found # {}
      PROVE  /\ h \in DOMAIN f.arcs /\ f.arcs[h].source = b /\ OutOf(d, b) = found
             /\ \A k \in DOMAIN f.arcs : f.arcs[k].source >= b => h <= k
             /\ h # Len(f.arcs) => h + 1 \in DOMAIN f.arcs
             /\ Walk(b + 1, h, f, d)
  <2>1. found \subseteq Int /\ 1 \in Int /\ \A k \in found : 1 <= k
    BY <1>1, <1>2
  <2>2. h \in found /\ \A k \in found : h <= k
    <3> HIDE DEF found
    <3>1. QED
      BY <1>4, <2>1, MinFacts
  <2>3. h \in DOMAIN f.arcs /\ f.arcs[h].source = b
    BY <1>1, <1>2, <2>2
  <2> HIDE DEF h, found
  <2>4. OutOf(d, b) = found
    BY <1>1, <1>3, <2>3, PartFacts
  <2>5. ASSUME NEW k \in DOMAIN f.arcs, f.arcs[k].source >= b PROVE h <= k
    <3>1. f.arcs[k].source \in Nat /\ k \in Nat /\ h \in Nat
      BY <1>2, <2>3
    <3>2. CASE f.arcs[k].source = b
      BY <1>3, <2>2, <3>2 DEF OutOf
    <3>3. CASE f.arcs[k].source > b
      <4>1. f.arcs[h].source < f.arcs[k].source
        BY <1>1, <2>3, <3>1, <3>3
      <4>2. h < k
        BY <1>1, <2>3, <4>1, PartFacts
      <4>3. QED
        BY <3>1, <4>2
    <3>4. QED
      BY <1>1, <2>5, <3>1, <3>2, <3>3
  <2>6. h # Len(f.arcs) => h + 1 \in DOMAIN f.arcs
    BY <1>2, <2>3
  <2>7. b + 1 \in Nat /\ b + 1 < Len(f.blocks)
    <3>1. f.arcs[h].source + 1 < d.blocks /\ Len(f.blocks) = d.blocks
      BY <1>1, <2>3, PartFacts
    <3>2. QED
      BY <1>1, <2>3, <3>1
  <2>8. \A c \in 0 .. (b + 1) - 1 : \E k \in DOMAIN f.arcs : f.arcs[k].source = c
    <3>1. ASSUME NEW c \in 0 .. (b + 1) - 1 PROVE \E k \in DOMAIN f.arcs : f.arcs[k].source = c
      <4>1. c = b \/ c \in 0 .. b - 1
        BY <1>1
      <4>2. QED
        BY <1>1, <2>3, <4>1
    <3>2. QED
      BY <3>1
  <2>9. \A k \in DOMAIN f.arcs : f.arcs[k].source >= b + 1 => h <= k
    <3>1. \A k \in DOMAIN f.arcs : f.arcs[k].source >= b + 1 => f.arcs[k].source >= b
      BY <1>1, <1>2
    <3>2. QED
      BY <2>5, <3>1
  <2>10. Walk(b + 1, h, f, d)
    BY <1>1, <2>3, <2>7, <2>8, <2>9 DEF Walk
  <2>11. QED
    BY <2>3, <2>4, <2>5, <2>6, <2>10
<1>5. QED
  BY <1>3, <1>4

\* The walk goes over the shape of a function.
LEMMA WalkKept ==
  ASSUME NEW f \in FunctionSet, NEW g \in FunctionSet, SameShape(f, g), NEW d, NEW b, NEW a,
         f.arcs # << >>
  PROVE  /\ Walk(b, a, f, d) => Walk(b, a, g, d)
         /\ Again(b, f) => Again(b, g)
<1>1. /\ DOMAIN g.arcs = DOMAIN f.arcs /\ Len(g.arcs) = Len(f.arcs) /\ Len(g.blocks) = Len(f.blocks)
      /\ \A k \in DOMAIN f.arcs : g.arcs[k].source = f.arcs[k].source
  BY DEF SameShape
<1>2. /\ f.blocks # << >> => g.blocks # << >>
      /\ f.arcs # << >> => g.arcs # << >>
  <2>1. /\ f.arcs \in Seq(ArcSet) /\ f.blocks \in Seq(Nat)
        /\ g.arcs \in Seq(ArcSet) /\ g.blocks \in Seq(Nat)
    BY FunctionTypes
  <2>2. QED
    BY <1>1, <2>1, EmptySeq
<1>3. Walk(b, a, f, d) => Walk(b, a, g, d)
  BY <1>1, <1>2 DEF Walk
<1>4. Len(f.arcs) \in DOMAIN f.arcs
  <2>1. f.arcs \in Seq(ArcSet) /\ Len(f.arcs) \in Nat /\ DOMAIN f.arcs = 1 .. Len(f.arcs)
    BY FunctionTypes
  <2>2. Len(f.arcs) # 0
    BY <2>1, EmptySeq
  <2>3. QED
    BY <2>1, <2>2
<1>5. Again(b, f) => Again(b, g)
  BY <1>1, <1>4 DEF Again
<1>6. QED
  BY <1>3, <1>5

\* The function at hand may be replaced by one of the same shape.
LEMMA ReadKept ==
  ASSUME NEW fr, NEW fs, ReadState(fr, fs), NEW n \in DOMAIN fs, NEW g \in FunctionSet,
         SameShape(fs[n], g)
  PROVE  LET gs == [fs EXCEPT ![n] = g]
         IN  /\ ReadState(fr, gs) /\ Len(gs) = Len(fs) /\ DOMAIN gs = DOMAIN fs
             /\ \A i \in DOMAIN fs : gs[i] = IF i = n THEN g ELSE fs[i]
<1> DEFINE gs == [fs EXCEPT ![n] = g]
<1>1. fs \in Seq(FunctionSet) /\ fs[n] \in FunctionSet
  <2>1. fs \in Seq(FunctionSet)
    BY DEF ReadState
  <2>2. QED
    BY <2>1, LenProperties, ElementOfSeq
<1>2. /\ gs \in Seq(FunctionSet) /\ Len(gs) = Len(fs) /\ DOMAIN gs = DOMAIN fs
      /\ \A i \in DOMAIN fs : gs[i] = IF i = n THEN g ELSE fs[i]
  BY <1>1, SeqChange
<1> HIDE DEF gs
<1> DEFINE d == in.functions[n]
<1>3. /\ fs[n].of = n /\ PartOf(fs[n], d)
      /\ n < fr.of => Whole(fs[n], d)
      /\ n = fr.of => Reading(fr, fs[n], d)
  BY DEF ReadState
<1>4. PartOf(g, d) /\ (Whole(g, d) <=> Whole(fs[n], d))
  <2> HIDE DEF d
  <2>1. QED
    BY <1>1, <1>3, ShapeKept
<1>5. g.of = n
  BY <1>3 DEF SameShape
<1>6. Reading(fr, fs[n], d) => Reading(fr, g, d)
  <2>1. fs[n].arcs = << >> /\ fs[n].blocks = << >> => g.arcs = << >> /\ g.blocks = << >>
    <3>1. fs[n].arcs = << >> /\ fs[n].blocks = << >> => Len(g.arcs) = 0 /\ Len(g.blocks) = 0
      BY EmptySeq DEF SameShape
    <3>2. g.arcs \in Seq(ArcSet) /\ g.blocks \in Seq(Nat)
      BY FunctionTypes
    <3>3. QED
      BY <3>1, <3>2, EmptySeq
  <2>2. DOMAIN g.arcs = DOMAIN fs[n].arcs /\ Len(g.blocks) = Len(fs[n].blocks)
    BY DEF SameShape
  <2>3. QED
    BY <1>4, <2>1, <2>2 DEF Reading
<1>7. \A i \in DOMAIN gs : /\ gs[i].of = i /\ PartOf(gs[i], in.functions[i])
                           /\ i < fr.of => Whole(gs[i], in.functions[i])
                           /\ i = fr.of => Reading(fr, gs[i], in.functions[i])
  <2>1. ASSUME NEW i \in DOMAIN gs
        PROVE  /\ gs[i].of = i /\ PartOf(gs[i], in.functions[i])
               /\ i < fr.of => Whole(gs[i], in.functions[i])
               /\ i = fr.of => Reading(fr, gs[i], in.functions[i])
    <3>1. CASE i = n
      BY <1>2, <1>3, <1>4, <1>5, <1>6, <3>1
    <3>2. CASE i # n
      <4>1. i \in DOMAIN fs /\ gs[i] = fs[i]
        BY <1>2, <3>2
      <4>2. QED
        BY <4>1 DEF ReadState
    <3>3. QED
      BY <3>1, <3>2
  <2>2. QED
    BY <2>1
<1>8. ReadState(fr, gs)
  BY <1>2, <1>7 DEF ReadState
<1>9. QED
  BY <1>2, <1>8 DEF gs

(***************************************************************************)
(* The function of the walk, and where the search of its block ends.       *)
(***************************************************************************)
LEMMA CurrentFacts ==
  ASSUME TypesInv, pc \in {"branches", "simple"}
  PROVE  LET f == functions[fn]
             d == in.functions[fn]
         IN  /\ Current = f /\ Descr = d /\ fn \in DOMAIN functions /\ f \in FunctionSet
             /\ Graph(d) /\ PartOf(f, d) /\ f.of = fn /\ Walk(block, arc, f, d)
             /\ f.blocks # << >> /\ f.arcs # << >>
             /\ Found = OutOf(f, block)
             /\ pc = "simple" => Again(block, f) /\ Found # {}
             /\ Found # {} =>
                  /\ Here \in DOMAIN f.arcs /\ f.arcs[Here].source = block
                  /\ OutOf(d, block) = Found
                  /\ \A k \in DOMAIN f.arcs : f.arcs[k].source >= block => Here <= k
                  /\ ~ IsLast => Here + 1 \in DOMAIN f.arcs
                  /\ Walk(block + 1, Here, f, d)
<1> DEFINE f == functions[fn]
           d == in.functions[fn]
<1>1. /\ ReadState(frame, functions) /\ in \in Inputs
      /\ fn <= Len(functions) /\ fn \in 1 .. Len(functions) + 1
      /\ Walk(block, arc, f, d) /\ (pc = "simple" => Again(block, f))
  BY DEF TypesInv, ReadInv, ControlInv, WalkInv
<1>2. functions \in Seq(FunctionSet) /\ fn \in DOMAIN functions
  <2>1. functions \in Seq(FunctionSet)
    BY <1>1 DEF ReadState
  <2>2. Len(functions) \in Nat /\ DOMAIN functions = 1 .. Len(functions)
    BY <2>1, LenProperties
  <2>3. QED
    BY <1>1, <2>1, <2>2
<1>3. f \in FunctionSet
  BY <1>2, LenProperties, ElementOfSeq
<1>4. f.of = fn /\ PartOf(f, d)
  BY <1>1, <1>2 DEF ReadState
<1>5. Current = f /\ Descr = d
  BY <1>4 DEF Current, Descr
<1>6. Graph(d)
  <2>1. /\ DOMAIN in.functions = 1 .. Len(in.functions)
        /\ \A i \in DOMAIN in.functions : Graph(in.functions[i])
    BY <1>1, GraphOf
  <2>2. f.of \in 1 .. Len(in.functions)
    BY <1>3, FunctionTypes
  <2>3. QED
    BY <1>4, <2>1, <2>2
<1>7. Found = {k \in arc .. Len(f.arcs) : f.arcs[k].source = block} /\ Here = Min(Found)
      /\ (IsLast <=> Here = Len(f.arcs))
  BY <1>5 DEF Found, Here, IsLast, arcs
<1> HIDE DEF f, d
<1>8. /\ Found = OutOf(f, block)
      /\ Found # {} =>
           /\ Here \in DOMAIN f.arcs /\ f.arcs[Here].source = block
           /\ OutOf(d, block) = Found
           /\ \A k \in DOMAIN f.arcs : f.arcs[k].source >= block => Here <= k
           /\ Here # Len(f.arcs) => Here + 1 \in DOMAIN f.arcs
           /\ Walk(block + 1, Here, f, d)
  <2> DEFINE found == {k \in arc .. Len(f.arcs) : f.arcs[k].source = block}
             h     == Min(found)
  <2>1. /\ found = OutOf(f, block)
        /\ found # {} =>
             /\ h \in DOMAIN f.arcs /\ f.arcs[h].source = block /\ OutOf(d, block) = found
             /\ \A k \in DOMAIN f.arcs : f.arcs[k].source >= block => h <= k
             /\ h # Len(f.arcs) => h + 1 \in DOMAIN f.arcs
             /\ Walk(block + 1, h, f, d)
    BY <1>1, <1>3, <1>4, <1>6, WalkStep
  <2>2. Found = found /\ Here = h
    BY <1>7
  <2> HIDE DEF found, h
  <2>3. QED
    BY <2>1, <2>2
<1>9. pc = "simple" => Found # {}
  <2>1. SUFFICES ASSUME pc = "simple" PROVE Found # {}
    OBVIOUS
  <2>2. Again(block, f) /\ block \in Nat
    BY <1>1, <2>1 DEF Walk
  <2>3. \E k \in DOMAIN f.arcs : f.arcs[k].source = block
    <3>1. f.arcs # << >>
      BY <1>1 DEF Walk
    <3>2. Len(f.arcs) \in DOMAIN f.arcs /\ \A k \in DOMAIN f.arcs : f.arcs[k].source \in Nat
      <4>1. /\ f.arcs \in Seq(ArcSet) /\ Len(f.arcs) \in Nat /\ DOMAIN f.arcs = 1 .. Len(f.arcs)
            /\ \A k \in DOMAIN f.arcs : f.arcs[k].source \in Nat
        BY <1>3, FunctionTypes
      <4>2. Len(f.arcs) # 0
        BY <3>1, <4>1, EmptySeq
      <4>3. QED
        BY <4>1, <4>2
    <3>3. block \in 0 .. f.arcs[Len(f.arcs)].source
      BY <2>2, <3>2 DEF Again
    <3>4. QED
      BY <2>2, <3>3 DEF Again
  <2>4. QED
    BY <1>8, <2>3 DEF OutOf
<1>10. f.blocks # << >> /\ f.arcs # << >>
  BY <1>1 DEF Walk
<1>11. QED
  BY <1>1, <1>2, <1>3, <1>4, <1>5, <1>6, <1>7, <1>8, <1>9, <1>10 DEF f, d

\* The number of calls is a number.
LEMMA ExecutedType ==
  ASSUME NEW d, Graph(d)
  PROVE  WasExecuted(d) \in Nat
<1>1. /\ Len(d.arcs) \in Nat /\ DOMAIN d.arcs = 1 .. Len(d.arcs)
      /\ \A k \in DOMAIN d.arcs : d.followed[k] \in Nat
  BY GraphTypes
<1>2. OutOf(d, 0) \subseteq 1 .. Len(d.arcs)
  BY <1>1 DEF OutOf
<1>3. IsFiniteSet(OutOf(d, 0)) /\ \A k \in OutOf(d, 0) : d.followed[k] \in Nat
  BY <1>1, <1>2, ArcsFinite
<1>4. QED
  BY <1>3, SumType DEF WasExecuted, Sum

(***************************************************************************)
(* What each step of the passes makes of the function: another one of the  *)
(* same shape.  ProcessBranch assigns twice.                               *)
(***************************************************************************)
First  == IF FallsFirst(Here) THEN Head(notTaken) ELSE Head(taken)
Second == IF FallsFirst(Here) THEN Head(taken) ELSE Head(notTaken)

\* What ProcessBranch makes of the function.
LEMMA ProcessFacts ==
  ASSUME TypesInv, ProcessBranch
  PROVE  LET f == functions[fn]
             e == Assigned(f, Here, First)
             g == Assigned(e, Here + 1, Second)
         IN  /\ functions' = [functions EXCEPT ![fn] = g]
             /\ First \in Nat /\ Second \in Nat
             /\ Here + 1 \in DOMAIN f.arcs
             /\ e \in FunctionSet /\ SameShape(f, e)
             /\ \A j \in DOMAIN f.arcs :
                  e.arcs[j].counter = IF j = Here THEN First ELSE f.arcs[j].counter
             /\ \A j \in DOMAIN f.blocks :
                  e.blocks[j] = IF j = f.arcs[Here].destination + 1
                                THEN f.blocks[j] + First ELSE f.blocks[j]
             /\ g \in FunctionSet /\ SameShape(f, g)
             /\ \A j \in DOMAIN f.arcs :
                  g.arcs[j].counter = IF j = Here + 1 THEN Second ELSE e.arcs[j].counter
             /\ \A j \in DOMAIN f.blocks :
                  g.blocks[j] = IF j = f.arcs[Here + 1].destination + 1
                                THEN e.blocks[j] + Second ELSE e.blocks[j]
<1> DEFINE f == functions[fn]
           d == in.functions[fn]
           e == Assigned(f, Here, First)
           g == Assigned(e, Here + 1, Second)
<1>1. pc = "branches" /\ Found # {} /\ ~ IsLast /\ taken # << >>
  BY DEF ProcessBranch
<1>2. /\ Current = f /\ fn \in DOMAIN functions /\ f \in FunctionSet
      /\ Graph(d) /\ PartOf(f, d) /\ f.blocks # << >>
      /\ Here \in DOMAIN f.arcs /\ Here + 1 \in DOMAIN f.arcs
  BY <1>1, CurrentFacts
<1>3. functions' = [functions EXCEPT ![fn] = g]
  BY DEF ProcessBranch, First, Second
<1>4. First \in Nat /\ Second \in Nat
  <2>1. taken \in Seq(Nat) /\ notTaken \in Seq(Nat) /\ Len(taken) = Len(notTaken)
    BY DEF TypesInv, ControlInv
  <2>2. notTaken # << >>
    BY <1>1, <2>1, EmptySeq
  <2>3. Head(taken) \in Nat /\ Head(notTaken) \in Nat
    BY <1>1, <2>1, <2>2, HeadTailProperties
  <2>4. QED
    BY <2>3 DEF First, Second
<1>5. \A k \in DOMAIN f.arcs : f.arcs[k].destination + 1 \in DOMAIN f.blocks
  BY <1>2, PartFacts
<1> DEFINE h == Here
           x == First
           y == Second
<1> HIDE DEF f, h, x, y
<1>6. /\ h \in DOMAIN f.arcs /\ h + 1 \in DOMAIN f.arcs /\ f \in FunctionSet
      /\ x \in Nat /\ y \in Nat
  BY <1>2, <1>4 DEF h, x, y
<1>7. LET u == Assigned(f, h, x)
      IN  /\ u \in FunctionSet /\ SameShape(f, u)
          /\ \A j \in DOMAIN f.arcs : u.arcs[j].counter = IF j = h THEN x ELSE f.arcs[j].counter
          /\ \A j \in DOMAIN f.blocks :
               u.blocks[j] = IF j = f.arcs[h].destination + 1 THEN f.blocks[j] + x ELSE f.blocks[j]
  BY <1>5, <1>6, AssignedFacts
<1> DEFINE u == Assigned(f, h, x)
           v == Assigned(u, h + 1, y)
<1> HIDE DEF u
<1>8. /\ u \in FunctionSet /\ SameShape(f, u)
      /\ \A j \in DOMAIN f.arcs : u.arcs[j].counter = IF j = h THEN x ELSE f.arcs[j].counter
      /\ \A j \in DOMAIN f.blocks :
           u.blocks[j] = IF j = f.arcs[h].destination + 1 THEN f.blocks[j] + x ELSE f.blocks[j]
  BY <1>7 DEF u
<1>9. /\ DOMAIN u.arcs = DOMAIN f.arcs /\ DOMAIN u.blocks = DOMAIN f.blocks
      /\ h + 1 \in DOMAIN u.arcs
      /\ u.arcs[h + 1].destination = f.arcs[h + 1].destination
      /\ u.arcs[h + 1].destination + 1 \in DOMAIN u.blocks
  BY <1>5, <1>6, <1>8 DEF SameShape
<1>10. LET w == Assigned(u, h + 1, y)
       IN  /\ w \in FunctionSet /\ SameShape(u, w)
           /\ \A j \in DOMAIN u.arcs :
                w.arcs[j].counter = IF j = h + 1 THEN y ELSE u.arcs[j].counter
           /\ \A j \in DOMAIN u.blocks :
                w.blocks[j] = IF j = u.arcs[h + 1].destination + 1 THEN u.blocks[j] + y
                              ELSE u.blocks[j]
  BY <1>6, <1>8, <1>9, AssignedFacts
<1>11. /\ v \in FunctionSet /\ SameShape(f, v)
       /\ \A j \in DOMAIN f.arcs :
            v.arcs[j].counter = IF j = h + 1 THEN y ELSE u.arcs[j].counter
       /\ \A j \in DOMAIN f.blocks :
            v.blocks[j] = IF j = f.arcs[h + 1].destination + 1 THEN u.blocks[j] + y ELSE u.blocks[j]
  <2>1. SameShape(u, v)
    BY <1>10
  <2>2. SameShape(f, v)
    <3> HIDE DEF v
    <3>1. QED
      BY <1>8, <2>1, ShapeChain
  <2>3. QED
    BY <1>9, <1>10, <2>2
<1>12. e = u /\ g = v
  BY DEF u, f, h, x, y
<1> HIDE DEF v, e, g
<1>13. /\ e \in FunctionSet /\ SameShape(f, e)
       /\ \A j \in DOMAIN f.arcs : e.arcs[j].counter = IF j = h THEN x ELSE f.arcs[j].counter
       /\ \A j \in DOMAIN f.blocks :
            e.blocks[j] = IF j = f.arcs[h].destination + 1 THEN f.blocks[j] + x ELSE f.blocks[j]
       /\ g \in FunctionSet /\ SameShape(f, g)
       /\ \A j \in DOMAIN f.arcs :
            g.arcs[j].counter = IF j = h + 1 THEN y ELSE e.arcs[j].counter
       /\ \A j \in DOMAIN f.blocks :
            g.blocks[j] = IF j = f.arcs[h + 1].destination + 1 THEN e.blocks[j] + y ELSE e.blocks[j]
  BY <1>8, <1>11, <1>12
<1>14. QED
  BY <1>2, <1>3, <1>4, <1>13 DEF e, g, f, h, x, y

\* The end of the first pass counts the calls in the first block.
LEMMA DoneFacts ==
  ASSUME TypesInv, BranchesDone
  PROVE  LET f == functions[fn]
             c == WasExecuted(in.functions[fn])
             g == [f EXCEPT !.blocks[1] = c]
         IN  /\ functions' = [functions EXCEPT ![fn] = g]
             /\ c \in Nat /\ 1 \in DOMAIN f.blocks
             /\ g \in FunctionSet /\ SameShape(f, g) /\ g.arcs = f.arcs
             /\ \A j \in DOMAIN f.blocks : g.blocks[j] = IF j = 1 THEN c ELSE f.blocks[j]
             /\ Again(0, f) /\ Walk(0, 1, f, in.functions[fn])
<1> DEFINE f  == functions[fn]
           d  == in.functions[fn]
           c  == WasExecuted(d)
           bs == [f.blocks EXCEPT ![1] = c]
           g  == [f EXCEPT !.blocks[1] = c]
<1>1. pc = "branches" /\ Found # {} /\ IsLast
  BY DEF BranchesDone
<1>2. /\ Current = f /\ Descr = d /\ fn \in DOMAIN functions /\ f \in FunctionSet
      /\ Graph(d) /\ PartOf(f, d) /\ Walk(block, arc, f, d)
      /\ Here \in DOMAIN f.arcs /\ f.arcs[Here].source = block
      /\ Walk(block + 1, Here, f, d) /\ f.blocks # << >>
      /\ \A k \in DOMAIN f.arcs : f.arcs[k].source >= block => Here <= k
  BY <1>1, CurrentFacts
<1>3. Here = Len(f.arcs)
  BY <1>1, <1>2 DEF IsLast, arcs
<1>4. functions' = [functions EXCEPT ![fn] = g]
  BY <1>2 DEF BranchesDone
<1>5. c \in Nat
  BY <1>2, ExecutedType
<1> HIDE DEF f, d, c
<1>6. /\ f.blocks \in Seq(Nat) /\ f.arcs \in Seq(ArcSet) /\ f.of \in 1 .. Len(in.functions)
      /\ DOMAIN f.blocks = 1 .. Len(f.blocks) /\ Len(f.blocks) \in Nat
      /\ DOMAIN f.arcs = 1 .. Len(f.arcs) /\ Len(f.arcs) \in Nat
      /\ \A k \in DOMAIN f.arcs : f.arcs[k].source \in Nat
  BY <1>2, FunctionTypes
<1>7. 1 \in DOMAIN f.blocks
  <2>1. Len(f.blocks) # 0
    BY <1>2, <1>6, EmptySeq
  <2>2. QED
    BY <1>6, <2>1
<1>8. /\ bs \in Seq(Nat) /\ Len(bs) = Len(f.blocks) /\ DOMAIN bs = DOMAIN f.blocks
      /\ \A j \in DOMAIN f.blocks : bs[j] = IF j = 1 THEN c ELSE f.blocks[j]
  BY <1>5, <1>6, <1>7, SeqChange
<1>9. g = [f EXCEPT !.blocks = bs]
  OBVIOUS
<1> HIDE DEF bs, g
<1>10. g.of = f.of /\ g.arcs = f.arcs /\ g.blocks = bs /\ g \in FunctionSet
  <2>1. f \in [of : 1 .. Len(in.functions), blocks : Seq(Nat), arcs : Seq(ArcSet)]
    BY <1>2 DEF FunctionSet
  <2>2. QED
    BY <1>8, <1>9, <2>1 DEF FunctionSet
<1>11. SameShape(f, g)
  BY <1>8, <1>10 DEF SameShape
<1>12. Again(0, f)
  <2>1. /\ block \in Nat /\ f.arcs[Len(f.arcs)].source = block
        /\ \A b \in 0 .. (block + 1) - 1 : \E k \in DOMAIN f.arcs : f.arcs[k].source = b
    BY <1>2, <1>3 DEF Walk
  <2>2. \A k \in DOMAIN f.arcs : f.arcs[k].source = block => k = Len(f.arcs)
    <3>1. ASSUME NEW k \in DOMAIN f.arcs, f.arcs[k].source = block PROVE k = Len(f.arcs)
      <4>1. f.arcs[k].source >= block
        BY <2>1, <3>1
      <4>2. Len(f.arcs) <= k
        BY <1>2, <1>3, <4>1
      <4>3. QED
        BY <1>6, <4>2
    <3>2. QED
      BY <3>1
  <2>3. (block + 1) - 1 = block /\ 0 <= block
    BY <2>1
  <2>4. QED
    BY <2>1, <2>2, <2>3 DEF Again
<1>13. Walk(0, 1, f, d)
  <2>1. /\ d.mapped /\ f.blocks # << >> /\ f.arcs # << >>
    BY <1>2 DEF Walk
  <2>2. 0 < Len(f.blocks) /\ 1 \in DOMAIN f.arcs /\ \A k \in DOMAIN f.arcs : 1 <= k
    BY <1>2, <1>6, <1>7
  <2>3. 0 .. 0 - 1 = {}
    OBVIOUS
  <2>4. QED
    BY <2>1, <2>2, <2>3 DEF Walk
<1>14. QED
  BY <1>4, <1>5, <1>7, <1>8, <1>10, <1>11, <1>12, <1>13 DEF f, d, c, g

\* The second pass passes on the count of the block.
LEMMA PropagateFacts ==
  ASSUME TypesInv, pc = "simple"
  PROVE  LET f == functions[fn]
             c == f.blocks[block + 1]
             g == Assigned(f, Here, c)
         IN  /\ blocks[block + 1] = c /\ c \in Nat /\ block + 1 \in DOMAIN f.blocks
             /\ Here \in DOMAIN f.arcs
             /\ g \in FunctionSet /\ SameShape(f, g)
             /\ \A j \in DOMAIN f.arcs :
                  g.arcs[j].counter = IF j = Here THEN c ELSE f.arcs[j].counter
             /\ \A j \in DOMAIN f.blocks :
                  g.blocks[j] = IF j = f.arcs[Here].destination + 1
                                THEN f.blocks[j] + c ELSE f.blocks[j]
<1> DEFINE f == functions[fn]
           d == in.functions[fn]
           c == f.blocks[block + 1]
           h == Here
<1>1. /\ Current = f /\ f \in FunctionSet /\ Graph(d) /\ PartOf(f, d) /\ f.blocks # << >>
      /\ Walk(block, arc, f, d) /\ h \in DOMAIN f.arcs
  BY CurrentFacts
<1>2. blocks[block + 1] = c
  BY <1>1 DEF blocks
<1> HIDE DEF f, d, h
<1>3. /\ DOMAIN f.blocks = 1 .. Len(f.blocks) /\ Len(f.blocks) \in Nat
      /\ \A b \in DOMAIN f.blocks : f.blocks[b] \in Nat
  BY <1>1, FunctionTypes
<1>4. block + 1 \in DOMAIN f.blocks /\ c \in Nat
  BY <1>1, <1>3 DEF Walk
<1>5. f.arcs[h].destination + 1 \in DOMAIN f.blocks
  BY <1>1, PartFacts
<1> HIDE DEF c
<1>6. LET g == Assigned(f, h, c)
      IN  /\ g \in FunctionSet /\ SameShape(f, g)
          /\ \A j \in DOMAIN f.arcs : g.arcs[j].counter = IF j = h THEN c ELSE f.arcs[j].counter
          /\ \A j \in DOMAIN f.blocks :
               g.blocks[j] = IF j = f.arcs[h].destination + 1 THEN f.blocks[j] + c ELSE f.blocks[j]
  BY <1>1, <1>4, <1>5, AssignedFacts
<1>7. QED
  BY <1>1, <1>2, <1>4, <1>6 DEF f, h, c

\* A walk that is not at the last arc may go on in the second pass.
LEMMA AgainStep ==
  ASSUME TypesInv, pc = "simple", ~ IsLast
  PROVE  Again(block + 1, functions[fn])
<1> DEFINE f == functions[fn]
           d == in.functions[fn]
<1>1. /\ Current = f /\ f \in FunctionSet /\ Graph(d) /\ PartOf(f, d) /\ f.blocks # << >>
      /\ Walk(block, arc, f, d) /\ Here \in DOMAIN f.arcs /\ f.arcs[Here].source = block
      /\ Again(block, f)
  BY CurrentFacts
<1>2. Here # Len(f.arcs)
  BY <1>1 DEF IsLast, arcs
<1> HIDE DEF f, d
<1>3. f.arcs[Len(f.arcs)].source # block
  BY <1>1, <1>2 DEF Again
<1>4. block \in Nat /\ f.arcs[Len(f.arcs)].source \in Nat /\ block <= f.arcs[Len(f.arcs)].source
  <2>1. /\ Len(f.arcs) \in Nat /\ DOMAIN f.arcs = 1 .. Len(f.arcs)
        /\ \A k \in DOMAIN f.arcs : f.arcs[k].source \in Nat
    BY <1>1, FunctionTypes
  <2>2. Len(f.arcs) \in DOMAIN f.arcs
    BY <1>1, <2>1
  <2>3. QED
    BY <1>1, <2>1, <2>2 DEF Walk, Again
<1>5. block + 1 <= f.arcs[Len(f.arcs)].source
  BY <1>3, <1>4
<1>6. QED
  BY <1>1, <1>5 DEF Again, f

(***************************************************************************)
(* What is written: the counters off the tree, their sum and maximum.      *)
(***************************************************************************)
OffArcs(f) == {k \in DOMAIN f.arcs : OffTree(f.arcs[k])}

\* There is a counter for each arc off the tree, at the place of the arc among
\* them.
LEMMA CountersFacts ==
  ASSUME NEW f \in FunctionSet
  PROVE  LET off == OffArcs(f)
             cs  == GetCounters(f)
         IN  /\ off \subseteq DOMAIN f.arcs /\ IsFiniteSet(off) /\ off \subseteq Nat
             /\ cs \in Seq(Nat) /\ Len(cs) = Cardinality(off)
             /\ \A k \in off : /\ Place(off, k) \in 1 .. Len(cs)
                               /\ cs[Place(off, k)] = f.arcs[k].counter
<1> DEFINE off == OffArcs(f)
           cs  == GetCounters(f)
           n   == Cardinality(off)
<1>1. /\ Len(f.arcs) \in Nat /\ DOMAIN f.arcs = 1 .. Len(f.arcs)
      /\ \A k \in DOMAIN f.arcs : f.arcs[k].counter \in Nat
  BY FunctionTypes
<1>2. off \subseteq 1 .. Len(f.arcs)
  BY <1>1 DEF OffArcs
<1>3. IsFiniteSet(off) /\ off \subseteq Nat /\ n \in Nat
  BY <1>1, <1>2, ArcsFinite
<1>4. cs = [j \in 1 .. n |-> f.arcs[Nth(off, j)].counter]
  BY DEF GetCounters, OffArcs
<1> HIDE DEF off, cs, n
<1>5. \A j \in 1 .. n : f.arcs[Nth(off, j)].counter \in Nat
  <2>1. ASSUME NEW j \in 1 .. n PROVE f.arcs[Nth(off, j)].counter \in Nat
    <3>1. Nth(off, j) \in off
      BY <1>3, NthFacts DEF n
    <3>2. QED
      BY <1>1, <1>2, <3>1
  <2>2. QED
    BY <2>1
<1>6. cs \in Seq(Nat) /\ Len(cs) = n
  BY <1>3, <1>4, <1>5
<1>7. ASSUME NEW k \in off
      PROVE  Place(off, k) \in 1 .. n /\ cs[Place(off, k)] = f.arcs[k].counter
  <2>1. Place(off, k) \in 1 .. n
    BY <1>3, PlaceFacts DEF n
  <2>2. Nth(off, Place(off, k)) = k
    BY <1>3, NthPlace
  <2>3. QED
    BY <1>4, <2>1, <2>2
<1>8. QED
  BY <1>1, <1>2, <1>3, <1>6, <1>7 DEF off, cs, n

\* Sum and maximum of a list of counts are numbers.
LEMMA TotalType ==
  ASSUME NEW cs \in Seq(Nat)
  PROVE  Total(cs) \in Nat /\ Max({0} \cup ToSet(cs)) \in Nat
<1>1. /\ Len(cs) \in Nat /\ DOMAIN cs = 1 .. Len(cs) /\ IsFiniteSet(DOMAIN cs)
      /\ \A i \in DOMAIN cs : cs[i] \in Nat
  <2>1. Len(cs) \in Nat /\ DOMAIN cs = 1 .. Len(cs)
    BY LenProperties
  <2>2. 1 .. Len(cs) \subseteq 1 .. Len(cs)
    OBVIOUS
  <2>3. IsFiniteSet(DOMAIN cs)
    BY <2>1, <2>2, ArcsFinite
  <2>4. QED
    BY <2>1, <2>3, ElementOfSeq
<1>2. Total(cs) \in Nat
  BY <1>1, SumType DEF Total, SumFunction
<1> DEFINE T == ToSet(cs)
<1>3. T \subseteq Nat /\ IsFiniteSet(T)
  <2>1. cs \in Surjection(DOMAIN cs, T)
    <3>1. cs \in [DOMAIN cs -> T]
      BY <1>1 DEF ToSet
    <3>2. \A t \in T : \E i \in DOMAIN cs : cs[i] = t
      BY DEF ToSet
    <3> HIDE DEF T
    <3>3. QED
      BY <3>1, <3>2 DEF Surjection
  <2>2. T \subseteq Nat
    BY <1>1 DEF ToSet
  <2> HIDE DEF T
  <2>3. QED
    BY <1>1, <2>1, <2>2, FS_Surjection
<1> HIDE DEF T
<1>4. Max({0} \cup T) \in {0} \cup T
  <2> DEFINE U == {0} \cup T
  <2>1. U \subseteq Int /\ U # {}
    BY <1>3
  <2>2. IsFiniteSet(U)
    BY <1>3, FS_Singleton, FS_Union
  <2> HIDE DEF U
  <2>3. PICK x \in U : \A y \in U : x >= y
    BY <2>1, <2>2, FiniteGreatest
  <2>4. Max(U) = CHOOSE z \in U : \A y \in U : z >= y
    BY DEF Max
  <2>5. Max(U) \in U
    BY <2>3, <2>4
  <2>6. QED
    BY <2>5 DEF U
<1>5. Max({0} \cup T) \in Nat
  <2>1. {0} \cup T \subseteq Nat
    BY <1>3
  <2>2. QED
    BY ONLY <1>4, <2>1
<1>6. QED
  BY <1>2, <1>5 DEF T

GcdaSet == [written : Seq([of : Nat, counters : Seq(Nat)]), counters : Nat,
            sum : Nat, max : Nat]

\* Summing up a list of counts, and noting it, keep the data file in its type.
LEMMA SummedType ==
  ASSUME gcda \in GcdaSet, NEW cs \in Seq(Nat), NEW i \in Nat
  PROVE  /\ Summed(cs) \in GcdaSet /\ Summed(cs).written = gcda.written
         /\ Summed(cs).counters = gcda.counters + Len(cs)
         /\ LET g == [Summed(cs) EXCEPT !.written = Append(@, [of |-> i, counters |-> cs])]
            IN  /\ g \in GcdaSet /\ g.written = Append(gcda.written, [of |-> i, counters |-> cs])
                /\ g.counters = gcda.counters + Len(cs)
<1>1. Len(cs) \in Nat /\ Total(cs) \in Nat /\ Max({0} \cup ToSet(cs)) \in Nat
  BY LenProperties, TotalType
<1> DEFINE s == Total(cs)
           m == Max({0} \cup ToSet(cs))
           n == gcda.counters + Len(cs)
           e == [of |-> i, counters |-> cs]
           w == Append(gcda.written, e)
<1>2. Summed(cs) = [gcda EXCEPT !.counters = n, !.sum = s, !.max = m]
  BY DEF Summed
<1>3. n \in Nat /\ s \in Nat /\ m \in Nat
  BY <1>1 DEF GcdaSet
<1>4. /\ gcda = [written |-> gcda.written, counters |-> gcda.counters,
                 sum |-> gcda.sum, max |-> gcda.max]
      /\ gcda.written \in Seq([of : Nat, counters : Seq(Nat)])
  BY DEF GcdaSet
<1> HIDE DEF s, m, n
<1>5. Summed(cs) = [written |-> gcda.written, counters |-> n, sum |-> s, max |-> m]
  BY <1>2, <1>4
<1>6. e \in [of : Nat, counters : Seq(Nat)]
  OBVIOUS
<1>7. w \in Seq([of : Nat, counters : Seq(Nat)])
  <2> HIDE DEF e
  <2>1. QED
    BY <1>4, <1>6, AppendProperties
<1> HIDE DEF w
<1>8. [Summed(cs) EXCEPT !.written = w]
        = [written |-> w, counters |-> n, sum |-> s, max |-> m]
  BY <1>5
<1>9. [Summed(cs) EXCEPT !.written = Append(@, [of |-> i, counters |-> cs])]
        = [Summed(cs) EXCEPT !.written = w]
  BY <1>5 DEF w
<1>10. /\ Summed(cs) \in GcdaSet /\ Summed(cs).written = gcda.written
       /\ Summed(cs).counters = n
  BY <1>3, <1>4, <1>5 DEF GcdaSet
<1> DEFINE z == [Summed(cs) EXCEPT !.written = Append(@, [of |-> i, counters |-> cs])]
<1>11. z = [written |-> w, counters |-> n, sum |-> s, max |-> m]
  BY <1>8, <1>9
<1> HIDE DEF z
<1>12. z \in GcdaSet /\ z.written = w /\ z.counters = n
  BY <1>3, <1>7, <1>11 DEF GcdaSet
<1>13. QED
  BY <1>10, <1>12 DEF z, w, n

(***************************************************************************)
(* The first part of the inductive invariant: types, the reading and the   *)
(* walk.                                                                   *)
(***************************************************************************)
\* The notes file at hand does not change.
LEMMA ReadNext == ASSUME in' = in, ReadState(frame', functions') PROVE ReadInv'
<1>1. FrameSet' = FrameSet /\ FunctionSet' = FunctionSet
  BY DEF FrameSet, FunctionSet
<1>2. ReadState(frame, functions)'
  BY <1>1 DEF ReadState
<1>3. QED
  BY <1>2 DEF ReadInv

\* Before the first frame the types hold: nothing was read.
LEMMA TypesInit == ASSUME Init PROVE TypesInv
<1>1. ReadInv
  BY ReadInit
<1>2. /\ in \in Inputs /\ pc = "read" /\ functions = << >> /\ fn = 1 /\ taken = << >>
      /\ notTaken = << >> /\ gcda = NoData
  BY DEF Init
<1>3. fn \in 1 .. Len(functions) + 1
  BY <1>2
<1>4. gcda \in GcdaSet
  BY <1>2 DEF NoData, GcdaSet
<1>5. taken \in Seq(Nat) /\ notTaken \in Seq(Nat) /\ Len(taken) = Len(notTaken)
  BY <1>2
<1>6. ControlInv
  BY <1>2, <1>3, <1>4, <1>5 DEF ControlInv, GcdaSet
<1>7. WalkInv
  BY <1>2 DEF WalkInv
<1>8. QED
  BY <1>1, <1>6, <1>7 DEF TypesInv

\* The list of functions.
LEMMA ListFacts ==
  ASSUME TypesInv
  PROVE  /\ Len(functions) \in Nat /\ DOMAIN functions = 1 .. Len(functions)
         /\ functions \in Seq(FunctionSet) /\ \A i \in DOMAIN functions : functions[i] \in FunctionSet
         /\ fn \in 1 .. Len(functions) + 1
         /\ taken \in Seq(Nat) /\ notTaken \in Seq(Nat) /\ Len(taken) = Len(notTaken)
         /\ gcda \in GcdaSet /\ in \in Inputs /\ ReadState(frame, functions)
         /\ \A i \in DOMAIN functions :
              /\ functions[i].of = i /\ i \in DOMAIN in.functions /\ Graph(in.functions[i])
              /\ PartOf(functions[i], in.functions[i])
<1>1. functions \in Seq(FunctionSet) /\ ReadState(frame, functions) /\ in \in Inputs
  BY DEF TypesInv, ReadInv, ReadState, ControlInv
<1>2. /\ Len(functions) \in Nat /\ DOMAIN functions = 1 .. Len(functions)
      /\ \A i \in DOMAIN functions : functions[i] \in FunctionSet
  BY <1>1, LenProperties, ElementOfSeq
<1>3. \A i \in DOMAIN functions :
        /\ functions[i].of = i /\ i \in DOMAIN in.functions /\ Graph(in.functions[i])
        /\ PartOf(functions[i], in.functions[i])
  <2>1. ASSUME NEW i \in DOMAIN functions
        PROVE  /\ functions[i].of = i /\ i \in DOMAIN in.functions /\ Graph(in.functions[i])
               /\ PartOf(functions[i], in.functions[i])
    <3>1. functions[i].of = i /\ PartOf(functions[i], in.functions[i])
      BY <1>1 DEF ReadState
    <3>2. functions[i].of \in 1 .. Len(in.functions)
      BY <1>2, FunctionTypes
    <3>3. QED
      BY <1>1, <3>1, <3>2, GraphOf
  <2>2. QED
    BY <2>1
<1>4. /\ fn \in 1 .. Len(functions) + 1 /\ gcda \in GcdaSet
      /\ taken \in Seq(Nat) /\ notTaken \in Seq(Nat) /\ Len(taken) = Len(notTaken)
  BY DEF TypesInv, ControlInv, GcdaSet
<1>5. QED
  BY <1>1, <1>2, <1>3, <1>4

\* One function takes the place of another of its shape.
LEMMA ListKept ==
  ASSUME TypesInv, NEW g \in FunctionSet, fn \in DOMAIN functions, SameShape(functions[fn], g),
         functions' = [functions EXCEPT ![fn] = g]
  PROVE  /\ ReadState(frame, functions') /\ Len(functions') = Len(functions)
         /\ DOMAIN functions' = DOMAIN functions /\ functions'[fn] = g
         /\ \A i \in DOMAIN functions : i # fn => functions'[i] = functions[i]
<1> DEFINE gs == [functions EXCEPT ![fn] = g]
<1>1. ReadState(frame, functions)
  BY ListFacts
<1>2. /\ ReadState(frame, gs) /\ Len(gs) = Len(functions) /\ DOMAIN gs = DOMAIN functions
      /\ \A i \in DOMAIN functions : gs[i] = IF i = fn THEN g ELSE functions[i]
  BY <1>1, ReadKept
<1> HIDE DEF gs
<1>3. functions' = gs
  BY DEF gs
<1>4. QED
  BY <1>2, <1>3

\* The parts of the invariant that a step changes, put together.
LEMMA TypesTogether ==
  ASSUME TypesInv, in' = in, ReadState(frame', functions'), Len(functions') \in Nat,
         pc' \in {"read", "function", "branches", "simple", "write", "written", "failed"},
         fn' \in 1 .. Len(functions') + 1, pc' = "read" => fn' = 1,
         taken' \in Seq(Nat), notTaken' \in Seq(Nat), Len(taken') = Len(notTaken'),
         gcda' \in GcdaSet,
         pc' \in {"branches", "simple"} =>
           /\ fn' <= Len(functions')
           /\ Walk(block', arc', functions'[fn'], in.functions[fn'])
           /\ pc' = "simple" => Again(block', functions'[fn'])
  PROVE  TypesInv'
<1>1. ReadInv'
  BY ReadNext
<1>2. in \in Inputs
  BY ListFacts
<1>3. ControlInv'
  BY <1>2 DEF ControlInv, GcdaSet
<1>4. WalkInv'
  BY DEF WalkInv
<1>5. QED
  BY <1>1, <1>3, <1>4 DEF TypesInv

\* Every action keeps the types, the reading and the walk.
LEMMA TypesNext == ASSUME TypesInv, [Next]_vars PROVE TypesInv'
<1> USE TypesInv
<1>1. /\ Len(functions) \in Nat /\ DOMAIN functions = 1 .. Len(functions)
      /\ fn \in 1 .. Len(functions) + 1
      /\ taken \in Seq(Nat) /\ notTaken \in Seq(Nat) /\ Len(taken) = Len(notTaken)
      /\ gcda \in GcdaSet /\ in \in Inputs /\ ReadState(frame, functions)
      /\ pc = "read" => fn = 1
      /\ \A i \in DOMAIN functions :
           /\ functions[i] \in FunctionSet /\ functions[i].of = i /\ Graph(in.functions[i])
  <2>1. pc = "read" => fn = 1
    BY DEF TypesInv, ControlInv
  <2>2. QED
    BY <2>1, ListFacts
<1>2. << >> \in Seq(Nat) /\ Len(<< >>) = 0
  OBVIOUS
<1>3. pc \in {"branches", "simple"} => fn <= Len(functions)
  BY DEF TypesInv, WalkInv
<1>4. CASE UNCHANGED vars
  <2>1. /\ in' = in /\ pc' = pc /\ frame' = frame /\ functions' = functions /\ fn' = fn
        /\ block' = block /\ arc' = arc /\ taken' = taken /\ notTaken' = notTaken
        /\ gcda' = gcda
    BY <1>4 DEF vars
  <2>2. TypesInv'
    BY <2>1 DEF TypesInv, ControlInv, ReadInv, ReadState, WalkInv, FrameSet, FunctionSet
  <2>3. QED
    BY <2>2
<1>5. CASE Unreadable
  BY <1>1, <1>5, TypesTogether DEF Unreadable, iterators
<1>6. CASE ReadFrame
  <2>1. ReadState(frame', functions') /\ pc = "read"
    BY <1>1, <1>6, ReadFrameInv DEF TypesInv, ReadFrame
  <2>2. functions' \in Seq(FunctionSet)
    BY <2>1 DEF ReadState
  <2>3. Len(functions') \in Nat
    BY <2>2, LenProperties
  <2>4. 1 \in 1 .. Len(functions') + 1
    BY <2>3
  <2>5. QED
    BY <1>1, <1>6, <2>1, <2>3, <2>4, TypesTogether DEF ReadFrame, iterators
<1>7. CASE EndReading
  BY <1>1, <1>7, TypesTogether DEF EndReading, iterators
<1>8. CASE StartFunction
  <2>1. /\ in' = in /\ frame' = frame /\ functions' = functions /\ gcda' = gcda
        /\ fn <= Len(functions)
    BY <1>8 DEF StartFunction
  <2>2. CASE Unusable
    <3>1. NextFunction
      BY <1>8, <2>2 DEF StartFunction
    <3>2. fn + 1 \in 1 .. Len(functions) + 1
      BY <1>1, <2>1
    <3>3. QED
      BY <1>1, <1>2, <2>1, <3>1, <3>2, TypesTogether DEF NextFunction
  <2>3. CASE ~ Unusable
    <3> DEFINE f == functions[fn]
               d == in.functions[fn]
    <3>1. /\ pc' = "branches" /\ block' = 0 /\ arc' = 1 /\ fn' = fn
          /\ taken' = BranchCounts(Descr, "taken")
          /\ notTaken' = BranchCounts(Descr, "notTaken")
      BY <1>8, <2>3 DEF StartFunction
    <3>2. fn \in DOMAIN functions
      BY <1>1, <2>1
    <3>3. f \in FunctionSet /\ f.of = fn /\ Graph(d) /\ Current = f /\ Descr = d
      BY <1>1, <3>2 DEF Current, Descr
    <3>4. f.blocks # << >> /\ f.arcs # << >> /\ d.mapped
      BY <2>3, <3>3 DEF Unusable, blocks, arcs
    <3>5. /\ taken' \in Seq(Nat) /\ notTaken' \in Seq(Nat) /\ Len(taken') = Len(notTaken')
      <4> HIDE DEF d
      <4>1. LET n == Cardinality(ForksOf(d))
            IN  /\ BranchCounts(d, "taken") \in Seq(Nat)
                /\ Len(BranchCounts(d, "taken")) = IF d.merged \in 1 .. n THEN n - 1 ELSE n
        BY <3>3, BranchCountsFacts
      <4>2. LET n == Cardinality(ForksOf(d))
            IN  /\ BranchCounts(d, "notTaken") \in Seq(Nat)
                /\ Len(BranchCounts(d, "notTaken")) = IF d.merged \in 1 .. n THEN n - 1 ELSE n
        BY <3>3, BranchCountsFacts
      <4>3. QED
        BY <3>1, <3>3, <4>1, <4>2
    <3>6. Walk(0, 1, f, d)
      <4> HIDE DEF f, d
      <4>1. /\ f.blocks \in Seq(Nat) /\ f.arcs \in Seq(ArcSet)
            /\ DOMAIN f.arcs = 1 .. Len(f.arcs) /\ Len(f.arcs) \in Nat /\ Len(f.blocks) \in Nat
        BY <3>3, FunctionTypes
      <4>2. Len(f.blocks) # 0 /\ Len(f.arcs) # 0
        BY <3>4, <4>1, EmptySeq
      <4>3. 0 < Len(f.blocks) /\ 1 \in DOMAIN f.arcs /\ \A k \in DOMAIN f.arcs : 1 <= k
        BY <4>1, <4>2
      <4>4. 0 .. 0 - 1 = {}
        OBVIOUS
      <4>5. QED
        BY <3>4, <4>3, <4>4 DEF Walk
    <3>7. QED
      BY <1>1, <2>1, <3>1, <3>5, <3>6, TypesTogether
  <2>4. QED
    BY <2>2, <2>3
<1>9. CASE BranchFails
  <2>1. /\ in' = in /\ frame' = frame /\ functions' = functions /\ gcda' = gcda
        /\ fn <= Len(functions) /\ NextFunction
    BY <1>3, <1>9 DEF BranchFails
  <2>2. fn + 1 \in 1 .. Len(functions) + 1
    BY <1>1, <2>1
  <2>3. QED
    BY <1>1, <1>2, <2>1, <2>2, TypesTogether DEF NextFunction
<1>10. CASE ProcessBranch
  <2>1. /\ pc = "branches" /\ Found # {} /\ taken # << >>
        /\ in' = in /\ frame' = frame /\ gcda' = gcda /\ pc' = pc /\ fn' = fn
        /\ taken' = Tail(taken) /\ notTaken' = Tail(notTaken)
        /\ block' = block + 1 /\ arc' = Here
    BY <1>10 DEF ProcessBranch
  <2> DEFINE f == functions[fn]
             d == in.functions[fn]
  <2>2. /\ fn \in DOMAIN functions /\ f \in FunctionSet /\ f.arcs # << >>
        /\ Walk(block + 1, Here, f, d)
    BY <2>1, CurrentFacts
  <2>3. PICK g \in FunctionSet : functions' = [functions EXCEPT ![fn] = g] /\ SameShape(f, g)
    BY <1>10, ProcessFacts
  <2>4. ReadState(frame, functions') /\ Len(functions') = Len(functions) /\ functions'[fn] = g
    BY <2>2, <2>3, ListKept
  <2>5. Walk(block + 1, Here, g, d)
    <3> HIDE DEF f, d
    <3>1. QED
      BY <2>2, <2>3, WalkKept
  <2>6. /\ Tail(taken) \in Seq(Nat) /\ Tail(notTaken) \in Seq(Nat)
        /\ Len(Tail(taken)) = Len(Tail(notTaken))
    <3>1. notTaken # << >>
      BY <1>1, <2>1, EmptySeq
    <3>2. /\ Tail(taken) \in Seq(Nat) /\ Len(Tail(taken)) = Len(taken) - 1
          /\ Tail(notTaken) \in Seq(Nat) /\ Len(Tail(notTaken)) = Len(notTaken) - 1
      BY <1>1, <2>1, <3>1, HeadTailProperties
    <3>3. QED
      BY <1>1, <3>2
  <2>7. QED
    BY <1>1, <1>3, <2>1, <2>4, <2>5, <2>6, TypesTogether
<1>11. CASE PassBranch
  <2>1. /\ pc = "branches" /\ Found # {}
        /\ in' = in /\ frame' = frame /\ gcda' = gcda /\ pc' = pc /\ fn' = fn
        /\ functions' = functions /\ taken' = taken /\ notTaken' = notTaken
        /\ block' = block + 1 /\ arc' = Here
    BY <1>11 DEF PassBranch
  <2>2. Walk(block + 1, Here, functions[fn], in.functions[fn])
    BY <2>1, CurrentFacts
  <2>3. QED
    BY <1>1, <1>3, <2>1, <2>2, TypesTogether
<1>12. CASE BranchesDone
  <2>1. /\ pc = "branches" /\ pc' = "simple" /\ block' = 0 /\ arc' = 1
        /\ in' = in /\ frame' = frame /\ fn' = fn /\ taken' = taken /\ notTaken' = notTaken
        /\ gcda' = gcda
    BY <1>12 DEF BranchesDone
  <2> DEFINE f == functions[fn]
             d == in.functions[fn]
  <2>2. /\ fn \in DOMAIN functions /\ f \in FunctionSet /\ f.arcs # << >>
    BY <2>1, CurrentFacts
  <2>3. Again(0, f) /\ Walk(0, 1, f, d)
    BY <1>12, DoneFacts
  <2>4. PICK g \in FunctionSet : functions' = [functions EXCEPT ![fn] = g] /\ SameShape(f, g)
    BY <1>12, DoneFacts
  <2>5. ReadState(frame, functions') /\ Len(functions') = Len(functions) /\ functions'[fn] = g
    BY <2>2, <2>4, ListKept
  <2>6. Walk(0, 1, g, d) /\ Again(0, g)
    <3> HIDE DEF f, d
    <3>1. QED
      BY <2>2, <2>3, <2>4, WalkKept
  <2>7. QED
    BY <1>1, <1>3, <2>1, <2>5, <2>6, TypesTogether
<1>13. CASE PropagateBlock
  <2>1. /\ pc = "simple" /\ ~ IsLast
        /\ in' = in /\ frame' = frame /\ gcda' = gcda /\ pc' = pc /\ fn' = fn
        /\ taken' = taken /\ notTaken' = notTaken
        /\ block' = block + 1 /\ arc' = Here
    BY <1>13 DEF PropagateBlock
  <2> DEFINE f == functions[fn]
             d == in.functions[fn]
  <2>2. /\ fn \in DOMAIN functions /\ f \in FunctionSet /\ f.arcs # << >> /\ Current = f
        /\ Walk(block + 1, Here, f, d)
    BY <2>1, CurrentFacts
  <2>3. Again(block + 1, f)
    BY <2>1, AgainStep
  <2>4. CASE Passes(Here)
    <3>1. functions' = [functions EXCEPT ![fn] = Assigned(functions[fn], Here, blocks[block + 1])]
      BY <1>13, <2>4 DEF PropagateBlock
    <3>2. PICK g \in FunctionSet : functions' = [functions EXCEPT ![fn] = g] /\ SameShape(f, g)
      BY <2>1, <3>1, PropagateFacts
    <3>3. ReadState(frame, functions') /\ Len(functions') = Len(functions) /\ functions'[fn] = g
      BY <2>2, <3>2, ListKept
    <3>4. Walk(block + 1, Here, g, d) /\ Again(block + 1, g)
      <4> HIDE DEF f, d
      <4>1. QED
        BY <2>2, <2>3, <3>2, WalkKept
    <3>5. QED
      BY <1>1, <1>3, <2>1, <3>3, <3>4, TypesTogether
  <2>5. CASE ~ Passes(Here)
    <3>1. functions' = functions
      BY <1>13, <2>5 DEF PropagateBlock
    <3>2. QED
      BY <1>1, <1>3, <2>1, <2>2, <2>3, <3>1, TypesTogether
  <2>6. QED
    BY <2>4, <2>5
<1>14. CASE PropagateLast
  <2>1. /\ pc = "simple" /\ NextFunction /\ in' = in /\ frame' = frame /\ gcda' = gcda
        /\ functions' = [functions EXCEPT ![fn] = Assigned(functions[fn], Here, blocks[block + 1])]
    BY <1>14 DEF PropagateLast
  <2>2. fn \in DOMAIN functions /\ fn <= Len(functions)
    BY <1>3, <2>1, CurrentFacts
  <2>3. PICK g \in FunctionSet :
          functions' = [functions EXCEPT ![fn] = g] /\ SameShape(functions[fn], g)
    BY <2>1, PropagateFacts
  <2>4. ReadState(frame, functions') /\ Len(functions') = Len(functions)
    BY <2>2, <2>3, ListKept
  <2>5. fn + 1 \in 1 .. Len(functions) + 1
    BY <1>1, <2>2
  <2>6. QED
    BY <1>1, <1>2, <2>1, <2>4, <2>5, TypesTogether DEF NextFunction
<1>15. CASE OpenGcda
  <2>1. 1 \in 1 .. Len(functions) + 1
    BY <1>1
  <2>2. QED
    BY <1>1, <1>15, <2>1, TypesTogether DEF OpenGcda, memory, iterators
<1>16. CASE OpenFails
  BY <1>1, <1>16, TypesTogether DEF OpenFails, memory, iterators
<1>17. CASE WriteFunction \/ LoseFunction
  <2>1. /\ pc = "write" /\ fn <= Len(functions) /\ fn' = fn + 1 /\ pc' = pc
        /\ in' = in /\ frame' = frame /\ functions' = functions
        /\ taken' = taken /\ notTaken' = notTaken
    BY <1>17 DEF WriteFunction, LoseFunction, memory, iterators
  <2>2. fn \in DOMAIN functions /\ fn \in Nat /\ fn + 1 \in 1 .. Len(functions) + 1
    BY <1>1, <2>1
  <2>3. Current \in FunctionSet /\ Current.of = fn
    BY <1>1, <2>2 DEF Current
  <2>4. GetCounters(Current) \in Seq(Nat)
    BY <2>3, CountersFacts
  <2>5. gcda' \in GcdaSet
    <3> DEFINE cs == GetCounters(Current)
    <3>1. \/ gcda' = Summed(cs)
          \/ gcda' = [Summed(cs) EXCEPT !.written = Append(@, [of |-> Current.of, counters |-> cs])]
      BY <1>17 DEF WriteFunction, LoseFunction
    <3>2. cs \in Seq(Nat) /\ Current.of \in Nat
      BY <2>2, <2>3, <2>4
    <3> HIDE DEF cs
    <3>3. QED
      BY <1>1, <3>1, <3>2, SummedType
  <2>6. QED
    BY <1>1, <2>1, <2>2, <2>5, TypesTogether
<1>18. CASE WriteSummary
  BY <1>1, <1>18, TypesTogether DEF WriteSummary, memory, iterators
<1>19. QED
  BY <1>4, <1>5, <1>6, <1>7, <1>8, <1>9, <1>10, <1>11, <1>12, <1>13, <1>14, <1>15, <1>16, <1>17,
     <1>18 DEF Next

\* So they hold always.
LEMMA TypesSpec == Spec => []TypesInv
<1>1. Init => TypesInv
  BY TypesInit
<1>2. TypesInv /\ [Next]_vars => TypesInv'
  BY TypesNext
<1>3. QED
  BY <1>1, <1>2, PTL DEF Spec

(***************************************************************************)
(* Every variable keeps its type wherever the notes are cut off: the       *)
(* iterators point at a block and an arc as long as a function is          *)
(* processed, and the lists of branch counts stay of one length.           *)
(***************************************************************************)
THEOREM TypeCorrect == Spec => []TypeOK
<1>1. ASSUME TypesInv PROVE TypeOK
  <2>1. /\ in \in Inputs /\ functions \in Seq(FunctionSet) /\ fn \in 1 .. Len(functions) + 1
        /\ taken \in Seq(Nat) /\ notTaken \in Seq(Nat) /\ Len(taken) = Len(notTaken)
        /\ gcda \in GcdaSet
    BY <1>1, ListFacts
  <2>2. in \in InputType
    BY <2>1, GraphOf
  <2>3. pc \in {"read", "function", "branches", "simple", "write", "written", "failed"}
    BY <1>1 DEF TypesInv, ControlInv
  <2>4. frame \in FrameSet
    BY <1>1 DEF TypesInv, ReadInv, ReadState
  <2>5. pc \in {"branches", "simple"} => block < Len(blocks) /\ arc \in DOMAIN arcs
    <3>1. SUFFICES ASSUME pc \in {"branches", "simple"}
                   PROVE  block < Len(blocks) /\ arc \in DOMAIN arcs
      OBVIOUS
    <3>2. Current = functions[fn] /\ Walk(block, arc, functions[fn], in.functions[fn])
      BY <1>1, <3>1, CurrentFacts
    <3>3. QED
      BY <3>2 DEF Walk, blocks, arcs
  <2>6. {taken, notTaken} \subseteq Seq(Nat)
    BY <2>1
  <2>7. QED
    BY <2>1, <2>2, <2>3, <2>4, <2>5, <2>6 DEF TypeOK, FunctionSet, FrameSet, GcdaSet
<1>2. QED
  BY <1>1, TypesSpec, PTL

(***************************************************************************)
(* Blocks with at most two arcs: a conditional branch has both, and they   *)
(* are the arcs of branches of that block.                                 *)
(***************************************************************************)
LEMMA BlockArcs ==
  ASSUME NEW d, Graph(d), Binary(d), NEW b, OutOf(d, b) # {}
  PROVE  LET h == Min(OutOf(d, b))
         IN  /\ h \in DOMAIN d.arcs /\ d.arcs[h].source = b
             /\ h \in Beside(d) => OutOf(d, b) = {h, h + 1} /\ h + 1 \in DOMAIN d.arcs
             /\ h \notin Beside(d) => OutOf(d, b) = {h}
             /\ \A k \in ForksOf(d) : d.arcs[k].source = b => k = h
             /\ h \in ForksOf(d) => h \in Beside(d) /\ OutOf(d, b) \subseteq ForkArcs(d)
             /\ h \notin ForksOf(d) => OutOf(d, b) \cap ForkArcs(d) = {}
<1> DEFINE h == Min(OutOf(d, b))
           z == Max(OutOf(d, b))
<1>1. /\ Len(d.arcs) \in Nat /\ DOMAIN d.arcs = 1 .. Len(d.arcs)
      /\ \A k \in DOMAIN d.arcs : d.arcs[k].source \in Nat
  BY GraphTypes
<1>2. /\ h \in 1 .. Len(d.arcs) /\ z \in 1 .. Len(d.arcs) /\ h <= z
      /\ OutOf(d, b) = h .. z
  BY OutRange
<1> HIDE DEF h, z
<1>3. \A k \in h .. z : k \in DOMAIN d.arcs /\ d.arcs[k].source = b
  BY <1>2 DEF OutOf
<1>4. \A k \in DOMAIN d.arcs : d.arcs[k].source = b => k \in h .. z
  BY <1>2 DEF OutOf
<1>5. h \in DOMAIN d.arcs /\ d.arcs[h].source = b
  <2>1. h \in h .. z
    BY <1>1, <1>2
  <2>2. QED
    BY <1>3, <2>1
<1>6. \A k \in h .. z : k < z => k \in Beside(d)
  <2>1. ASSUME NEW k \in h .. z, k < z PROVE k \in Beside(d)
    <3>1. k + 1 \in h .. z /\ k \in 1 .. Len(d.arcs) - 1
      BY <1>1, <1>2, <2>1
    <3>2. d.arcs[k].source = d.arcs[k + 1].source
      BY <1>3, <3>1
    <3>3. QED
      BY <3>1, <3>2 DEF Beside
  <2>2. QED
    BY <2>1
<1>7. z <= h + 1
  <2>1. SUFFICES ASSUME z > h + 1 PROVE FALSE
    BY <1>1, <1>2
  <2>2. h \in h .. z /\ h < z /\ h + 1 \in h .. z /\ h + 1 < z
    BY <1>1, <1>2, <2>1
  <2>3. h \in Beside(d) /\ h + 1 \in Beside(d)
    BY <1>6, <2>2
  <2>4. QED
    BY <2>3 DEF Binary
<1>8. ASSUME h \in Beside(d) PROVE z = h + 1 /\ OutOf(d, b) = {h, h + 1} /\ h + 1 \in DOMAIN d.arcs
  <2>1. h + 1 \in DOMAIN d.arcs /\ d.arcs[h + 1].source = b
    BY <1>1, <1>2, <1>5, <1>8 DEF Beside
  <2>2. h + 1 \in h .. z
    BY <1>4, <2>1
  <2>3. z = h + 1
    BY <1>1, <1>2, <1>7, <2>2
  <2>4. h .. h + 1 = {h, h + 1}
    BY <1>1, <1>2
  <2>5. QED
    BY <1>2, <2>1, <2>3, <2>4
<1>9. ASSUME h \notin Beside(d) PROVE OutOf(d, b) = {h}
  <2>1. h \in h .. z
    BY <1>1, <1>2
  <2>2. ~ (h < z)
    BY <1>6, <1>9, <2>1
  <2>3. h = z /\ h .. h = {h}
    BY <1>1, <1>2, <2>2
  <2>4. QED
    BY <1>2, <2>3
<1>10. ForksOf(d) \subseteq Beside(d)
  <2>1. ASSUME NEW k \in ForksOf(d) PROVE k \in Beside(d)
    <3>1. k \in DOMAIN d.arcs /\ k < Len(d.arcs) /\ d.arcs[k].source = d.arcs[k + 1].source
      BY DEF ForksOf, Forks
    <3>2. k \in 1 .. Len(d.arcs) - 1
      BY <1>1, <3>1
    <3>3. QED
      BY <3>1, <3>2 DEF Beside
  <2>2. QED
    BY <2>1
<1>11. ASSUME NEW k \in ForksOf(d), d.arcs[k].source = b PROVE k = h
  <2>1. k \in Beside(d) /\ k \in DOMAIN d.arcs
    BY <1>10 DEF ForksOf
  <2>2. k \in OutOf(d, b)
    BY <1>11, <2>1 DEF OutOf
  <2>3. CASE h \in Beside(d)
    <3>1. h + 1 \notin Beside(d)
      BY <2>3 DEF Binary
    <3>2. k \in {h, h + 1}
      BY <1>8, <2>2, <2>3
    <3>3. QED
      BY <2>1, <3>1, <3>2
  <2>4. CASE h \notin Beside(d)
    BY <1>9, <2>2, <2>4
  <2>5. QED
    BY <2>3, <2>4
<1>12. ASSUME h \in ForksOf(d) PROVE h \in Beside(d) /\ OutOf(d, b) \subseteq ForkArcs(d)
  <2>1. h \in Beside(d)
    BY <1>10, <1>12
  <2>2. h \in ForkArcs(d) /\ h + 1 \in ForkArcs(d)
    BY <1>12 DEF ForkArcs
  <2>3. QED
    BY <1>8, <2>1, <2>2
<1>13. ASSUME h \notin ForksOf(d), NEW k \in OutOf(d, b), k \in ForkArcs(d) PROVE FALSE
  <2>1. k \in DOMAIN d.arcs /\ d.arcs[k].source = b
    BY DEF OutOf
  <2>2. CASE k \in ForksOf(d)
    BY <1>11, <1>13, <2>1, <2>2
  <2>3. CASE k \notin ForksOf(d)
    <3>1. PICK j \in ForksOf(d) : k = j + 1
      BY <1>13, <2>3 DEF ForkArcs
    <3>2. d.arcs[j].source = d.arcs[k].source
      BY <3>1 DEF ForksOf, Forks
    <3>3. j = h
      BY <1>11, <2>1, <3>2
    <3>4. QED
      BY <1>13, <3>3
  <2>4. QED
    BY <2>2, <2>3
<1>14. QED
  BY <1>5, <1>8, <1>9, <1>11, <1>12, <1>13 DEF h

(***************************************************************************)
(* The branches below the next block: those below this one, and the branch *)
(* of this block, which is the next in their order.                        *)
(***************************************************************************)
LEMMA NextFork ==
  ASSUME NEW d, Graph(d), Binary(d), NEW b \in Nat, OutOf(d, b) # {}
  PROVE  LET h == Min(OutOf(d, b))
             n == Cardinality(ForksBelow(d, b))
         IN  /\ n \in Nat
             /\ h \in ForksOf(d) =>
                  /\ Cardinality(ForksBelow(d, b + 1)) = n + 1
                  /\ n + 1 <= Cardinality(ForksOf(d)) /\ Nth(ForksOf(d), n + 1) = h
             /\ h \notin ForksOf(d) => ForksBelow(d, b + 1) = ForksBelow(d, b)
<1> DEFINE h == Min(OutOf(d, b))
           S == ForksOf(d)
           B == ForksBelow(d, b)
           n == Cardinality(B)
<1>1. /\ S \subseteq 1 .. Len(d.arcs) /\ IsFiniteSet(S) /\ S \subseteq Nat
      /\ Cardinality(S) \in Nat /\ \A k \in S : k \in DOMAIN d.arcs
  BY ForkFacts
<1>2. /\ h \in DOMAIN d.arcs /\ d.arcs[h].source = b
      /\ \A k \in S : d.arcs[k].source = b => k = h
  BY BlockArcs
<1>3. B \subseteq S /\ IsFiniteSet(B) /\ n \in Nat
  <2>1. B \subseteq S
    BY DEF ForksBelow
  <2> HIDE DEF B, S
  <2>2. IsFiniteSet(B)
    BY <1>1, <2>1, FS_Subset
  <2>3. QED
    BY <2>1, <2>2, FS_CardinalityType
<1>4. \A k \in DOMAIN d.arcs : k \in Nat /\ d.arcs[k].source \in Nat
  BY GraphTypes
<1>5. \A k \in S : d.arcs[k].source < b + 1 <=> (d.arcs[k].source < b \/ k = h)
  <2>1. ASSUME NEW k \in S
        PROVE  d.arcs[k].source < b + 1 <=> (d.arcs[k].source < b \/ k = h)
    <3>1. d.arcs[k].source \in Nat
      BY <1>1, <1>4
    <3>2. d.arcs[k].source = b => k = h
      BY <1>2
    <3>3. k = h => d.arcs[k].source = b
      BY <1>2
    <3>4. QED
      BY <3>1, <3>2, <3>3
  <2>2. QED
    BY <2>1
<1>6. CASE h \in S
  <2>1. ForksBelow(d, b + 1) = B \cup {h}
    BY <1>5, <1>6 DEF ForksBelow
  <2>2. h \notin B
    BY <1>2 DEF ForksBelow
  <2>3. Cardinality(ForksBelow(d, b + 1)) = n + 1
    <3> HIDE DEF B, h
    <3>1. QED
      BY <1>3, <2>1, <2>2, FS_AddElement
  <2>4. UpTo(S, h) = B \cup {h}
    <3>1. ASSUME NEW k \in S PROVE k <= h <=> (d.arcs[k].source < b \/ k = h)
      <4>1. k \in DOMAIN d.arcs /\ k \in Nat /\ h \in Nat /\ d.arcs[k].source \in Nat
        BY <1>1, <1>2, <1>4
      <4>2. /\ k <= h => d.arcs[k].source <= d.arcs[h].source
            /\ d.arcs[k].source < d.arcs[h].source => k < h
        BY <1>2, <4>1, GraphOrder
      <4>3. d.arcs[h].source = b /\ (d.arcs[k].source = b => k = h)
        BY <1>2
      <4> HIDE DEF h, S
      <4>4. QED
        BY <4>1, <4>2, <4>3
    <3>2. QED
      BY <1>6, <3>1 DEF UpTo, ForksBelow
  <2>5. Place(S, h) = n + 1
    <3> HIDE DEF B, h, S
    <3>1. Cardinality(B \cup {h}) = n + 1
      BY <1>3, <2>2, FS_AddElement
    <3>2. QED
      BY <2>4, <3>1 DEF Place
  <2>6. Place(S, h) \in 1 .. Cardinality(S) /\ Nth(S, Place(S, h)) = h
    <3> HIDE DEF S, h
    <3>1. QED
      BY <1>1, <1>6, PlaceFacts, NthPlace
  <2>7. n + 1 <= Cardinality(S) /\ Nth(S, n + 1) = h
    <3> HIDE DEF S, h, n
    <3>1. QED
      BY <1>1, <2>5, <2>6
  <2>8. QED
    BY <1>3, <1>6, <2>3, <2>7
<1>7. CASE h \notin S
  <2>1. ForksBelow(d, b + 1) = B
    BY <1>5, <1>7 DEF ForksBelow
  <2>2. QED
    BY <1>3, <1>7, <2>1
<1>8. QED
  BY <1>6, <1>7

(***************************************************************************)
(* Sums of counters and of what was followed.                              *)
(***************************************************************************)
LEMMA FollowedSums ==
  ASSUME NEW d, Graph(d)
  PROVE  /\ \A T \in SUBSET DOMAIN d.arcs : IsFiniteSet(T) /\ Sum(d.followed, T) \in Nat
         /\ \A b : Into(d, b) \in SUBSET DOMAIN d.arcs /\ OutOf(d, b) \in SUBSET DOMAIN d.arcs
         /\ \A b : Entered(d, b) \in Nat
<1>1. /\ Len(d.arcs) \in Nat /\ DOMAIN d.arcs = 1 .. Len(d.arcs)
      /\ \A k \in DOMAIN d.arcs : d.followed[k] \in Nat
  BY GraphTypes
<1>2. ASSUME NEW T \in SUBSET DOMAIN d.arcs
      PROVE  IsFiniteSet(T) /\ Sum(d.followed, T) \in Nat
  <2>1. IsFiniteSet(T)
    BY <1>1, ArcsFinite
  <2>2. \A k \in T : d.followed[k] \in Nat
    BY <1>1
  <2>3. QED
    BY <2>1, <2>2, SumType DEF Sum
<1>3. \A b : Into(d, b) \in SUBSET DOMAIN d.arcs /\ OutOf(d, b) \in SUBSET DOMAIN d.arcs
  BY DEF Into, OutOf
<1>4. ASSUME NEW b PROVE Entered(d, b) \in Nat
  <2>1. Sum(d.followed, Into(d, b)) \in Nat
    BY <1>2, <1>3
  <2>2. WasExecuted(d) \in Nat
    BY ExecutedType
  <2>3. QED
    BY <2>1, <2>2 DEF Entered
<1>5. QED
  BY <1>2, <1>3, <1>4

\* The arcs read into a block are arcs of the graph into it, all of them
\* when the function is read whole.
LEMMA IntoPart ==
  ASSUME NEW d, Graph(d), NEW f \in FunctionSet, PartOf(f, d), NEW b
  PROVE  /\ Into(f, b) \subseteq Into(d, b) /\ Into(f, b) \subseteq DOMAIN f.arcs
         /\ IsFiniteSet(Into(f, b))
         /\ Whole(f, d) => Into(f, b) = Into(d, b)
<1>1. /\ Len(d.arcs) \in Nat /\ DOMAIN d.arcs = 1 .. Len(d.arcs)
      /\ Len(f.arcs) \in Nat /\ DOMAIN f.arcs = 1 .. Len(f.arcs)
  BY GraphTypes, FunctionTypes
<1>2. /\ Len(f.arcs) <= Len(d.arcs)
      /\ \A k \in DOMAIN f.arcs : f.arcs[k].destination = d.arcs[k].destination
  BY DEF PartOf
<1>3. DOMAIN f.arcs \subseteq DOMAIN d.arcs
  BY <1>1, <1>2
<1>4. Into(f, b) \subseteq Into(d, b) /\ Into(f, b) \subseteq DOMAIN f.arcs
  BY <1>2, <1>3 DEF Into
<1>5. IsFiniteSet(Into(f, b))
  BY <1>1, <1>4, ArcsFinite
<1>6. Whole(f, d) => Into(f, b) = Into(d, b)
  <2>1. Whole(f, d) => DOMAIN f.arcs = DOMAIN d.arcs
    BY <1>1 DEF Whole
  <2>2. QED
    BY <1>2, <2>1 DEF Into
<1>7. QED
  BY <1>4, <1>5, <1>6

(***************************************************************************)
(* Where no arc counts too much, no block does; where all count what was   *)
(* followed, the blocks count what was entered.                            *)
(***************************************************************************)
LEMMA CountedSums ==
  ASSUME NEW d, Graph(d), NEW f \in FunctionSet, PartOf(f, d), NEW b,
         \A k \in Into(f, b) : f.arcs[k].counter <= d.followed[k]
  PROVE  /\ Sum(Counter(f), Into(f, b)) \in Nat /\ Sum(d.followed, Into(d, b)) \in Nat
         /\ Sum(Counter(f), Into(f, b)) <= Sum(d.followed, Into(d, b))
         /\ Whole(f, d) /\ (\A k \in Into(f, b) : f.arcs[k].counter = d.followed[k]) =>
              Sum(Counter(f), Into(f, b)) = Sum(d.followed, Into(d, b))
<1> DEFINE I == Into(f, b)
           J == Into(d, b)
<1>1. I \subseteq J /\ I \subseteq DOMAIN f.arcs /\ IsFiniteSet(I) /\ (Whole(f, d) => I = J)
  BY IntoPart
<1>2. J \subseteq DOMAIN d.arcs /\ IsFiniteSet(J) /\ Sum(d.followed, J) \in Nat
  BY FollowedSums
<1>3. /\ \A k \in DOMAIN d.arcs : d.followed[k] \in Nat
      /\ \A k \in DOMAIN f.arcs : f.arcs[k].counter \in Nat
  BY GraphTypes, FunctionTypes
<1>4. \A k \in I : Counter(f)[k] = f.arcs[k].counter
  BY <1>1 DEF Counter
<1>5. \A k \in I : /\ Counter(f)[k] \in Nat /\ d.followed[k] \in Nat
                   /\ Counter(f)[k] <= d.followed[k]
  BY <1>1, <1>2, <1>3, <1>4
<1> DEFINE c == Counter(f)
<1> HIDE DEF I, J, c
<1>6. Sum(c, I) \in Nat
  BY <1>1, <1>5, SumType DEF Sum, c
<1>7. Sum(c, I) <= Sum(d.followed, I)
  BY <1>1, <1>5, SumSmaller DEF Sum, c
<1>8. Sum(d.followed, I) <= Sum(d.followed, J)
  <2>1. \A k \in J : d.followed[k] \in Nat
    BY <1>2, <1>3
  <2>2. QED
    BY <1>1, <1>2, <2>1, SumPart DEF Sum
<1>9. Sum(d.followed, I) \in Nat
  BY <1>1, <1>5, SumType DEF Sum
<1>10. Sum(c, I) <= Sum(d.followed, J)
  BY <1>2, <1>6, <1>7, <1>8, <1>9
<1>11. ASSUME Whole(f, d), \A k \in I : f.arcs[k].counter = d.followed[k]
       PROVE  Sum(c, I) = Sum(d.followed, J)
  <2>1. \A k \in I : c[k] = d.followed[k]
    BY <1>4, <1>11 DEF c
  <2>2. Sum(c, I) = Sum(d.followed, I)
    BY <1>1, <2>1, SumEqual DEF Sum
  <2>3. QED
    BY <1>1, <1>11, <2>2
<1>12. QED
  BY <1>2, <1>6, <1>10, <1>11 DEF I, J, c

\* An assignment to an arc not counted yet keeps the balance.
LEMMA BalanceKept ==
  ASSUME NEW f \in FunctionSet, NEW g \in FunctionSet, SameShape(f, g),
         NEW k \in DOMAIN f.arcs, f.arcs[k].counter = 0, NEW c \in Nat,
         \A j \in DOMAIN f.arcs : g.arcs[j].counter = IF j = k THEN c ELSE f.arcs[j].counter,
         \A j \in DOMAIN f.blocks :
           g.blocks[j] = IF j = f.arcs[k].destination + 1 THEN f.blocks[j] + c ELSE f.blocks[j],
         NEW B, Balanced(f, B)
  PROVE  Balanced(g, B)
<1>1. /\ DOMAIN g.arcs = DOMAIN f.arcs /\ DOMAIN g.blocks = DOMAIN f.blocks
      /\ \A j \in DOMAIN f.arcs : g.arcs[j].destination = f.arcs[j].destination
  BY DEF SameShape
<1>2. /\ Len(f.arcs) \in Nat /\ DOMAIN f.arcs = 1 .. Len(f.arcs)
      /\ \A j \in DOMAIN f.arcs : f.arcs[j].counter \in Nat /\ f.arcs[j].destination \in Nat
      /\ DOMAIN f.blocks = 1 .. Len(f.blocks)
  BY FunctionTypes
<1>3. ASSUME NEW b \in DOMAIN g.blocks \cap B
      PROVE  g.blocks[b] = Sum(Counter(g), Into(g, b - 1))
  <2> DEFINE I == Into(f, b - 1)
             u == Counter(f)
             v == Counter(g)
  <2>1. Into(g, b - 1) = I
    BY <1>1 DEF Into
  <2>2. I \subseteq DOMAIN f.arcs /\ IsFiniteSet(I)
    <3>1. I \subseteq DOMAIN f.arcs
      BY DEF Into
    <3>2. QED
      BY <1>2, <3>1, ArcsFinite
  <2>3. f.blocks[b] = Sum(u, I)
    BY <1>1, <1>3 DEF Balanced
  <2>4. \A j \in DOMAIN f.arcs : /\ u[j] = f.arcs[j].counter /\ u[j] \in Nat
                                 /\ v[j] = IF j = k THEN c ELSE u[j]
    BY <1>1, <1>2 DEF Counter
  <2>5. k \in I <=> b = f.arcs[k].destination + 1
    <3>1. k \in I <=> f.arcs[k].destination = b - 1
      BY DEF Into
    <3>2. f.arcs[k].destination \in Nat /\ b \in Nat
      BY <1>1, <1>2, <1>3
    <3>3. QED
      BY <3>1, <3>2
  <2> HIDE DEF I, u, v
  <2>6. CASE k \in I
    <3>1. /\ \A j \in I : u[j] \in Nat /\ v[k] \in Nat
          /\ \A j \in I \ {k} : v[j] = u[j]
      BY <2>2, <2>4
    <3>2. Sum(v, I) + u[k] = Sum(u, I) + v[k]
      <4>1. v[k] \in Nat
        BY <2>4
      <4>2. QED
        BY <2>2, <2>6, <3>1, <4>1, SumChange DEF Sum
    <3>3. u[k] = 0 /\ v[k] = c
      BY <2>4
    <3>4. Sum(v, I) \in Nat /\ Sum(u, I) \in Nat
      <4>1. \A j \in I : u[j] \in Nat /\ v[j] \in Nat
        BY <2>2, <2>4
      <4>2. QED
        BY <2>2, <4>1, SumType DEF Sum
    <3>5. Sum(v, I) = Sum(u, I) + c
      BY <3>2, <3>3, <3>4
    <3>6. g.blocks[b] = f.blocks[b] + c
      BY <1>1, <1>3, <2>5, <2>6
    <3>7. QED
      BY <2>1, <2>3, <3>5, <3>6 DEF v
  <2>7. CASE k \notin I
    <3>1. \A j \in I : u[j] = v[j]
      BY <2>2, <2>4, <2>7
    <3>2. Sum(u, I) = Sum(v, I)
      BY <2>2, <3>1, SumEqual DEF Sum
    <3>3. g.blocks[b] = f.blocks[b]
      BY <1>1, <1>3, <2>5, <2>7
    <3>4. QED
      BY <2>1, <2>3, <3>2, <3>3 DEF v
  <2>8. QED
    BY <2>6, <2>7
<1>4. QED
  BY <1>3 DEF Balanced

(***************************************************************************)
(* The first pass.                                                         *)
(***************************************************************************)
\* No arc leads to the entry.
LEMMA IntoEntry ==
  ASSUME NEW d, Graph(d), NEW f \in FunctionSet, PartOf(f, d), f.blocks # << >>
  PROVE  Into(f, 0) = {} /\ Sum(Counter(f), Into(f, 0)) = 0
<1>1. \A k \in DOMAIN f.arcs : f.arcs[k].destination # 0
  BY PartFacts
<1>2. Into(f, 0) = {}
  BY <1>1 DEF Into
<1>3. QED
  BY <1>2, SumEmpty DEF Sum

\* What is not greater than what was followed is not greater in the blocks.
LEMMA BlocksBelow ==
  ASSUME NEW d, Graph(d), NEW f \in FunctionSet, PartOf(f, d), f.blocks # << >>,
         \A k \in DOMAIN f.arcs : f.arcs[k].counter <= d.followed[k],
         Balanced(f, Nat \ {1}), f.blocks[1] <= WasExecuted(d)
  PROVE  Below(f, d)
<1>1. ASSUME NEW b \in DOMAIN f.blocks PROVE f.blocks[b] <= Entered(d, b - 1)
  <2>1. b \in Nat
    BY FunctionTypes
  <2>2. CASE b = 1
    BY <2>2 DEF Entered
  <2>3. CASE b # 1
    <3>1. f.blocks[b] = Sum(Counter(f), Into(f, b - 1))
      BY <2>1, <2>3 DEF Balanced
    <3>2. Sum(Counter(f), Into(f, b - 1)) <= Sum(d.followed, Into(d, b - 1))
      <4>1. \A k \in Into(f, b - 1) : f.arcs[k].counter <= d.followed[k]
        BY DEF Into
      <4>2. QED
        BY <4>1, CountedSums
    <3>3. b - 1 # 0
      BY <2>1, <2>3
    <3>4. QED
      BY <3>1, <3>2, <3>3 DEF Entered
  <2>4. QED
    BY <2>2, <2>3
<1>2. QED
  BY <1>1 DEF Below

\* A function nothing is counted of yet.
LEMMA FreshFacts ==
  ASSUME NEW d, Graph(d), NEW f \in FunctionSet, PartOf(f, d), Fresh(f)
  PROVE  Below(f, d) /\ Balanced(f, Nat)
<1>1. /\ Len(d.arcs) \in Nat /\ DOMAIN d.arcs = 1 .. Len(d.arcs)
      /\ Len(f.arcs) \in Nat /\ DOMAIN f.arcs = 1 .. Len(f.arcs) /\ Len(f.arcs) <= Len(d.arcs)
      /\ \A k \in DOMAIN d.arcs : d.followed[k] \in Nat
  BY GraphTypes, FunctionTypes DEF PartOf
<1>2. \A k \in DOMAIN f.arcs : f.arcs[k].counter <= d.followed[k]
  <2>1. ASSUME NEW k \in DOMAIN f.arcs PROVE f.arcs[k].counter <= d.followed[k]
    <3>1. k \in DOMAIN d.arcs /\ f.arcs[k].counter = 0
      BY <1>1 DEF Fresh
    <3>2. d.followed[k] \in Nat
      BY <1>1, <3>1
    <3>3. QED
      BY <3>1, <3>2
  <2>2. QED
    BY <2>1
<1>3. \A b \in DOMAIN f.blocks : f.blocks[b] <= Entered(d, b - 1)
  <2>1. ASSUME NEW b \in DOMAIN f.blocks PROVE f.blocks[b] <= Entered(d, b - 1)
    <3>1. f.blocks[b] = 0 /\ Entered(d, b - 1) \in Nat
      BY FollowedSums DEF Fresh
    <3>2. QED
      BY <3>1
  <2>2. QED
    BY <2>1
<1>4. ASSUME NEW b \in DOMAIN f.blocks PROVE f.blocks[b] = Sum(Counter(f), Into(f, b - 1))
  <2>1. IsFiniteSet(Into(f, b - 1)) /\ Into(f, b - 1) \subseteq DOMAIN f.arcs
    BY IntoPart
  <2>2. \A k \in Into(f, b - 1) : Counter(f)[k] = 0
    BY <2>1 DEF Counter, Fresh
  <2>3. Sum(Counter(f), Into(f, b - 1)) = 0
    BY <2>1, <2>2, SumZero DEF Sum
  <2>4. QED
    BY <2>3 DEF Fresh
<1>5. QED
  BY <1>2, <1>3, <1>4 DEF Below, Balanced

\* Arcs leave the entry of a regular graph that has any.
LEMMA EntryLeft ==
  ASSUME NEW d, Graph(d), Regular(d), d.arcs # << >>
  PROVE  0 \in Sources(d)
<1>1. /\ Len(d.arcs) \in Nat /\ DOMAIN d.arcs = 1 .. Len(d.arcs) /\ d.arcs \in Seq(ArcType)
      /\ \A k \in DOMAIN d.arcs : d.arcs[k].source \in Nat
  BY GraphTypes
<1>2. Len(d.arcs) # 0
  BY <1>1, EmptySeq
<1>3. 1 \in DOMAIN d.arcs
  BY <1>1, <1>2
<1>4. d.arcs[1].source \in Sources(d) /\ d.arcs[1].source \in Nat
  BY <1>1, <1>3 DEF Sources
<1>5. Sources(d) = 0 .. d.blocks - 2 /\ d.blocks \in Nat
  BY GraphTypes DEF Regular
<1>6. QED
  BY <1>4, <1>5

\* The first pass starts with all branches ahead of it.
LEMMA BranchingStart ==
  ASSUME NEW d, Graph(d), Sound(d), NEW f \in FunctionSet, PartOf(f, d), f.arcs # << >>, Fresh(f)
  PROVE  Branching(0, BranchCounts(d, "taken"), BranchCounts(d, "notTaken"), f, d)
<1>1. \A k \in DOMAIN f.arcs : f.arcs[k].counter = 0 /\ f.arcs[k].source \in Nat
  BY FunctionTypes DEF Fresh
<1>2. \A k \in DOMAIN f.arcs :
        f.arcs[k].counter = IF f.arcs[k].source < 0 /\ k \in ForkArcs(d) THEN d.followed[k] ELSE 0
  BY <1>1
<1>3. Balanced(f, Nat)
  BY FreshFacts
<1>4. ForksBelow(d, 0) = {}
  <2>1. \A k \in ForksOf(d) : k \in DOMAIN d.arcs /\ d.arcs[k].source \in Nat
    BY ForkFacts, GraphTypes
  <2>2. \A k \in ForksOf(d) : ~ (d.arcs[k].source < 0)
    BY <2>1
  <2>3. QED
    BY <2>2 DEF ForksBelow
<1>5. ASSUME NEW direction \in {"taken", "notTaken"}
      PROVE  Left(0, BranchCounts(d, direction), d, direction)
  <2> DEFINE n == Cardinality(ForksOf(d))
             s == BranchCounts(d, direction)
  <2>1. d.merged = 0 /\ n \in Nat
    BY ForkFacts DEF Sound
  <2>2. /\ Len(s) = IF d.merged \in 1 .. n THEN n - 1 ELSE n
        /\ d.merged = 0 =>
             \A j \in 1 .. n : s[j] = Goes(d, Nth(ForksOf(d), j), direction)
    BY BranchCountsFacts
  <2> HIDE DEF n, s
  <2>3. Len(s) = n /\ \A j \in 1 .. n : s[j] = Goes(d, Nth(ForksOf(d), j), direction)
    BY <2>1, <2>2
  <2>4. Cardinality(ForksBelow(d, 0)) = 0
    BY <1>4, FS_EmptySet
  <2>5. Len(s) = n - 0 /\ \A j \in 1 .. Len(s) : s[j] = Goes(d, Nth(ForksOf(d), 0 + j), direction)
    <3>1. \A j \in 1 .. n : 0 + j = j
      BY <2>1
    <3>2. QED
      BY <2>1, <2>3, <3>1
  <2>6. QED
    BY <2>4, <2>5 DEF Left, n, s
<1>6. Left(0, BranchCounts(d, "taken"), d, "taken") /\ Left(0, BranchCounts(d, "notTaken"), d, "notTaken")
  BY <1>5
<1>7. Regular(d) /\ Whole(f, d) => 0 \in Sources(d)
  <2>1. Whole(f, d) => d.arcs # << >>
    <3>1. d.arcs = << >> => Len(d.arcs) = 0
      OBVIOUS
    <3>2. f.arcs \in Seq(ArcSet)
      BY FunctionTypes
    <3>3. QED
      BY <3>1, <3>2, EmptySeq DEF Whole
  <2>2. QED
    BY <2>1, EntryLeft
<1>8. QED
  BY <1>2, <1>3, <1>6, <1>7 DEF Branching

\* A step of the lists of branch counts.
LEMMA LeftStep ==
  ASSUME NEW d, Graph(d), Binary(d), NEW b \in Nat, OutOf(d, b) # {},
         NEW s \in Seq(Nat), NEW direction, Left(b, s, d, direction)
  PROVE  LET h == Min(OutOf(d, b))
         IN  /\ h \in ForksOf(d) =>
                  /\ s # << >> /\ Head(s) = Goes(d, h, direction)
                  /\ Left(b + 1, Tail(s), d, direction)
             /\ h \notin ForksOf(d) => Left(b + 1, s, d, direction)
<1> DEFINE h == Min(OutOf(d, b))
           n == Cardinality(ForksBelow(d, b))
           m == Cardinality(ForksOf(d))
<1>1. /\ n \in Nat /\ m \in Nat
      /\ h \in ForksOf(d) => /\ Cardinality(ForksBelow(d, b + 1)) = n + 1
                             /\ n + 1 <= m /\ Nth(ForksOf(d), n + 1) = h
      /\ h \notin ForksOf(d) => ForksBelow(d, b + 1) = ForksBelow(d, b)
  BY NextFork, ForkFacts
<1>2. /\ Len(s) = m - n
      /\ \A j \in 1 .. Len(s) : s[j] = Goes(d, Nth(ForksOf(d), n + j), direction)
  BY DEF Left
<1>3. ASSUME h \in ForksOf(d)
      PROVE  /\ s # << >> /\ Head(s) = Goes(d, h, direction)
             /\ Left(b + 1, Tail(s), d, direction)
  <2> HIDE DEF h, n, m
  <2>1. Len(s) >= 1 /\ Len(s) \in Nat
    BY <1>1, <1>2, <1>3
  <2>2. s # << >>
    BY <2>1, EmptySeq
  <2>3. /\ Tail(s) \in Seq(Nat) /\ Len(Tail(s)) = Len(s) - 1
        /\ \A i \in 1 .. Len(Tail(s)) : Tail(s)[i] = s[i + 1]
    BY <2>2, HeadTailProperties
  <2>4. Head(s) = s[1]
    OBVIOUS
  <2>5. s[1] = Goes(d, h, direction)
    <3>1. 1 \in 1 .. Len(s)
      BY <2>1
    <3>2. QED
      BY <1>1, <1>2, <1>3, <3>1
  <2>6. \A j \in 1 .. Len(Tail(s)) : Tail(s)[j] = Goes(d, Nth(ForksOf(d), (n + 1) + j), direction)
    <3>1. ASSUME NEW j \in 1 .. Len(Tail(s))
          PROVE  Tail(s)[j] = Goes(d, Nth(ForksOf(d), (n + 1) + j), direction)
      <4>1. j + 1 \in 1 .. Len(s) /\ n + (j + 1) = (n + 1) + j
        BY <1>1, <2>1, <2>3
      <4>2. Tail(s)[j] = s[j + 1]
        BY <2>3
      <4>3. s[j + 1] = Goes(d, Nth(ForksOf(d), n + (j + 1)), direction)
        BY <1>2, <4>1
      <4>4. QED
        BY <4>1, <4>2, <4>3
    <3>2. QED
      BY <3>1
  <2>7. Len(Tail(s)) = m - (n + 1)
    BY <1>1, <1>2, <2>1, <2>3
  <2>8. Cardinality(ForksBelow(d, b + 1)) = n + 1
    BY <1>1, <1>3
  <2>9. QED
    BY <2>2, <2>4, <2>5, <2>6, <2>7, <2>8 DEF Left, m
<1>4. ASSUME h \notin ForksOf(d) PROVE Left(b + 1, s, d, direction)
  <2>1. ForksBelow(d, b + 1) = ForksBelow(d, b)
    BY <1>1, <1>4
  <2>2. QED
    BY <2>1 DEF Left
<1>5. QED
  BY <1>3, <1>4

\* In a regular graph the block behind one with arcs has arcs, unless its
\* first arc is the last of all.
LEMMA RegularNext ==
  ASSUME NEW d, Graph(d), Regular(d), NEW b \in Sources(d),
         Min(OutOf(d, b)) # Len(d.arcs)
  PROVE  b + 1 \in Sources(d)
<1> DEFINE h == Min(OutOf(d, b))
           L == Len(d.arcs)
<1>1. /\ d.blocks \in Nat /\ L \in Nat /\ DOMAIN d.arcs = 1 .. L
      /\ \A k \in DOMAIN d.arcs : d.arcs[k].source \in Nat
  BY GraphTypes
<1>2. /\ Sources(d) = 0 .. d.blocks - 2 /\ Binary(d)
      /\ \A k \in Beside(d) : k + 1 < Len(d.arcs)
  BY DEF Regular
<1>3. OutOf(d, b) # {}
  BY DEF Sources, OutOf
<1>4. /\ h \in DOMAIN d.arcs /\ d.arcs[h].source = b
      /\ h \in Beside(d) => OutOf(d, b) = {h, h + 1}
      /\ h \notin Beside(d) => OutOf(d, b) = {h}
  BY <1>2, <1>3, BlockArcs
<1> HIDE DEF h
<1>5. b \in Nat /\ b <= d.blocks - 2
  BY <1>1, <1>2
<1>6. b # d.blocks - 2
  <2>1. SUFFICES ASSUME b = d.blocks - 2 PROVE FALSE
    OBVIOUS
  <2>2. L \in DOMAIN d.arcs /\ h <= L
    BY <1>1, <1>4
  <2>3. d.arcs[L].source \in Sources(d)
    BY <2>2 DEF Sources
  <2>4. d.arcs[L].source <= b /\ d.arcs[L].source \in Nat
    BY <1>1, <1>2, <2>1, <2>2, <2>3
  <2>5. b <= d.arcs[L].source
    BY <1>4, <2>2, GraphOrder
  <2>6. d.arcs[L].source = b
    BY <1>5, <2>4, <2>5
  <2>7. L \in OutOf(d, b)
    BY <2>2, <2>6 DEF OutOf
  <2>8. h # L
    BY DEF h
  <2>9. h \in Beside(d) /\ L = h + 1
    BY <1>4, <2>7, <2>8
  <2>10. h + 1 < L
    BY <1>2, <2>9
  <2>11. QED
    BY <1>1, <2>9, <2>10
<1>7. b + 1 \in 0 .. d.blocks - 2
  BY <1>1, <1>5, <1>6
<1>8. QED
  BY <1>2, <1>7

\* Function e is f with the count x at arc h, and g is e with y at the next.
TwoCounts(f, h, x, y, e, g) ==
  /\ SameShape(f, e) /\ SameShape(f, g)
  /\ \A j \in DOMAIN f.arcs : e.arcs[j].counter = IF j = h THEN x ELSE f.arcs[j].counter
  /\ \A j \in DOMAIN f.blocks :
       e.blocks[j] = IF j = f.arcs[h].destination + 1 THEN f.blocks[j] + x ELSE f.blocks[j]
  /\ \A j \in DOMAIN f.arcs :
       g.arcs[j].counter = IF j = h + 1 THEN y ELSE e.arcs[j].counter
  /\ \A j \in DOMAIN f.blocks :
       g.blocks[j] = IF j = f.arcs[h + 1].destination + 1 THEN e.blocks[j] + y ELSE e.blocks[j]

\* The first pass assigns the counts of a conditional branch,
LEMMA BranchingProcess ==
  ASSUME NEW d, Graph(d), Sound(d), NEW f \in FunctionSet, PartOf(f, d), f.blocks # << >>,
         NEW b \in Nat, OutOf(d, b) # {}, NEW h, h = Min(OutOf(d, b)), h \in ForksOf(d),
         h \in DOMAIN f.arcs, h + 1 \in DOMAIN f.arcs,
         NEW tk \in Seq(Nat), NEW nt \in Seq(Nat), Branching(b, tk, nt, f, d),
         NEW x \in Nat, x = IF "fall" \in f.arcs[h].flags THEN Head(nt) ELSE Head(tk),
         NEW y \in Nat, y = IF "fall" \in f.arcs[h].flags THEN Head(tk) ELSE Head(nt),
         NEW e \in FunctionSet, NEW g \in FunctionSet, TwoCounts(f, h, x, y, e, g),
         Regular(d) /\ Whole(g, d) => b + 1 \in Sources(d)
  PROVE  Branching(b + 1, Tail(tk), Tail(nt), g, d)
<1>0. /\ SameShape(f, e) /\ SameShape(f, g)
      /\ \A j \in DOMAIN f.arcs : e.arcs[j].counter = IF j = h THEN x ELSE f.arcs[j].counter
      /\ \A j \in DOMAIN f.blocks :
           e.blocks[j] = IF j = f.arcs[h].destination + 1 THEN f.blocks[j] + x ELSE f.blocks[j]
      /\ \A j \in DOMAIN f.arcs :
           g.arcs[j].counter = IF j = h + 1 THEN y ELSE e.arcs[j].counter
      /\ \A j \in DOMAIN f.blocks :
           g.blocks[j] = IF j = f.arcs[h + 1].destination + 1 THEN e.blocks[j] + y ELSE e.blocks[j]
  BY DEF TwoCounts
<1>1. Binary(d)
  BY DEF Sound
<1>2. /\ h \in DOMAIN d.arcs /\ d.arcs[h].source = b
      /\ h \in Beside(d) => OutOf(d, b) = {h, h + 1} /\ h + 1 \in DOMAIN d.arcs
      /\ h \in ForksOf(d) => h \in Beside(d) /\ OutOf(d, b) \subseteq ForkArcs(d)
  BY <1>1, BlockArcs
<1>3. OutOf(d, b) = {h, h + 1} /\ {h, h + 1} \subseteq ForkArcs(d) /\ h + 1 \in DOMAIN d.arcs
  BY <1>2
<1>4. /\ \A k \in DOMAIN f.arcs :
           f.arcs[k].counter = IF f.arcs[k].source < b /\ k \in ForkArcs(d)
                               THEN d.followed[k] ELSE 0
      /\ Balanced(f, Nat) /\ Left(b, tk, d, "taken") /\ Left(b, nt, d, "notTaken")
  BY DEF Branching
<1>5. /\ DOMAIN f.arcs \subseteq DOMAIN d.arcs
      /\ \A k \in DOMAIN f.arcs : /\ f.arcs[k].source = d.arcs[k].source
                                  /\ f.arcs[k].flags = d.arcs[k].flags
  BY PartFacts
<1>6. \A k \in DOMAIN f.arcs : f.arcs[k].source \in Nat /\ k \in Nat
  BY FunctionTypes
<1>7. /\ Head(tk) = Goes(d, h, "taken") /\ Left(b + 1, Tail(tk), d, "taken")
      /\ Head(nt) = Goes(d, h, "notTaken") /\ Left(b + 1, Tail(nt), d, "notTaken")
  BY <1>1, <1>4, LeftStep
<1>8. x = d.followed[h] /\ y = d.followed[h + 1]
  <2>1. Goes(d, h, "taken") = IF "fall" \in d.arcs[h].flags THEN d.followed[h + 1] ELSE d.followed[h]
    BY DEF Goes
  <2>2. Goes(d, h, "notTaken") = IF "fall" \in d.arcs[h].flags THEN d.followed[h] ELSE d.followed[h + 1]
    BY DEF Goes
  <2>3. f.arcs[h].flags = d.arcs[h].flags
    BY <1>5
  <2>4. QED
    BY <1>7, <2>1, <2>2, <2>3
<1>9. f.arcs[h].counter = 0 /\ f.arcs[h + 1].counter = 0 /\ h + 1 # h
  <2>1. f.arcs[h].source = b /\ f.arcs[h + 1].source = b
    BY <1>3, <1>5 DEF OutOf
  <2>2. ~ (b < b) /\ h \in Nat
    BY <1>6
  <2>3. h + 1 # h
    BY <2>2
  <2>4. QED
    BY <1>4, <2>1, <2>2, <2>3
<1>10. Balanced(e, Nat)
  <2>1. f \in FunctionSet /\ e \in FunctionSet /\ h \in DOMAIN f.arcs /\ x \in Nat
    OBVIOUS
  <2>2. Balanced(f, Nat) /\ f.arcs[h].counter = 0 /\ SameShape(f, e)
    BY <1>0, <1>4, <1>9
  <2>3. /\ \A j \in DOMAIN f.arcs : e.arcs[j].counter = IF j = h THEN x ELSE f.arcs[j].counter
        /\ \A j \in DOMAIN f.blocks :
             e.blocks[j] = IF j = f.arcs[h].destination + 1 THEN f.blocks[j] + x ELSE f.blocks[j]
    BY <1>0
  <2>4. QED
    BY ONLY <2>1, <2>2, <2>3, BalanceKept
<1>11. Balanced(g, Nat)
  <2>1. /\ DOMAIN e.arcs = DOMAIN f.arcs /\ DOMAIN e.blocks = DOMAIN f.blocks
        /\ e.arcs[h + 1].destination = f.arcs[h + 1].destination
        /\ e.arcs[h + 1].counter = 0
    BY <1>0, <1>9 DEF SameShape
  <2>2. SameShape(e, g)
    BY <1>0 DEF SameShape
  <2>3. \A j \in DOMAIN e.arcs :
          g.arcs[j].counter = IF j = h + 1 THEN y ELSE e.arcs[j].counter
    BY <1>0, <2>1
  <2>4. \A j \in DOMAIN e.blocks :
          g.blocks[j] = IF j = e.arcs[h + 1].destination + 1 THEN e.blocks[j] + y ELSE e.blocks[j]
    BY <1>0, <2>1
  <2>5. h + 1 \in DOMAIN e.arcs
    BY <2>1
  <2> DEFINE k == h + 1
  <2>6. /\ k \in DOMAIN e.arcs /\ e.arcs[k].counter = 0
        /\ \A j \in DOMAIN e.arcs : g.arcs[j].counter = IF j = k THEN y ELSE e.arcs[j].counter
        /\ \A j \in DOMAIN e.blocks :
             g.blocks[j] = IF j = e.arcs[k].destination + 1 THEN e.blocks[j] + y ELSE e.blocks[j]
    BY <2>1, <2>3, <2>4, <2>5
  <2>7. e \in FunctionSet /\ g \in FunctionSet /\ y \in Nat
    OBVIOUS
  <2> HIDE DEF k
  <2>8. QED
    BY ONLY <1>10, <2>2, <2>6, <2>7, BalanceKept
<1>12. ASSUME NEW k \in DOMAIN g.arcs
       PROVE  g.arcs[k].counter = IF g.arcs[k].source < b + 1 /\ k \in ForkArcs(d)
                                  THEN d.followed[k] ELSE 0
  <2>1. k \in DOMAIN f.arcs /\ g.arcs[k].source = f.arcs[k].source
    BY <1>0 DEF SameShape
  <2>2. f.arcs[k].source \in Nat
    BY <1>6, <2>1
  <2>3. CASE k = h
    <3>1. g.arcs[k].counter = d.followed[k] /\ k \in ForkArcs(d)
      BY <1>0, <1>3, <1>8, <1>9, <2>1, <2>3
    <3>2. g.arcs[k].source = b /\ b < b + 1
      BY <1>2, <1>5, <2>1, <2>3
    <3>3. QED
      BY <3>1, <3>2
  <2>4. CASE k = h + 1
    <3>1. g.arcs[k].counter = d.followed[k] /\ k \in ForkArcs(d)
      BY <1>0, <1>3, <1>8, <2>1, <2>4
    <3>2. d.arcs[k].source = b
      BY <1>3, <2>4 DEF OutOf
    <3>3. g.arcs[k].source = b /\ b < b + 1
      BY <1>5, <2>1, <3>2
    <3>4. QED
      BY <3>1, <3>3
  <2>5. CASE k \notin {h, h + 1}
    <3>1. g.arcs[k].counter = f.arcs[k].counter
      BY <1>0, <2>1, <2>5
    <3>2. f.arcs[k].source # b
      <4>1. k \notin OutOf(d, b)
        BY <1>3, <2>5
      <4>2. QED
        BY <1>5, <2>1, <4>1 DEF OutOf
    <3>3. f.arcs[k].source < b + 1 <=> f.arcs[k].source < b
      BY <2>2, <3>2
    <3>4. QED
      BY <1>4, <2>1, <3>1, <3>3
  <2>6. QED
    BY <2>3, <2>4, <2>5
<1>13. QED
  BY <1>7, <1>11, <1>12 DEF Branching

\* and passes by every other block.
LEMMA BranchingPass ==
  ASSUME NEW d, Graph(d), Sound(d), NEW f \in FunctionSet, PartOf(f, d), f.blocks # << >>,
         NEW b \in Nat, OutOf(d, b) # {}, Min(OutOf(d, b)) \notin ForksOf(d),
         NEW tk \in Seq(Nat), NEW nt \in Seq(Nat), Branching(b, tk, nt, f, d),
         Regular(d) /\ Whole(f, d) => b + 1 \in Sources(d)
  PROVE  Branching(b + 1, tk, nt, f, d)
<1>1. Binary(d)
  BY DEF Sound
<1>2. OutOf(d, b) \cap ForkArcs(d) = {}
  BY <1>1, BlockArcs
<1>3. /\ \A k \in DOMAIN f.arcs :
           f.arcs[k].counter = IF f.arcs[k].source < b /\ k \in ForkArcs(d)
                               THEN d.followed[k] ELSE 0
      /\ Balanced(f, Nat) /\ Left(b, tk, d, "taken") /\ Left(b, nt, d, "notTaken")
  BY DEF Branching
<1>4. Left(b + 1, tk, d, "taken") /\ Left(b + 1, nt, d, "notTaken")
  BY <1>1, <1>3, LeftStep
<1>5. ASSUME NEW k \in DOMAIN f.arcs
      PROVE  f.arcs[k].counter = IF f.arcs[k].source < b + 1 /\ k \in ForkArcs(d)
                                 THEN d.followed[k] ELSE 0
  <2>1. f.arcs[k].source \in Nat /\ k \in DOMAIN d.arcs /\ f.arcs[k].source = d.arcs[k].source
    BY FunctionTypes, PartFacts
  <2>2. f.arcs[k].source = b => k \notin ForkArcs(d)
    BY <1>2, <2>1 DEF OutOf
  <2>3. f.arcs[k].source < b + 1 /\ k \in ForkArcs(d) <=> f.arcs[k].source < b /\ k \in ForkArcs(d)
    BY <2>1, <2>2
  <2>4. QED
    BY <1>3, <2>3
<1>6. QED
  BY <1>3, <1>4, <1>5 DEF Branching

\* Its counts are never too high.
LEMMA BranchingBelow ==
  ASSUME NEW d, Graph(d), NEW f \in FunctionSet, PartOf(f, d), f.blocks # << >>,
         NEW b, NEW tk, NEW nt, Branching(b, tk, nt, f, d)
  PROVE  Below(f, d)
<1>1. \A k \in DOMAIN f.arcs : f.arcs[k].counter <= d.followed[k]
  <2>1. ASSUME NEW k \in DOMAIN f.arcs PROVE f.arcs[k].counter <= d.followed[k]
    <3>1. d.followed[k] \in Nat
      BY PartFacts, GraphTypes
    <3>2. f.arcs[k].counter = d.followed[k] \/ f.arcs[k].counter = 0
      BY DEF Branching
    <3>3. QED
      BY <3>1, <3>2
  <2>2. QED
    BY <2>1
<1>2. Balanced(f, Nat)
  BY DEF Branching
<1>3. f.blocks[1] <= WasExecuted(d)
  <2>1. f.blocks \in Seq(Nat) /\ DOMAIN f.blocks = 1 .. Len(f.blocks) /\ Len(f.blocks) \in Nat
    BY FunctionTypes
  <2>2. 1 \in DOMAIN f.blocks
    <3>1. Len(f.blocks) # 0
      BY <2>1, EmptySeq
    <3>2. QED
      BY <2>1, <3>1
  <2>3. f.blocks[1] = Sum(Counter(f), Into(f, 1 - 1))
    BY <1>2, <2>2 DEF Balanced
  <2>4. 1 - 1 = 0
    OBVIOUS
  <2>5. f.blocks[1] = 0
    BY <2>3, <2>4, IntoEntry
  <2>6. WasExecuted(d) \in Nat
    BY ExecutedType
  <2>7. QED
    BY <2>5, <2>6
<1>4. Balanced(f, Nat \ {1})
  BY <1>2 DEF Balanced
<1>5. QED
  BY <1>1, <1>3, <1>4, BlocksBelow

(***************************************************************************)
(* The second pass.                                                        *)
(***************************************************************************)
\* Where one arc leaves a block, or one and a FAKE one, the first is followed
\* as often as the block is left.
LEMMA OutCounts ==
  ASSUME NEW d, Graph(d), Sound(d), NEW b, OutOf(d, b) # {}, NEW h, h = Min(OutOf(d, b)),
         h \in Beside(d) => IsFake(d.arcs[h + 1])
  PROVE  h \notin ForksOf(d) /\ Sum(d.followed, OutOf(d, b)) = d.followed[h]
<1>1. Binary(d) /\ Quiet(d)
  BY DEF Sound
<1>2. /\ h \in DOMAIN d.arcs /\ d.arcs[h].source = b
      /\ h \in Beside(d) => OutOf(d, b) = {h, h + 1} /\ h + 1 \in DOMAIN d.arcs
      /\ h \notin Beside(d) => OutOf(d, b) = {h}
      /\ h \in ForksOf(d) => h \in Beside(d)
  BY <1>1, BlockArcs
<1>3. h \notin ForksOf(d)
  <2>1. h \in ForksOf(d) => ~ IsFake(d.arcs[h + 1])
    BY DEF ForksOf, Forks
  <2>2. QED
    BY <1>2, <2>1
<1>4. /\ \A k \in DOMAIN d.arcs : d.followed[k] \in Nat
      /\ DOMAIN d.arcs = 1 .. Len(d.arcs) /\ Len(d.arcs) \in Nat
  BY GraphTypes
<1>5. CASE h \in Beside(d)
  <2> DEFINE k == h + 1
  <2>1. k \in DOMAIN d.arcs /\ OutOf(d, b) = {h, k} /\ d.followed[k] = 0
    BY <1>1, <1>2, <1>5 DEF Quiet
  <2>2. h # k
    BY <1>2, <1>4
  <2>3. d.followed[h] \in Nat /\ d.followed[k] \in Nat
    BY <1>2, <1>4, <2>1
  <2> HIDE DEF k
  <2>4. Sum(d.followed, {h, k}) = d.followed[h] + d.followed[k]
    BY ONLY <2>2, <2>3, SumSmall DEF Sum
  <2>5. d.followed[h] + d.followed[k] = d.followed[h]
    BY <2>1, <2>3
  <2>6. Sum(d.followed, OutOf(d, b)) = Sum(d.followed, {h, k})
    BY <2>1
  <2>7. QED
    BY <1>3, <2>4, <2>5, <2>6
<1>6. CASE h \notin Beside(d)
  <2>1. OutOf(d, b) = {h}
    BY <1>2, <1>6
  <2> DEFINE f == d.followed
  <2>2. f[h] \in Nat /\ h \in Nat
    BY <1>2, <1>4
  <2> HIDE DEF f
  <2>3. SumFunctionOnSet(f, {h}) = f[h]
    <3>1. IsFiniteSet({}) /\ h \notin {} /\ {} \cup {h} = {h}
      BY FS_EmptySet
    <3>2. \A x \in {} \cup {h} : f[x] \in Nat
      BY <2>2
    <3>3. SumFunctionOnSet(f, {} \cup {h}) = f[h] + SumFunctionOnSet(f, {})
      BY ONLY <3>1, <3>2, SumAdd
    <3>4. QED
      BY <2>2, <3>1, <3>3, SumEmpty
  <2>4. QED
    BY <1>3, <2>1, <2>3 DEF Sum, f
<1>7. QED
  BY <1>5, <1>6

\* A block is left as often as it is entered, the last excepted.
LEMMA EnteredLeft ==
  ASSUME NEW d, Graph(d), NEW b \in Nat, b < d.blocks - 1
  PROVE  Entered(d, b) = Sum(d.followed, OutOf(d, b))
<1>1. CASE b = 0
  BY <1>1 DEF Entered, WasExecuted
<1>2. CASE b # 0
  <2>1. b \in 1 .. d.blocks - 2
    BY <1>2, GraphTypes
  <2>2. QED
    BY <1>2, <2>1 DEF Entered, Graph, Ordered
<1>3. QED
  BY <1>1, <1>2

\* The count that is passed on is never too high, and where nothing is lost
\* it is complete.
LEMMA PropagatedCount ==
  ASSUME NEW d, Graph(d), Sound(d), NEW f \in FunctionSet, PartOf(f, d), f.blocks # << >>,
         NEW b \in Nat, b + 1 \in DOMAIN f.blocks, Propagating(b, f, d)
  PROVE  /\ f.blocks[b + 1] <= Entered(d, b)
         /\ Regular(d) /\ Whole(f, d) /\ (\A k \in ForksOf(d) : d.arcs[k].source # b) =>
              f.blocks[b + 1] = Entered(d, b)
<1>1. /\ \A k \in DOMAIN f.arcs :
           /\ k \in ForkArcs(d) => f.arcs[k].counter = d.followed[k]
           /\ k \notin ForkArcs(d) => f.arcs[k].counter <= d.followed[k]
           /\ Regular(d) /\ Whole(f, d) /\ f.arcs[k].source < b =>
                f.arcs[k].counter = d.followed[k]
      /\ f.blocks[1] = WasExecuted(d) /\ Balanced(f, Nat \ {1})
  BY DEF Propagating
<1>2. /\ \A k \in DOMAIN f.arcs : /\ f.arcs[k].source \in Nat /\ f.arcs[k].counter \in Nat
                                  /\ k \in DOMAIN d.arcs /\ d.followed[k] \in Nat
                                  /\ f.arcs[k].source = d.arcs[k].source
                                  /\ f.arcs[k].destination = d.arcs[k].destination
  <2>1. \A k \in DOMAIN f.arcs : f.arcs[k].source \in Nat /\ f.arcs[k].counter \in Nat
    BY FunctionTypes
  <2>2. /\ DOMAIN f.arcs \subseteq DOMAIN d.arcs
        /\ \A k \in DOMAIN f.arcs : /\ f.arcs[k].source = d.arcs[k].source
                                    /\ f.arcs[k].destination = d.arcs[k].destination
    BY PartFacts
  <2>3. \A k \in DOMAIN d.arcs : d.followed[k] \in Nat
    BY GraphTypes
  <2>4. QED
    BY <2>1, <2>2, <2>3
<1>3. CASE b = 0
  <2>1. f.blocks[b + 1] = Entered(d, b) /\ Entered(d, b) \in Nat
    BY <1>1, <1>3, FollowedSums DEF Entered
  <2>2. QED
    BY <2>1
<1>4. CASE b # 0
  <2>1. f.blocks[b + 1] = Sum(Counter(f), Into(f, b))
    <3>1. b + 1 \in DOMAIN f.blocks \cap (Nat \ {1}) /\ (b + 1) - 1 = b
      BY <1>4
    <3>2. f.blocks[b + 1] = Sum(Counter(f), Into(f, (b + 1) - 1))
      BY <1>1, <3>1 DEF Balanced
    <3>3. QED
      BY <3>1, <3>2
  <2>2. Entered(d, b) = Sum(d.followed, Into(d, b))
    BY <1>4 DEF Entered
  <2>3. \A k \in Into(f, b) : f.arcs[k].counter <= d.followed[k]
    <3>1. ASSUME NEW k \in Into(f, b) PROVE f.arcs[k].counter <= d.followed[k]
      <4>1. k \in DOMAIN f.arcs
        BY DEF Into
      <4>2. f.arcs[k].counter \in Nat /\ d.followed[k] \in Nat
        BY <1>2, <4>1
      <4>3. f.arcs[k].counter = d.followed[k] \/ f.arcs[k].counter <= d.followed[k]
        BY <1>1, <4>1
      <4>4. QED
        BY <4>2, <4>3
    <3>2. QED
      BY <3>1
  <2>4. /\ Sum(Counter(f), Into(f, b)) <= Sum(d.followed, Into(d, b))
        /\ Whole(f, d) /\ (\A k \in Into(f, b) : f.arcs[k].counter = d.followed[k]) =>
             Sum(Counter(f), Into(f, b)) = Sum(d.followed, Into(d, b))
    BY <2>3, CountedSums
  <2>5. ASSUME Regular(d), Whole(f, d), \A k \in ForksOf(d) : d.arcs[k].source # b,
               NEW k \in Into(f, b)
        PROVE  f.arcs[k].counter = d.followed[k]
    <3>1. k \in DOMAIN f.arcs /\ f.arcs[k].destination = b
      BY DEF Into
    <3>2. k \in DOMAIN d.arcs /\ d.arcs[k].destination = b /\ d.arcs[k].source = f.arcs[k].source
      BY <1>2, <3>1
    <3>3. \/ d.arcs[k].source < b \/ ForkAt(d, d.arcs[k].source) \/ ForkAt(d, b)
      BY <2>5, <3>2 DEF Regular
    <3>4. CASE d.arcs[k].source < b
      BY <1>1, <2>5, <3>1, <3>2, <3>4
    <3>5. CASE ForkAt(d, d.arcs[k].source)
      <4> DEFINE s == d.arcs[k].source
      <4>1. PICK l \in ForksOf(d) : d.arcs[l].source = s
        BY <3>5 DEF ForkAt
      <4>2. k \in OutOf(d, s)
        BY <3>2 DEF OutOf
      <4>3. Binary(d) /\ OutOf(d, s) # {}
        BY <4>2 DEF Sound
      <4> HIDE DEF s
      <4>4. l = Min(OutOf(d, s)) /\ OutOf(d, s) \subseteq ForkArcs(d)
        BY <4>1, <4>3, BlockArcs
      <4>5. QED
        BY <1>1, <3>1, <4>2, <4>4
    <3>6. CASE ForkAt(d, b)
      BY <2>5, <3>6 DEF ForkAt
    <3>7. QED
      BY <3>3, <3>4, <3>5, <3>6
  <2>6. QED
    BY <2>1, <2>2, <2>4, <2>5
<1>5. QED
  BY <1>3, <1>4

\* The count of a block goes to its first arc when no other is followed;
LEMMA PropagatingPass ==
  ASSUME NEW d, Graph(d), Sound(d), NEW f \in FunctionSet, PartOf(f, d), f.blocks # << >>,
         NEW b \in Nat, OutOf(d, b) # {}, NEW h, h = Min(OutOf(d, b)), h \in DOMAIN f.arcs,
         h \in Beside(d) => IsFake(d.arcs[h + 1]), Propagating(b, f, d),
         NEW c \in Nat, c = f.blocks[b + 1],
         NEW g \in FunctionSet, SameShape(f, g),
         \A j \in DOMAIN f.arcs : g.arcs[j].counter = IF j = h THEN c ELSE f.arcs[j].counter,
         \A j \in DOMAIN f.blocks :
           g.blocks[j] = IF j = f.arcs[h].destination + 1 THEN f.blocks[j] + c ELSE f.blocks[j]
  PROVE  Propagating(b + 1, g, d)
<1>1. Binary(d) /\ Quiet(d)
  BY DEF Sound
<1>2. h \notin ForksOf(d) /\ Sum(d.followed, OutOf(d, b)) = d.followed[h]
  BY OutCounts
<1>3. /\ h \in DOMAIN d.arcs /\ d.arcs[h].source = b
      /\ h \in Beside(d) => OutOf(d, b) = {h, h + 1}
      /\ h \notin Beside(d) => OutOf(d, b) = {h}
      /\ \A k \in ForksOf(d) : d.arcs[k].source = b => k = h
      /\ OutOf(d, b) \cap ForkArcs(d) = {}
  BY <1>1, <1>2, BlockArcs
<1>4. /\ \A k \in DOMAIN f.arcs :
           /\ k \in ForkArcs(d) => f.arcs[k].counter = d.followed[k]
           /\ k \notin ForkArcs(d) /\ f.arcs[k].source >= b => f.arcs[k].counter = 0
           /\ k \notin ForkArcs(d) => f.arcs[k].counter <= d.followed[k]
           /\ Regular(d) /\ Whole(f, d) /\ f.arcs[k].source < b =>
                f.arcs[k].counter = d.followed[k]
      /\ f.blocks[1] = WasExecuted(d) /\ Balanced(f, Nat \ {1})
  BY DEF Propagating
<1>5. /\ DOMAIN f.blocks = 1 .. Len(f.blocks) /\ Len(f.blocks) \in Nat
      /\ f.blocks \in Seq(Nat)
      /\ \A k \in DOMAIN f.arcs : f.arcs[k].source \in Nat /\ f.arcs[k].destination \in Nat
  BY FunctionTypes
<1>6. /\ Len(f.blocks) = d.blocks /\ DOMAIN f.arcs \subseteq DOMAIN d.arcs
      /\ \A k \in DOMAIN f.arcs : /\ f.arcs[k].source = d.arcs[k].source
                                  /\ f.arcs[k].destination # 0
                                  /\ f.arcs[k].source + 1 < d.blocks
  BY PartFacts
<1>7. f.arcs[h].source = b
  BY <1>3, <1>6
<1>8. b < d.blocks - 1 /\ b + 1 \in DOMAIN f.blocks /\ 1 \in DOMAIN f.blocks
  <2>1. b + 1 < Len(f.blocks)
    BY <1>6, <1>7
  <2>2. QED
    BY <1>5, <1>6, <2>1
<1>9. /\ c <= d.followed[h]
      /\ Regular(d) /\ Whole(f, d) => c = d.followed[h]
  <2>1. Entered(d, b) = d.followed[h]
    BY <1>2, <1>8, EnteredLeft
  <2>2. \A k \in ForksOf(d) : d.arcs[k].source # b
    BY <1>2, <1>3
  <2>3. QED
    BY <1>8, <2>1, <2>2, PropagatedCount
<1>10. h \in OutOf(d, b) /\ h \notin ForkArcs(d)
  BY <1>3 DEF OutOf
<1>11. f.arcs[h].counter = 0
  BY <1>4, <1>7, <1>10
<1>12. Balanced(g, Nat \ {1})
  <2> DEFINE B == Nat \ {1}
  <2>1. Balanced(f, B)
    BY <1>4
  <2> HIDE DEF B
  <2>2. Balanced(g, B)
    BY <1>11, <2>1, BalanceKept
  <2>3. QED
    BY <2>2 DEF B
<1>13. g.blocks[1] = WasExecuted(d)
  <2>1. f.arcs[h].destination + 1 # 1
    BY <1>5, <1>6
  <2>2. QED
    BY <1>4, <1>8, <2>1
<1>14. Whole(g, d) <=> Whole(f, d)
  BY ShapeKept
<1>15. ASSUME NEW k \in DOMAIN g.arcs
       PROVE  /\ k \in ForkArcs(d) => g.arcs[k].counter = d.followed[k]
              /\ k \notin ForkArcs(d) /\ g.arcs[k].source >= b + 1 => g.arcs[k].counter = 0
              /\ k \notin ForkArcs(d) => g.arcs[k].counter <= d.followed[k]
              /\ Regular(d) /\ Whole(g, d) /\ g.arcs[k].source < b + 1 =>
                   g.arcs[k].counter = d.followed[k]
  <2>1. /\ k \in DOMAIN f.arcs /\ g.arcs[k].source = f.arcs[k].source /\ f.arcs[k].source \in Nat
        /\ k \in DOMAIN d.arcs /\ f.arcs[k].source = d.arcs[k].source
    BY <1>5, <1>6 DEF SameShape
  <2>2. CASE k = h
    <3>1. g.arcs[k].counter = c /\ g.arcs[k].source = b /\ k \notin ForkArcs(d)
      BY <1>7, <1>10, <2>1, <2>2
    <3>2. ~ (b >= b + 1)
      OBVIOUS
    <3>3. QED
      BY <1>9, <1>14, <2>2, <3>1, <3>2
  <2>3. CASE k # h
    <3>1. g.arcs[k].counter = f.arcs[k].counter
      BY <2>1, <2>3
    <3>2. f.arcs[k].source >= b + 1 => f.arcs[k].source >= b
      BY <2>1
    <3>3. ASSUME Regular(d), Whole(g, d), g.arcs[k].source < b + 1
          PROVE  f.arcs[k].counter = d.followed[k]
      <4>1. CASE f.arcs[k].source < b
        BY <1>4, <1>14, <2>1, <3>3, <4>1
      <4>2. CASE f.arcs[k].source = b
        <5>1. k \in OutOf(d, b)
          BY <2>1, <4>2 DEF OutOf
        <5>2. h \in Beside(d) /\ k = h + 1
          BY <1>3, <2>3, <5>1
        <5>3. d.followed[k] = 0
          BY <1>1, <5>2 DEF Quiet
        <5>4. k \notin ForkArcs(d)
          BY <1>3, <5>1
        <5>5. f.arcs[k].source >= b
          BY <4>2
        <5>6. f.arcs[k].counter = 0
          BY <1>4, <2>1, <5>4, <5>5
        <5>7. QED
          BY <5>3, <5>6
      <4>3. QED
        BY <2>1, <3>3, <4>1, <4>2
    <3>4. QED
      BY <1>4, <2>1, <3>1, <3>2, <3>3
  <2>4. QED
    BY <2>2, <2>3
<1>16. QED
  BY <1>12, <1>13, <1>15 DEF Propagating

\* any other block keeps what its branch was assigned.
LEMMA PropagatingSkip ==
  ASSUME NEW d, Graph(d), Sound(d), NEW f \in FunctionSet, PartOf(f, d), f.blocks # << >>,
         NEW b \in Nat, OutOf(d, b) # {}, NEW h, h = Min(OutOf(d, b)),
         h \in Beside(d), ~ IsFake(d.arcs[h + 1]), Propagating(b, f, d)
  PROVE  Propagating(b + 1, f, d)
<1>1. Binary(d)
  BY DEF Sound
<1>2. /\ h \in DOMAIN d.arcs
      /\ h \in ForksOf(d) => OutOf(d, b) \subseteq ForkArcs(d)
  BY <1>1, BlockArcs
<1>3. /\ \A k \in DOMAIN f.arcs :
           /\ k \in ForkArcs(d) => f.arcs[k].counter = d.followed[k]
           /\ k \notin ForkArcs(d) /\ f.arcs[k].source >= b => f.arcs[k].counter = 0
           /\ k \notin ForkArcs(d) => f.arcs[k].counter <= d.followed[k]
           /\ Regular(d) /\ Whole(f, d) /\ f.arcs[k].source < b =>
                f.arcs[k].counter = d.followed[k]
      /\ f.blocks[1] = WasExecuted(d) /\ Balanced(f, Nat \ {1})
  BY DEF Propagating
<1>4. ASSUME NEW k \in DOMAIN f.arcs
      PROVE  /\ k \notin ForkArcs(d) /\ f.arcs[k].source >= b + 1 => f.arcs[k].counter = 0
             /\ Regular(d) /\ Whole(f, d) /\ f.arcs[k].source < b + 1 =>
                  f.arcs[k].counter = d.followed[k]
  <2>1. f.arcs[k].source \in Nat /\ k \in DOMAIN d.arcs /\ f.arcs[k].source = d.arcs[k].source
    BY FunctionTypes, PartFacts
  <2>2. f.arcs[k].source >= b + 1 => f.arcs[k].source >= b
    BY <2>1
  <2>3. ASSUME Regular(d), Whole(f, d), f.arcs[k].source < b + 1
        PROVE  f.arcs[k].counter = d.followed[k]
    <3>1. CASE f.arcs[k].source < b
      BY <1>3, <2>3, <3>1
    <3>2. CASE f.arcs[k].source = b
      <4>1. h \in ForksOf(d)
        <5>1. ~ IsFake(d.arcs[h]) /\ h + 1 < Len(d.arcs)
          BY <2>3 DEF Regular
        <5>2. h < Len(d.arcs) /\ d.arcs[h].source = d.arcs[h + 1].source
          BY GraphTypes DEF Beside
        <5>3. QED
          BY <1>2, <5>1, <5>2 DEF ForksOf, Forks
      <4>2. k \in OutOf(d, b)
        BY <2>1, <3>2 DEF OutOf
      <4>3. QED
        BY <1>2, <1>3, <4>1, <4>2
    <3>3. QED
      BY <2>1, <2>3, <3>1, <3>2
  <2>4. QED
    BY <1>3, <2>2, <2>3
<1>5. QED
  BY <1>3, <1>4 DEF Propagating

\* Its counts are never too high either, and when all blocks are done those
\* of a regular graph are complete.
LEMMA PropagatingEnd ==
  ASSUME NEW d, Graph(d), NEW f \in FunctionSet, PartOf(f, d), f.blocks # << >>,
         NEW b, Propagating(b, f, d)
  PROVE  /\ Below(f, d)
         /\ (\A k \in DOMAIN f.arcs : f.arcs[k].source < b) /\ Regular(d) /\ Whole(f, d)
              => Exact(f, d)
<1>1. /\ \A k \in DOMAIN f.arcs :
           /\ k \in ForkArcs(d) => f.arcs[k].counter = d.followed[k]
           /\ k \notin ForkArcs(d) => f.arcs[k].counter <= d.followed[k]
           /\ Regular(d) /\ Whole(f, d) /\ f.arcs[k].source < b =>
                f.arcs[k].counter = d.followed[k]
      /\ f.blocks[1] = WasExecuted(d) /\ Balanced(f, Nat \ {1})
  BY DEF Propagating
<1>2. \A k \in DOMAIN f.arcs : f.arcs[k].counter \in Nat /\ d.followed[k] \in Nat
  BY PartFacts, FunctionTypes, GraphTypes
<1>3. \A k \in DOMAIN f.arcs : f.arcs[k].counter <= d.followed[k]
  BY <1>1, <1>2
<1>4. f.blocks[1] <= WasExecuted(d)
  BY <1>1, ExecutedType
<1>5. Below(f, d)
  BY <1>1, <1>3, <1>4, BlocksBelow
<1>6. ASSUME \A k \in DOMAIN f.arcs : f.arcs[k].source < b, Regular(d), Whole(f, d)
      PROVE  Exact(f, d)
  <2>1. \A k \in DOMAIN f.arcs : f.arcs[k].counter = d.followed[k]
    BY <1>1, <1>6
  <2>2. ASSUME NEW c \in DOMAIN f.blocks PROVE f.blocks[c] = Entered(d, c - 1)
    <3>1. c \in Nat
      BY FunctionTypes
    <3>2. CASE c = 1
      BY <1>1, <3>2 DEF Entered
    <3>3. CASE c # 1
      <4>1. f.blocks[c] = Sum(Counter(f), Into(f, c - 1))
        BY <1>1, <3>1, <3>3 DEF Balanced
      <4>2. \A k \in Into(f, c - 1) : /\ f.arcs[k].counter <= d.followed[k]
                                      /\ f.arcs[k].counter = d.followed[k]
        BY <1>3, <2>1 DEF Into
      <4>3. Sum(Counter(f), Into(f, c - 1)) = Sum(d.followed, Into(d, c - 1))
        BY <1>6, <4>2, CountedSums
      <4>4. c - 1 # 0
        BY <3>1, <3>3
      <4>5. QED
        BY <4>1, <4>3, <4>4 DEF Entered
    <3>4. QED
      BY <3>2, <3>3
  <2>3. QED
    BY <2>1, <2>2 DEF Exact
<1>7. QED
  BY <1>5, <1>6

\* The first pass hands over to the second at a block with one arc.
LEMMA PropagatingStart ==
  ASSUME NEW d, Graph(d), Sound(d), NEW f \in FunctionSet, PartOf(f, d), f.blocks # << >>,
         NEW b \in Nat, NEW tk, NEW nt, Branching(b, tk, nt, f, d),
         \A k \in DOMAIN f.arcs : f.arcs[k].source <= b,
         OutOf(d, b) # {}, Min(OutOf(d, b)) \notin ForksOf(d),
         NEW g \in FunctionSet, SameShape(f, g), g.arcs = f.arcs, 1 \in DOMAIN f.blocks,
         \A j \in DOMAIN f.blocks : g.blocks[j] = IF j = 1 THEN WasExecuted(d) ELSE f.blocks[j]
  PROVE  Propagating(0, g, d)
<1>1. /\ \A k \in DOMAIN f.arcs :
           f.arcs[k].counter = IF f.arcs[k].source < b /\ k \in ForkArcs(d)
                               THEN d.followed[k] ELSE 0
      /\ Balanced(f, Nat)
  BY DEF Branching
<1>2. OutOf(d, b) \cap ForkArcs(d) = {}
  BY BlockArcs DEF Sound
<1>3. ASSUME NEW k \in DOMAIN g.arcs
      PROVE  /\ k \in ForkArcs(d) => g.arcs[k].counter = d.followed[k]
             /\ k \notin ForkArcs(d) => g.arcs[k].counter = 0
             /\ k \notin ForkArcs(d) => g.arcs[k].counter <= d.followed[k]
             /\ ~ (g.arcs[k].source < 0)
  <2>1. k \in DOMAIN f.arcs /\ g.arcs[k] = f.arcs[k]
    OBVIOUS
  <2>2. /\ f.arcs[k].source \in Nat /\ k \in DOMAIN d.arcs /\ f.arcs[k].source = d.arcs[k].source
        /\ d.followed[k] \in Nat
    BY <2>1, FunctionTypes, PartFacts, GraphTypes
  <2>3. f.arcs[k].source <= b
    BY <2>1
  <2>4. f.arcs[k].source = b => k \notin ForkArcs(d)
    BY <1>2, <2>2 DEF OutOf
  <2>5. k \in ForkArcs(d) => f.arcs[k].source < b
    BY <2>2, <2>3, <2>4
  <2>6. QED
    BY <1>1, <2>1, <2>2, <2>5
<1>4. g.blocks[1] = WasExecuted(d)
  OBVIOUS
<1>5. Balanced(g, Nat \ {1})
  <2>1. ASSUME NEW c \in DOMAIN g.blocks \cap (Nat \ {1})
        PROVE  g.blocks[c] = Sum(Counter(g), Into(g, c - 1))
    <3>1. c \in DOMAIN f.blocks /\ c \in Nat /\ c # 1
      BY DEF SameShape
    <3>2. g.blocks[c] = f.blocks[c]
      BY <3>1
    <3>3. Counter(g) = Counter(f) /\ Into(g, c - 1) = Into(f, c - 1)
      BY DEF Counter, Into
    <3>4. QED
      BY <1>1, <3>1, <3>2, <3>3 DEF Balanced
  <2>2. QED
    BY <2>1 DEF Balanced
<1>6. QED
  BY <1>3, <1>4, <1>5 DEF Propagating

(***************************************************************************)
(* The arc the iterator stops at, in the graph.                            *)
(***************************************************************************)
LEMMA HereFacts ==
  ASSUME TypesInv, pc \in {"branches", "simple"}, Found # {}
  PROVE  LET f == functions[fn]
             d == in.functions[fn]
         IN  /\ OutOf(d, block) # {} /\ Here = Min(OutOf(d, block)) /\ Here \in DOMAIN f.arcs
             /\ IsLast => /\ Here \notin Beside(d) /\ Here \notin ForksOf(d)
                          /\ \A k \in DOMAIN f.arcs : f.arcs[k].source <= block
             /\ ~ IsLast =>
                  /\ Here + 1 \in DOMAIN f.arcs
                  /\ Forks(arcs, Here) <=> Here \in ForksOf(d)
                  /\ Passes(Here) <=> (Here \in Beside(d) => IsFake(d.arcs[Here + 1]))
             /\ Whole(f, d) => (IsLast <=> Here = Len(d.arcs))
<1> DEFINE f == functions[fn]
           d == in.functions[fn]
           h == Here
<1>1. /\ Current = f /\ f \in FunctionSet /\ Graph(d) /\ PartOf(f, d) /\ f.blocks # << >>
      /\ h \in DOMAIN f.arcs /\ f.arcs[h].source = block /\ OutOf(d, block) = Found
      /\ Found = OutOf(f, block)
      /\ ~ IsLast => h + 1 \in DOMAIN f.arcs
      /\ Walk(block, arc, f, d)
  BY CurrentFacts
<1>2. h = Min(OutOf(d, block)) /\ (IsLast <=> h = Len(f.arcs)) /\ arcs = f.arcs
  BY <1>1 DEF Here, IsLast, arcs
<1>3. Forks(arcs, h) <=> Forks(f.arcs, h)
  BY <1>2
<1>4. Passes(h) <=> f.arcs[h].source # f.arcs[h + 1].source \/ IsFake(f.arcs[h + 1])
  BY <1>2 DEF Passes
<1> HIDE DEF f, d, h
<1>5. /\ DOMAIN f.arcs = 1 .. Len(f.arcs) /\ Len(f.arcs) \in Nat
      /\ DOMAIN d.arcs = 1 .. Len(d.arcs) /\ Len(d.arcs) \in Nat
  BY <1>1, FunctionTypes, GraphTypes
<1>6. /\ DOMAIN f.arcs \subseteq DOMAIN d.arcs
      /\ \A k \in DOMAIN f.arcs : /\ f.arcs[k].source = d.arcs[k].source
                                  /\ f.arcs[k].flags = d.arcs[k].flags
      /\ \A k, l \in DOMAIN f.arcs : k <= l => f.arcs[k].source <= f.arcs[l].source
  BY <1>1, PartFacts
<1>7. ASSUME IsLast
      PROVE  /\ h \notin Beside(d) /\ h \notin ForksOf(d)
             /\ \A k \in DOMAIN f.arcs : f.arcs[k].source <= block
  <2>1. ASSUME h < Len(d.arcs), d.arcs[h].source = d.arcs[h + 1].source PROVE FALSE
    <3>1. h + 1 \in DOMAIN d.arcs /\ d.arcs[h + 1].source = block
      BY <1>1, <1>5, <1>6, <2>1
    <3>2. h + 1 \in OutOf(d, block)
      BY <3>1 DEF OutOf
    <3>3. h + 1 \in DOMAIN f.arcs
      BY <1>1, <3>2 DEF OutOf
    <3>4. QED
      BY <1>2, <1>5, <1>7, <3>3
  <2>2. h \notin Beside(d)
    <3>1. h \in Beside(d) => h < Len(d.arcs) /\ d.arcs[h].source = d.arcs[h + 1].source
      BY <1>5 DEF Beside
    <3>2. QED
      BY <2>1, <3>1
  <2>3. h \notin ForksOf(d)
    BY <2>1 DEF ForksOf, Forks
  <2>4. \A k \in DOMAIN f.arcs : f.arcs[k].source <= block
    BY <1>1, <1>2, <1>5, <1>6, <1>7
  <2>5. QED
    BY <2>2, <2>3, <2>4
<1>8. ASSUME ~ IsLast
      PROVE  /\ h + 1 \in DOMAIN f.arcs
             /\ Forks(arcs, h) <=> h \in ForksOf(d)
             /\ Passes(h) <=> (h \in Beside(d) => IsFake(d.arcs[h + 1]))
  <2> DEFINE k == h + 1
  <2>1. /\ k \in DOMAIN f.arcs /\ k \in DOMAIN d.arcs /\ h \in DOMAIN d.arcs
        /\ h < Len(f.arcs) /\ h < Len(d.arcs)
    BY <1>1, <1>2, <1>5, <1>6, <1>8
  <2>2. /\ f.arcs[k].source = d.arcs[k].source /\ f.arcs[h].source = d.arcs[h].source
        /\ IsFake(f.arcs[k]) <=> IsFake(d.arcs[k])
        /\ IsFake(f.arcs[h]) <=> IsFake(d.arcs[h])
    BY <1>1, <1>6, <2>1 DEF IsFake
  <2>3. h \in Beside(d) <=> d.arcs[h].source = d.arcs[k].source
    <3>1. h \in 1 .. Len(d.arcs) - 1
      BY <1>5, <2>1
    <3>2. QED
      BY <3>1 DEF Beside
  <2>4. Forks(f.arcs, h) <=> h \in ForksOf(d)
    BY <2>1, <2>2 DEF Forks, ForksOf
  <2>5. Passes(h) <=> (h \in Beside(d) => IsFake(d.arcs[k]))
    BY <1>4, <2>2, <2>3
  <2>6. QED
    BY <1>3, <2>1, <2>4, <2>5
<1>9. Whole(f, d) => (IsLast <=> h = Len(d.arcs))
  BY <1>2 DEF Whole
<1>10. OutOf(d, block) # {}
  BY <1>1
<1>11. QED
  BY <1>1, <1>2, <1>7, <1>8, <1>9, <1>10 DEF f, d, h

(***************************************************************************)
(* How a function is left.                                                 *)
(***************************************************************************)
\* Nothing was counted: it has no coverage map, or was not read whole.
LEMMA FinishedFresh ==
  ASSUME NEW d, Graph(d), NEW f \in FunctionSet, PartOf(f, d), Fresh(f),
         f.blocks = << >> \/ f.arcs = << >> \/ ~ d.mapped
  PROVE  Finished(f, d)
<1>1. Below(f, d)
  BY FreshFacts
<1>2. ASSUME d.mapped, Regular(d), Whole(f, d) PROVE Exact(f, d)
  <2>1. /\ f.arcs \in Seq(ArcSet) /\ f.blocks \in Seq(Nat) /\ d.arcs \in Seq(ArcType)
        /\ d.blocks \in Nat \ {0} /\ DOMAIN f.arcs = 1 .. Len(f.arcs)
    BY FunctionTypes, GraphTypes
  <2>2. f.blocks # << >>
    <3>1. Len(f.blocks) # 0
      BY <1>2, <2>1 DEF Whole
    <3>2. Len(<< >>) = 0
      OBVIOUS
    <3>3. QED
      BY <3>1, <3>2
  <2>3. f.arcs = << >>
    BY <1>2, <2>2
  <2>4. Len(f.arcs) = 0
    BY <2>3
  <2>5. Len(d.arcs) = 0 /\ DOMAIN f.arcs = {}
    BY <1>2, <2>1, <2>4 DEF Whole
  <2>6. DOMAIN d.arcs = {}
    BY <2>5, GraphTypes
  <2>7. ASSUME NEW b \in DOMAIN f.blocks PROVE f.blocks[b] = Entered(d, b - 1)
    <3>1. OutOf(d, 0) = {} /\ Into(d, b - 1) = {}
      BY <2>6 DEF OutOf, Into
    <3>2. Entered(d, b - 1) = 0
      BY <3>1, SumEmpty DEF Entered, WasExecuted, Sum
    <3>3. QED
      BY <3>2 DEF Fresh
  <2>8. QED
    BY <2>5, <2>7 DEF Exact
<1>3. QED
  BY <1>1, <1>2 DEF Finished

\* The second pass came to its end.
LEMMA FinishedWhole ==
  ASSUME NEW d, Graph(d), NEW f \in FunctionSet, PartOf(f, d), f.blocks # << >>, d.mapped,
         NEW b, Sound(d) => Propagating(b, f, d),
         \A k \in DOMAIN f.arcs : f.arcs[k].source < b
  PROVE  Finished(f, d)
<1>1. Sound(d) => Below(f, d)
  BY PropagatingEnd
<1>2. Regular(d) /\ Whole(f, d) => Exact(f, d)
  BY PropagatingEnd DEF Regular, Sound
<1>3. QED
  BY <1>1, <1>2 DEF Finished

\* The first pass ran out of arcs or of branches: the graph is not regular,
\* or was not read whole.
LEMMA FinishedEarly ==
  ASSUME NEW d, Graph(d), NEW f \in FunctionSet, PartOf(f, d), f.blocks # << >>, d.mapped,
         NEW b \in Nat, NEW tk \in Seq(Nat), NEW nt \in Seq(Nat),
         Sound(d) => Branching(b, tk, nt, f, d),
         \/ OutOf(f, b) = {}
         \/ OutOf(d, b) # {} /\ Min(OutOf(d, b)) \in ForksOf(d) /\ tk = << >>
  PROVE  Finished(f, d)
<1>1. Sound(d) => Below(f, d)
  BY BranchingBelow
<1>2. ASSUME Regular(d), Whole(f, d) PROVE FALSE
  <2>1. Sound(d) /\ Binary(d)
    BY <1>2 DEF Regular, Sound
  <2>2. b \in Sources(d) /\ Left(b, tk, d, "taken")
    BY <1>2, <2>1 DEF Branching
  <2>3. OutOf(f, b) = OutOf(d, b)
    <3>1. /\ DOMAIN f.arcs = 1 .. Len(f.arcs) /\ DOMAIN d.arcs = 1 .. Len(d.arcs)
      BY FunctionTypes, GraphTypes
    <3>2. DOMAIN f.arcs = DOMAIN d.arcs
      BY <1>2, <3>1 DEF Whole
    <3>3. \A k \in DOMAIN f.arcs : f.arcs[k].source = d.arcs[k].source
      BY PartFacts
    <3>4. QED
      BY <3>2, <3>3 DEF OutOf
  <2>4. OutOf(d, b) # {}
    BY <2>2 DEF Sources, OutOf
  <2>5. Min(OutOf(d, b)) \in ForksOf(d) => tk # << >>
    <3> DEFINE h == Min(OutOf(d, b))
    <3>1. h \in ForksOf(d) => tk # << >>
      BY <2>1, <2>2, <2>4, LeftStep
    <3>2. QED
      BY <3>1
  <2>6. QED
    BY <2>3, <2>4, <2>5
<1>3. QED
  BY <1>1, <1>2 DEF Finished

(***************************************************************************)
(* The second part of the inductive invariant: the counters.               *)
(***************************************************************************)
\* What is read counts nothing yet.
LEMMA ReadFresh ==
  ASSUME in \in Inputs, ReadInv, ReadFrame, \A i \in DOMAIN functions : Fresh(functions[i])
  PROVE  \A i \in DOMAIN functions' : Fresh(functions'[i])
<1> DEFINE m == frame.of
           d == in.functions[m]
<1>1. /\ functions \in Seq(FunctionSet) /\ Len(functions) \in Nat
      /\ DOMAIN functions = 1 .. Len(functions)
      /\ frame.kind \in {"function", "blocks", "arcs", "lines"}
      /\ \A i \in DOMAIN functions : functions[i] \in FunctionSet
  <2>1. functions \in Seq(FunctionSet) /\ frame \in FrameSet
    BY DEF ReadInv, ReadState
  <2>2. frame.kind \in {"function", "blocks", "arcs", "lines"}
    BY <2>1 DEF FrameSet
  <2>3. QED
    BY <2>1, <2>2, LenProperties, ElementOfSeq
<1>2. CASE frame.kind = "function"
  <2> DEFINE f == NewFunction(m)
  <2>1. functions' = Append(functions, f)
    BY <1>2 DEF ReadFrame
  <2>2. f.blocks = << >> /\ f.arcs = << >>
    BY DEF NewFunction
  <2>3. Fresh(f)
    BY <2>2 DEF Fresh
  <2> HIDE DEF f
  <2>4. ASSUME NEW i \in DOMAIN functions' PROVE Fresh(functions'[i])
    <3>1. i \in 1 .. Len(functions) + 1
      BY <1>1, <2>1
    <3>2. functions'[i] = IF i <= Len(functions) THEN functions[i] ELSE f
      BY <1>1, <2>1, <3>1
    <3>3. i <= Len(functions) => i \in DOMAIN functions
      BY <1>1, <3>1
    <3>4. QED
      BY <2>3, <3>2, <3>3
  <2>5. QED
    BY <2>4
<1>3. CASE frame.kind = "lines"
  BY <1>3 DEF ReadFrame
<1>4. ASSUME NEW g, Fresh(g), functions' = [functions EXCEPT ![m] = g]
      PROVE  \A i \in DOMAIN functions' : Fresh(functions'[i])
  <2>1. \A i \in DOMAIN functions : functions'[i] = IF i = m THEN g ELSE functions[i]
    BY <1>1, <1>4
  <2>2. DOMAIN functions' = DOMAIN functions
    BY <1>1, <1>4
  <2>3. QED
    BY <1>4, <2>1, <2>2
<1>5. CASE frame.kind = "blocks"
  <2> DEFINE z == [b \in 1 .. d.blocks |-> 0]
             g == [functions[m] EXCEPT !.blocks = z]
  <2>1. Len(functions) = m /\ m \in DOMAIN functions /\ functions[m] \in FunctionSet
    BY <1>5, ReadingFacts
  <2>2. functions' = [functions EXCEPT ![m] = g]
    BY <1>5, <2>1 DEF ReadFrame, Back
  <2>3. g.blocks = z /\ g.arcs = functions[m].arcs
    <3>1. functions[m] \in [of : 1 .. Len(in.functions), blocks : Seq(Nat), arcs : Seq(ArcSet)]
      BY <2>1 DEF FunctionSet
    <3> HIDE DEF z
    <3>2. QED
      BY <3>1
  <2> HIDE DEF g
  <2>4. Fresh(functions[m])
    BY <2>1
  <2>5. Fresh(g)
    BY <2>3, <2>4 DEF Fresh
  <2>6. QED
    BY <1>4, <2>2, <2>5
<1>6. CASE frame.kind = "arcs"
  <2> DEFINE c  == frame.block
             s  == ArcsFrom(d, c)
             as == functions[m].arcs \o s
             g  == [functions[m] EXCEPT !.arcs = as]
  <2>1. /\ Len(functions) = m /\ m \in DOMAIN functions /\ functions[m] \in FunctionSet
        /\ Graph(d)
    BY <1>6, ReadingFacts
  <2>2. functions' = [functions EXCEPT ![m] = g]
    BY <1>6, <2>1 DEF ReadFrame, Back
  <2>3. c \in Sources(d)
    BY <1>6 DEF ReadInv, ReadState
  <2>4. g.arcs = as /\ g.blocks = functions[m].blocks
    <3>1. functions[m] \in [of : 1 .. Len(in.functions), blocks : Seq(Nat), arcs : Seq(ArcSet)]
      BY <2>1 DEF FunctionSet
    <3> HIDE DEF as
    <3>2. QED
      BY <3>1
  <2>5. Fresh(functions[m])
    BY <2>1
  <2>6. s \in Seq(ArcSet) /\ \A j \in 1 .. Len(s) : s[j].counter = 0
    <3> DEFINE lo == Min(OutOf(d, c))
               hi == Max(OutOf(d, c))
    <3> HIDE DEF d, c
    <3>1. /\ lo \in 1 .. Len(d.arcs) /\ hi \in 1 .. Len(d.arcs)
          /\ s \in Seq(ArcSet) /\ Len(s) = hi - lo + 1
          /\ \A j \in 1 .. hi - lo + 1 : s[j] = NewArc(d.arcs[lo + j - 1])
      BY <2>1, <2>3, ArcsFromFacts
    <3>2. \A j \in 1 .. Len(s) : s[j] = NewArc(d.arcs[lo + j - 1])
      BY <3>1
    <3>3. \A a : NewArc(a).counter = 0
      BY DEF NewArc
    <3>4. QED
      BY <3>1, <3>2, <3>3
  <2> DEFINE r == functions[m].arcs
  <2>7. r \in Seq(ArcSet) /\ \A j \in 1 .. Len(r) : r[j].counter = 0
    BY <2>1, <2>5, FunctionTypes DEF Fresh
  <2> HIDE DEF g, s, r
  <2>8. \A j \in DOMAIN as : as[j].counter = 0
    <3>1. as = r \o s
      BY DEF r
    <3>2. /\ Len(r \o s) = Len(r) + Len(s) /\ r \o s \in Seq(ArcSet)
          /\ \A i \in 1 .. Len(r) + Len(s) :
               (r \o s)[i] = IF i <= Len(r) THEN r[i] ELSE s[i - Len(r)]
      BY <2>6, <2>7, ConcatProperties
    <3>3. Len(r) \in Nat /\ Len(s) \in Nat
      BY <2>6, <2>7, LenProperties
    <3>4. DOMAIN (r \o s) = 1 .. Len(r) + Len(s)
      BY <3>2, LenProperties
    <3>5. ASSUME NEW j \in 1 .. Len(r) + Len(s) PROVE (r \o s)[j].counter = 0
      <4>1. CASE j <= Len(r)
        <5>1. j \in 1 .. Len(r) /\ (r \o s)[j] = r[j]
          BY <3>2, <3>3, <4>1
        <5>2. QED
          BY <2>7, <5>1
      <4>2. CASE ~ (j <= Len(r))
        <5>1. j - Len(r) \in 1 .. Len(s) /\ (r \o s)[j] = s[j - Len(r)]
          BY <3>2, <3>3, <4>2
        <5>2. QED
          BY <2>6, <5>1
      <4>3. QED
        BY <4>1, <4>2
    <3> HIDE DEF as
    <3>6. QED
      BY <3>1, <3>4, <3>5
  <2> HIDE DEF as
  <2>9. Fresh(g)
    BY <2>4, <2>5, <2>8 DEF Fresh
  <2>10. QED
    BY <1>4, <2>2, <2>9
<1>7. QED
  BY <1>1, <1>2, <1>3, <1>5, <1>6

\* The notes file at hand does not change.
LEMMA CountTogether ==
  ASSUME in' = in, CountState(pc', fn', block', taken', notTaken', functions')
  PROVE  CountInv'
BY DEF CountInv, CountState

\* The pass goes on in function n,
LEMMA CountGoOn ==
  ASSUME NEW p \in {"function", "branches", "simple"}, NEW n \in Nat, NEW b, NEW tk, NEW nt,
         NEW fs, CountState(p, n, b, tk, nt, fs), DOMAIN fs \subseteq Nat,
         NEW gs, DOMAIN gs = DOMAIN fs, \A i \in DOMAIN fs : i # n => gs[i] = fs[i],
         NEW q \in {"branches", "simple"}, NEW c, NEW tl, NEW nl,
         Sound(in.functions[n]) =>
           /\ q = "branches" => Branching(c, tl, nl, gs[n], in.functions[n])
           /\ q = "simple" => Propagating(c, gs[n], in.functions[n])
  PROVE  CountState(q, n, c, tl, nl, gs)
<1>1. ASSUME NEW i \in DOMAIN gs
      PROVE  LET f == gs[i]
                 d == in.functions[i]
             IN  /\ n < i => Fresh(f)
                 /\ i < n => Finished(f, d)
                 /\ q = "branches" /\ i = n /\ Sound(d) => Branching(c, tl, nl, f, d)
                 /\ q = "simple" /\ i = n /\ Sound(d) => Propagating(c, f, d)
  <2>1. i \in DOMAIN fs /\ i \in Nat
    OBVIOUS
  <2>2. CASE i = n
    <3>1. ~ (n < i) /\ ~ (i < n)
      BY <2>1, <2>2
    <3>2. QED
      BY <2>2, <3>1
  <2>3. CASE i # n
    <3>1. gs[i] = fs[i]
      BY <2>1, <2>3
    <3>2. /\ (p = "function" /\ n <= i) \/ (p \in {"branches", "simple"} /\ n < i) => Fresh(fs[i])
          /\ p \in {"function", "branches", "simple"} /\ i < n => Finished(fs[i], in.functions[i])
      BY <2>1 DEF CountState
    <3>3. n < i => n <= i
      BY <2>1
    <3>4. QED
      BY <2>3, <3>1, <3>2, <3>3
  <2>4. QED
    BY <2>2, <2>3
<1>2. q # "read" /\ q # "function" /\ q \notin {"write", "written"} /\ q # "failed"
  OBVIOUS
<1>3. QED
  BY <1>1, <1>2 DEF CountState

\* or has finished it.
LEMMA CountLeave ==
  ASSUME NEW p \in {"function", "branches", "simple"}, NEW n \in Nat, NEW b, NEW tk, NEW nt,
         NEW fs, CountState(p, n, b, tk, nt, fs), DOMAIN fs \subseteq Nat,
         NEW gs, DOMAIN gs = DOMAIN fs, \A i \in DOMAIN fs : i # n => gs[i] = fs[i],
         Finished(gs[n], in.functions[n]), NEW c, NEW tl, NEW nl
  PROVE  CountState("function", n + 1, c, tl, nl, gs)
<1>1. ASSUME NEW i \in DOMAIN gs
      PROVE  /\ n + 1 <= i => Fresh(gs[i])
             /\ i < n + 1 => Finished(gs[i], in.functions[i])
  <2>1. i \in DOMAIN fs /\ i \in Nat
    OBVIOUS
  <2>2. CASE i = n
    <3>1. ~ (n + 1 <= i)
      BY <2>1, <2>2
    <3>2. QED
      BY <2>2, <3>1
  <2>3. CASE i # n
    <3>1. gs[i] = fs[i]
      BY <2>1, <2>3
    <3>2. /\ (p = "function" /\ n <= i) \/ (p \in {"branches", "simple"} /\ n < i) => Fresh(fs[i])
          /\ p \in {"function", "branches", "simple"} /\ i < n => Finished(fs[i], in.functions[i])
      BY <2>1 DEF CountState
    <3>3. /\ n + 1 <= i => n < i /\ n <= i
          /\ i < n + 1 => i < n
      BY <2>1, <2>3
    <3>4. QED
      BY <3>1, <3>2, <3>3
  <2>4. QED
    BY <2>2, <2>3
<1>2. QED
  BY <1>1 DEF CountState

\* Before the first frame nothing is counted.
LEMMA CountInit == ASSUME Init PROVE CountInv
<1>1. functions = << >>
  BY DEF Init
<1>2. DOMAIN functions = {}
  BY <1>1
<1>3. QED
  BY <1>2 DEF CountInv, CountState

\* The function that is processed, with what is known of its counters.
LEMMA CurrentCount ==
  ASSUME TypesInv, CountInv, pc \in {"branches", "simple"}
  PROVE  LET f == functions[fn]
             d == in.functions[fn]
         IN  /\ Graph(d) /\ f \in FunctionSet /\ PartOf(f, d) /\ f.blocks # << >> /\ d.mapped
             /\ fn \in DOMAIN functions /\ fn \in Nat /\ block \in Nat
             /\ DOMAIN functions \subseteq Nat
             /\ CountState(pc, fn, block, taken, notTaken, functions)
             /\ pc = "branches" /\ Sound(d) => Branching(block, taken, notTaken, f, d)
             /\ pc = "simple" /\ Sound(d) => Propagating(block, f, d)
<1>1. /\ fn \in DOMAIN functions /\ functions[fn] \in FunctionSet
      /\ Graph(in.functions[fn]) /\ PartOf(functions[fn], in.functions[fn])
      /\ Walk(block, arc, functions[fn], in.functions[fn]) /\ functions[fn].blocks # << >>
  BY CurrentFacts
<1>2. block \in Nat /\ in.functions[fn].mapped
  BY <1>1 DEF Walk
<1>3. fn \in Nat /\ DOMAIN functions \subseteq Nat
  BY <1>1, ListFacts
<1>4. CountState(pc, fn, block, taken, notTaken, functions)
  BY DEF CountInv
<1>5. /\ pc = "branches" /\ Sound(in.functions[fn]) =>
           Branching(block, taken, notTaken, functions[fn], in.functions[fn])
      /\ pc = "simple" /\ Sound(in.functions[fn]) =>
           Propagating(block, functions[fn], in.functions[fn])
  BY <1>1, <1>4 DEF CountState
<1>6. QED
  BY <1>1, <1>2, <1>3, <1>4, <1>5

\* In a regular graph read whole the next block has arcs as well.
LEMMA NextBlock ==
  ASSUME TypesInv, CountInv, pc = "branches", Found # {}, ~ IsLast
  PROVE  LET d == in.functions[fn]
         IN  Regular(d) /\ Whole(functions[fn], d) => block + 1 \in Sources(d)
<1> DEFINE f == functions[fn]
           d == in.functions[fn]
<1>1. /\ Graph(d) /\ (Sound(d) => Branching(block, taken, notTaken, f, d))
      /\ Here = Min(OutOf(d, block)) /\ (Whole(f, d) => (IsLast <=> Here = Len(d.arcs)))
  BY CurrentCount, HereFacts
<1> HIDE DEF f, d
<1>2. ASSUME Regular(d), Whole(f, d) PROVE block + 1 \in Sources(d)
  <2>1. Sound(d)
    BY <1>2 DEF Regular, Sound
  <2>2. block \in Sources(d)
    BY <1>1, <1>2, <2>1 DEF Branching
  <2>3. Min(OutOf(d, block)) # Len(d.arcs)
    BY <1>1, <1>2
  <2>4. QED
    BY <1>1, <1>2, <2>2, <2>3, RegularNext
<1>3. QED
  BY <1>2 DEF f, d

\* A function is started, or passed by.
LEMMA CountStart ==
  ASSUME TypesInv, CountInv, StartFunction
  PROVE  CountState(pc', fn', block', taken', notTaken', functions')
<1> DEFINE f == functions[fn]
           d == in.functions[fn]
<1>1. /\ pc = "function" /\ fn <= Len(functions) /\ functions' = functions
  BY DEF StartFunction
<1>2. /\ DOMAIN functions = 1 .. Len(functions) /\ Len(functions) \in Nat
      /\ fn \in 1 .. Len(functions) + 1
  BY ListFacts
<1>3. fn \in DOMAIN functions /\ fn \in Nat /\ DOMAIN functions \subseteq Nat
  BY <1>1, <1>2
<1>4. f \in FunctionSet /\ f.of = fn /\ Graph(d) /\ PartOf(f, d)
  BY <1>3, ListFacts
<1>5. Current = f /\ Descr = d
  BY <1>4 DEF Current, Descr
<1>6. CountState("function", fn, block, taken, notTaken, functions)
  BY <1>1 DEF CountInv
<1>7. Fresh(f)
  <2>1. fn <= fn
    BY <1>3
  <2>2. QED
    BY <1>3, <1>6, <2>1 DEF CountState
<1>8. CASE Unusable
  <2>1. NextFunction
    BY <1>8 DEF StartFunction
  <2>2. f.blocks = << >> \/ f.arcs = << >> \/ ~ d.mapped
    BY <1>5, <1>8 DEF Unusable, blocks, arcs
  <2>3. Finished(f, d)
    <3> HIDE DEF f, d
    <3>1. QED
      BY <1>4, <1>7, <2>2, FinishedFresh
  <2>4. CountState("function", fn + 1, 0, << >>, << >>, functions)
    BY <1>3, <1>6, <2>3, CountLeave
  <2>5. QED
    BY <1>1, <2>1, <2>4 DEF NextFunction
<1>9. CASE ~ Unusable
  <2>1. /\ pc' = "branches" /\ block' = 0 /\ fn' = fn
        /\ taken' = BranchCounts(d, "taken") /\ notTaken' = BranchCounts(d, "notTaken")
    BY <1>5, <1>9 DEF StartFunction
  <2>2. f.arcs # << >>
    BY <1>5, <1>9 DEF Unusable, arcs
  <2>3. Sound(d) => Branching(0, BranchCounts(d, "taken"), BranchCounts(d, "notTaken"), f, d)
    <3> HIDE DEF f, d
    <3>1. QED
      BY <1>4, <1>7, <2>2, BranchingStart
  <2>4. CountState("branches", fn, 0, BranchCounts(d, "taken"), BranchCounts(d, "notTaken"),
                   functions)
    BY <1>3, <1>6, <2>3, CountGoOn
  <2>5. QED
    BY <1>1, <2>1, <2>4
<1>10. QED
  BY <1>8, <1>9

\* The first pass ends early.
LEMMA CountFails ==
  ASSUME TypesInv, CountInv, BranchFails
  PROVE  CountState(pc', fn', block', taken', notTaken', functions')
<1> DEFINE f == functions[fn]
           d == in.functions[fn]
<1>1. /\ pc = "branches" /\ functions' = functions /\ NextFunction
      /\ \/ Found = {}
         \/ Found # {} /\ ~ IsLast /\ Forks(arcs, Here) /\ taken = << >>
  BY DEF BranchFails
<1>2. /\ Graph(d) /\ f \in FunctionSet /\ PartOf(f, d) /\ f.blocks # << >> /\ d.mapped
      /\ fn \in DOMAIN functions /\ fn \in Nat /\ block \in Nat /\ DOMAIN functions \subseteq Nat
      /\ CountState(pc, fn, block, taken, notTaken, functions)
      /\ Sound(d) => Branching(block, taken, notTaken, f, d)
  BY <1>1, CurrentCount
<1>3. Found = OutOf(f, block)
  BY <1>1, CurrentFacts
<1>4. taken \in Seq(Nat) /\ notTaken \in Seq(Nat)
  BY ListFacts
<1>5. \/ OutOf(f, block) = {}
      \/ OutOf(d, block) # {} /\ Min(OutOf(d, block)) \in ForksOf(d) /\ taken = << >>
  <2>1. CASE Found = {}
    BY <1>3, <2>1
  <2>2. CASE Found # {} /\ ~ IsLast /\ Forks(arcs, Here) /\ taken = << >>
    <3>1. /\ OutOf(d, block) # {} /\ Here = Min(OutOf(d, block))
          /\ Forks(arcs, Here) <=> Here \in ForksOf(d)
      BY <1>1, <2>2, HereFacts
    <3>2. QED
      BY <2>2, <3>1
  <2>3. QED
    BY <1>1, <2>1, <2>2
<1>6. Finished(f, d)
  <2> HIDE DEF f, d
  <2>1. QED
    BY <1>2, <1>4, <1>5, FinishedEarly
<1>7. CountState("function", fn + 1, 0, << >>, << >>, functions)
  <2>1. CountState("branches", fn, block, taken, notTaken, functions)
    BY <1>1, <1>2
  <2>2. QED
    BY <1>2, <1>6, <2>1, CountLeave
<1>8. QED
  BY <1>1, <1>7 DEF NextFunction

\* It assigns the counts of a branch.
LEMMA CountProcess ==
  ASSUME TypesInv, CountInv, ProcessBranch
  PROVE  CountState(pc', fn', block', taken', notTaken', functions')
<1> DEFINE f == functions[fn]
           d == in.functions[fn]
           h == Here
           x == First
           y == Second
           e == Assigned(f, h, x)
           g == Assigned(e, h + 1, y)
<1>1. /\ pc = "branches" /\ Found # {} /\ ~ IsLast /\ Forks(arcs, Here)
      /\ pc' = "branches" /\ fn' = fn /\ block' = block + 1
      /\ taken' = Tail(taken) /\ notTaken' = Tail(notTaken)
  BY DEF ProcessBranch
<1>2. /\ Graph(d) /\ f \in FunctionSet /\ PartOf(f, d) /\ f.blocks # << >>
      /\ fn \in DOMAIN functions /\ fn \in Nat /\ block \in Nat /\ DOMAIN functions \subseteq Nat
      /\ CountState("branches", fn, block, taken, notTaken, functions)
      /\ Sound(d) => Branching(block, taken, notTaken, f, d)
  BY <1>1, CurrentCount
<1>3. /\ OutOf(d, block) # {} /\ h = Min(OutOf(d, block)) /\ h \in DOMAIN f.arcs
      /\ h + 1 \in DOMAIN f.arcs /\ h \in ForksOf(d)
  BY <1>1, HereFacts
<1>4. taken \in Seq(Nat) /\ notTaken \in Seq(Nat)
  BY ListFacts
<1>5. /\ functions' = [functions EXCEPT ![fn] = g]
      /\ x \in Nat /\ y \in Nat
      /\ e \in FunctionSet /\ SameShape(f, e)
      /\ \A j \in DOMAIN f.arcs : e.arcs[j].counter = IF j = h THEN x ELSE f.arcs[j].counter
      /\ \A j \in DOMAIN f.blocks :
           e.blocks[j] = IF j = f.arcs[h].destination + 1 THEN f.blocks[j] + x ELSE f.blocks[j]
      /\ g \in FunctionSet /\ SameShape(f, g)
      /\ \A j \in DOMAIN f.arcs : g.arcs[j].counter = IF j = h + 1 THEN y ELSE e.arcs[j].counter
      /\ \A j \in DOMAIN f.blocks :
           g.blocks[j] = IF j = f.arcs[h + 1].destination + 1 THEN e.blocks[j] + y ELSE e.blocks[j]
  BY ProcessFacts
<1>6. /\ x = IF "fall" \in f.arcs[h].flags THEN Head(notTaken) ELSE Head(taken)
      /\ y = IF "fall" \in f.arcs[h].flags THEN Head(taken) ELSE Head(notTaken)
  <2>1. Current = f
    BY <1>1, CurrentFacts
  <2>2. FallsFirst(h) <=> "fall" \in f.arcs[h].flags
    BY <2>1 DEF FallsFirst, arcs
  <2>3. QED
    BY <2>2 DEF First, Second
<1>7. Regular(d) /\ Whole(f, d) => block + 1 \in Sources(d)
  BY <1>1, NextBlock
<1>8. /\ DOMAIN functions' = DOMAIN functions /\ functions'[fn] = g
      /\ \A i \in DOMAIN functions : i # fn => functions'[i] = functions[i]
  <2> HIDE DEF g
  <2>1. QED
    BY <1>2, <1>5, ListKept
<1> HIDE DEF f, d, h, x, y, e, g
<1>9. Regular(d) /\ Whole(g, d) => block + 1 \in Sources(d)
  BY <1>2, <1>5, <1>7, ShapeKept
<1>10. Sound(d) => Branching(block + 1, Tail(taken), Tail(notTaken), g, d)
  <2>1. SUFFICES ASSUME Sound(d) PROVE Branching(block + 1, Tail(taken), Tail(notTaken), g, d)
    OBVIOUS
  <2>2. Branching(block, taken, notTaken, f, d)
    BY <1>2, <2>1
  <2> DEFINE b  == block
             tk == taken
             nt == notTaken
  <2>3. /\ Graph(d) /\ Sound(d) /\ f \in FunctionSet /\ PartOf(f, d) /\ f.blocks # << >>
        /\ b \in Nat /\ OutOf(d, b) # {} /\ h = Min(OutOf(d, b)) /\ h \in ForksOf(d)
        /\ h \in DOMAIN f.arcs /\ h + 1 \in DOMAIN f.arcs
        /\ tk \in Seq(Nat) /\ nt \in Seq(Nat) /\ Branching(b, tk, nt, f, d)
        /\ x \in Nat /\ x = IF "fall" \in f.arcs[h].flags THEN Head(nt) ELSE Head(tk)
        /\ y \in Nat /\ y = IF "fall" \in f.arcs[h].flags THEN Head(tk) ELSE Head(nt)
        /\ e \in FunctionSet /\ g \in FunctionSet
        /\ Regular(d) /\ Whole(g, d) => b + 1 \in Sources(d)
    BY <1>2, <1>3, <1>4, <1>5, <1>6, <1>9, <2>1, <2>2
  <2>4. TwoCounts(f, h, x, y, e, g)
    BY <1>5 DEF TwoCounts
  <2> HIDE DEF b, tk, nt
  <2>5. Branching(b + 1, Tail(tk), Tail(nt), g, d)
    BY ONLY <2>3, <2>4, BranchingProcess
  <2>6. QED
    BY <2>5 DEF b, tk, nt
<1>11. CountState("branches", fn, block + 1, Tail(taken), Tail(notTaken), functions')
  <2>1. Sound(in.functions[fn]) =>
          Branching(block + 1, Tail(taken), Tail(notTaken), functions'[fn], in.functions[fn])
    BY <1>8, <1>10 DEF d
  <2> DEFINE fs == functions
             gs == functions'
             b  == block + 1
             tl == Tail(taken)
             nl == Tail(notTaken)
  <2>2. /\ CountState("branches", fn, block, taken, notTaken, fs) /\ DOMAIN fs \subseteq Nat
        /\ DOMAIN gs = DOMAIN fs /\ \A i \in DOMAIN fs : i # fn => gs[i] = fs[i]
        /\ Sound(in.functions[fn]) => Branching(b, tl, nl, gs[fn], in.functions[fn])
    BY <1>2, <1>8, <2>1
  <2> HIDE DEF fs, gs, b, tl, nl
  <2>3. CountState("branches", fn, b, tl, nl, gs)
    BY <1>2, <2>2, CountGoOn
  <2>4. QED
    BY <2>3 DEF fs, gs, b, tl, nl
<1>12. QED
  BY <1>1, <1>11

\* It passes by a block.
LEMMA CountPass ==
  ASSUME TypesInv, CountInv, PassBranch
  PROVE  CountState(pc', fn', block', taken', notTaken', functions')
<1> DEFINE f == functions[fn]
           d == in.functions[fn]
<1>1. /\ pc = "branches" /\ Found # {} /\ ~ IsLast /\ ~ Forks(arcs, Here)
      /\ pc' = "branches" /\ fn' = fn /\ block' = block + 1
      /\ taken' = taken /\ notTaken' = notTaken /\ functions' = functions
  BY DEF PassBranch
<1>2. /\ Graph(d) /\ f \in FunctionSet /\ PartOf(f, d) /\ f.blocks # << >>
      /\ fn \in DOMAIN functions /\ fn \in Nat /\ block \in Nat /\ DOMAIN functions \subseteq Nat
      /\ CountState("branches", fn, block, taken, notTaken, functions)
      /\ Sound(d) => Branching(block, taken, notTaken, f, d)
  BY <1>1, CurrentCount
<1>3. OutOf(d, block) # {} /\ Min(OutOf(d, block)) \notin ForksOf(d)
  BY <1>1, HereFacts
<1>4. taken \in Seq(Nat) /\ notTaken \in Seq(Nat)
  BY ListFacts
<1>5. Regular(d) /\ Whole(f, d) => block + 1 \in Sources(d)
  BY <1>1, NextBlock
<1>6. Sound(d) => Branching(block + 1, taken, notTaken, f, d)
  <2> HIDE DEF f, d
  <2>1. QED
    BY <1>2, <1>3, <1>4, <1>5, BranchingPass
<1>7. CountState("branches", fn, block + 1, taken, notTaken, functions)
  BY <1>2, <1>6, CountGoOn
<1>8. QED
  BY <1>1, <1>7

\* The second pass begins.
LEMMA CountDone ==
  ASSUME TypesInv, CountInv, BranchesDone
  PROVE  CountState(pc', fn', block', taken', notTaken', functions')
<1> DEFINE f == functions[fn]
           d == in.functions[fn]
           g == [f EXCEPT !.blocks[1] = WasExecuted(d)]
<1>1. /\ pc = "branches" /\ Found # {} /\ IsLast
      /\ pc' = "simple" /\ fn' = fn /\ block' = 0
      /\ taken' = taken /\ notTaken' = notTaken
  BY DEF BranchesDone
<1>2. /\ Graph(d) /\ f \in FunctionSet /\ PartOf(f, d) /\ f.blocks # << >>
      /\ fn \in DOMAIN functions /\ fn \in Nat /\ block \in Nat /\ DOMAIN functions \subseteq Nat
      /\ CountState("branches", fn, block, taken, notTaken, functions)
      /\ Sound(d) => Branching(block, taken, notTaken, f, d)
  BY <1>1, CurrentCount
<1>3. /\ OutOf(d, block) # {} /\ Min(OutOf(d, block)) \notin ForksOf(d)
      /\ \A k \in DOMAIN f.arcs : f.arcs[k].source <= block
  BY <1>1, HereFacts
<1>4. /\ functions' = [functions EXCEPT ![fn] = g]
      /\ 1 \in DOMAIN f.blocks /\ g \in FunctionSet /\ SameShape(f, g) /\ g.arcs = f.arcs
      /\ \A j \in DOMAIN f.blocks : g.blocks[j] = IF j = 1 THEN WasExecuted(d) ELSE f.blocks[j]
  BY DoneFacts
<1>5. /\ DOMAIN functions' = DOMAIN functions /\ functions'[fn] = g
      /\ \A i \in DOMAIN functions : i # fn => functions'[i] = functions[i]
  <2> HIDE DEF g
  <2>1. QED
    BY <1>2, <1>4, ListKept
<1>6. Sound(d) => Propagating(0, g, d)
  <2> HIDE DEF f, d, g
  <2>1. QED
    BY <1>2, <1>3, <1>4, PropagatingStart
<1>7. Sound(in.functions[fn]) => Propagating(0, functions'[fn], in.functions[fn])
  BY <1>5, <1>6
<1> DEFINE gs == functions'
<1>8. /\ DOMAIN gs = DOMAIN functions /\ \A i \in DOMAIN functions : i # fn => gs[i] = functions[i]
      /\ Sound(in.functions[fn]) => Propagating(0, gs[fn], in.functions[fn])
  BY <1>5, <1>7
<1> HIDE DEF gs, f, d, g
<1>9. CountState("simple", fn, 0, taken, notTaken, gs)
  BY <1>2, <1>8, CountGoOn
<1>10. QED
  BY <1>1, <1>9 DEF gs

\* What the second pass makes of the function when it passes a count on.
LEMMA PropagatedNext ==
  ASSUME TypesInv, CountInv, pc = "simple",
         \/ IsLast
         \/ Passes(Here),
         functions' = [functions EXCEPT ![fn] = Assigned(functions[fn], Here, blocks[block + 1])]
  PROVE  LET d == in.functions[fn]
         IN  \E g \in FunctionSet :
               /\ SameShape(functions[fn], g) /\ functions'[fn] = g
               /\ Sound(d) => Propagating(block + 1, g, d)
               /\ DOMAIN functions' = DOMAIN functions
               /\ \A i \in DOMAIN functions : i # fn => functions'[i] = functions[i]
<1> DEFINE f == functions[fn]
           d == in.functions[fn]
           h == Here
           c == f.blocks[block + 1]
           g == Assigned(f, h, c)
<1>1. /\ Graph(d) /\ f \in FunctionSet /\ PartOf(f, d) /\ f.blocks # << >>
      /\ fn \in DOMAIN functions /\ block \in Nat
      /\ Sound(d) => Propagating(block, f, d)
  BY CurrentCount
<1>2. Found # {}
  BY CurrentFacts
<1>3. /\ OutOf(d, block) # {} /\ h = Min(OutOf(d, block)) /\ h \in DOMAIN f.arcs
      /\ h \in Beside(d) => IsFake(d.arcs[h + 1])
  <2>1. /\ OutOf(d, block) # {} /\ h = Min(OutOf(d, block)) /\ h \in DOMAIN f.arcs
        /\ IsLast => h \notin Beside(d)
        /\ ~ IsLast => (Passes(h) <=> (h \in Beside(d) => IsFake(d.arcs[h + 1])))
    BY <1>2, HereFacts
  <2>2. QED
    BY <2>1
<1>4. /\ functions' = [functions EXCEPT ![fn] = g]
      /\ c \in Nat /\ g \in FunctionSet /\ SameShape(f, g)
      /\ \A j \in DOMAIN f.arcs : g.arcs[j].counter = IF j = h THEN c ELSE f.arcs[j].counter
      /\ \A j \in DOMAIN f.blocks :
           g.blocks[j] = IF j = f.arcs[h].destination + 1 THEN f.blocks[j] + c ELSE f.blocks[j]
  BY PropagateFacts
<1>5. /\ DOMAIN functions' = DOMAIN functions /\ functions'[fn] = g
      /\ \A i \in DOMAIN functions : i # fn => functions'[i] = functions[i]
  <2> HIDE DEF g
  <2>1. QED
    BY <1>1, <1>4, ListKept
<1>6. c = f.blocks[block + 1]
  OBVIOUS
<1> HIDE DEF f, d, h, c, g
<1>7. Sound(d) => Propagating(block + 1, g, d)
  <2>1. SUFFICES ASSUME Sound(d) PROVE Propagating(block + 1, g, d)
    OBVIOUS
  <2>2. Propagating(block, f, d)
    BY <1>1, <2>1
  <2>3. QED
    BY <1>1, <1>3, <1>4, <1>6, <2>1, <2>2, PropagatingPass
<1>8. QED
  BY <1>4, <1>5, <1>7 DEF f, d

\* The second pass goes on to the next block.
LEMMA CountPropagate ==
  ASSUME TypesInv, CountInv, PropagateBlock
  PROVE  CountState(pc', fn', block', taken', notTaken', functions')
<1> DEFINE d == in.functions[fn]
<1>1. /\ pc = "simple" /\ ~ IsLast
      /\ pc' = "simple" /\ fn' = fn /\ block' = block + 1
      /\ taken' = taken /\ notTaken' = notTaken
  BY DEF PropagateBlock
<1>2. /\ Graph(d) /\ functions[fn] \in FunctionSet /\ PartOf(functions[fn], d)
      /\ functions[fn].blocks # << >>
      /\ fn \in DOMAIN functions /\ fn \in Nat /\ block \in Nat /\ DOMAIN functions \subseteq Nat
      /\ CountState("simple", fn, block, taken, notTaken, functions)
      /\ Sound(d) => Propagating(block, functions[fn], d)
  BY <1>1, CurrentCount
<1> DEFINE gs == functions'
<1>3. /\ DOMAIN gs = DOMAIN functions
      /\ \A i \in DOMAIN functions : i # fn => gs[i] = functions[i]
      /\ Sound(d) => Propagating(block + 1, gs[fn], d)
  <2>1. CASE Passes(Here)
    <3>1. functions' = [functions EXCEPT ![fn] = Assigned(functions[fn], Here, blocks[block + 1])]
      BY <2>1 DEF PropagateBlock
    <3>2. QED
      BY <1>1, <2>1, <3>1, PropagatedNext
  <2>2. CASE ~ Passes(Here)
    <3>1. functions' = functions
      BY <2>2 DEF PropagateBlock
    <3>2. Found # {}
      BY <1>1, CurrentFacts
    <3>3. /\ OutOf(d, block) # {} /\ Here = Min(OutOf(d, block))
          /\ Here \in Beside(d) /\ ~ IsFake(d.arcs[Here + 1])
      BY <1>1, <2>2, <3>2, HereFacts
    <3> DEFINE f == functions[fn]
               h == Here
    <3>4. /\ Graph(d) /\ f \in FunctionSet /\ PartOf(f, d) /\ f.blocks # << >>
          /\ h = Min(OutOf(d, block)) /\ h \in Beside(d) /\ ~ IsFake(d.arcs[h + 1])
          /\ Sound(d) => Propagating(block, f, d)
      BY <1>2, <3>3
    <3> HIDE DEF f, d, h
    <3>5. Sound(d) => Propagating(block + 1, f, d)
      BY <1>2, <3>3, <3>4, PropagatingSkip
    <3>6. QED
      BY <3>1, <3>5 DEF f
  <2>3. QED
    BY <2>1, <2>2
<1> HIDE DEF gs
<1>4. CountState("simple", fn, block + 1, taken, notTaken, gs)
  BY <1>2, <1>3, CountGoOn
<1>5. QED
  BY <1>1, <1>4 DEF gs

\* It comes to its end.
LEMMA CountLast ==
  ASSUME TypesInv, CountInv, PropagateLast
  PROVE  CountState(pc', fn', block', taken', notTaken', functions')
<1> DEFINE f == functions[fn]
           d == in.functions[fn]
<1>1. /\ pc = "simple" /\ IsLast /\ NextFunction
      /\ functions' = [functions EXCEPT ![fn] = Assigned(functions[fn], Here, blocks[block + 1])]
  BY DEF PropagateLast
<1>2. /\ Graph(d) /\ f \in FunctionSet /\ PartOf(f, d) /\ f.blocks # << >> /\ d.mapped
      /\ fn \in DOMAIN functions /\ fn \in Nat /\ block \in Nat /\ DOMAIN functions \subseteq Nat
      /\ CountState("simple", fn, block, taken, notTaken, functions)
  BY <1>1, CurrentCount
<1>3. PICK g \in FunctionSet :
        /\ SameShape(f, g) /\ functions'[fn] = g
        /\ Sound(d) => Propagating(block + 1, g, d)
        /\ DOMAIN functions' = DOMAIN functions
        /\ \A i \in DOMAIN functions : i # fn => functions'[i] = functions[i]
  BY <1>1, PropagatedNext
<1>4. \A k \in DOMAIN f.arcs : f.arcs[k].source <= block
  <2>1. Found # {}
    BY <1>1, CurrentFacts
  <2>2. QED
    BY <1>1, <2>1, HereFacts
<1> HIDE DEF f, d
<1>5. PartOf(g, d)
  BY <1>2, <1>3, ShapeKept
<1>6. g.blocks # << >> /\ \A k \in DOMAIN g.arcs : g.arcs[k].source < block + 1
  <2>1. g.blocks # << >>
    <3>1. f.blocks \in Seq(Nat) /\ g.blocks \in Seq(Nat) /\ DOMAIN g.blocks = DOMAIN f.blocks
          /\ DOMAIN f.blocks = 1 .. Len(f.blocks) /\ Len(f.blocks) \in Nat
      BY <1>2, <1>3, FunctionTypes DEF SameShape
    <3>2. Len(f.blocks) # 0
      BY <1>2, <3>1, EmptySeq
    <3>3. 1 \in DOMAIN g.blocks
      BY <3>1, <3>2
    <3>4. QED
      BY <3>3
  <2>2. ASSUME NEW k \in DOMAIN g.arcs PROVE g.arcs[k].source < block + 1
    <3>1. k \in DOMAIN f.arcs /\ g.arcs[k].source = f.arcs[k].source
      BY <1>3 DEF SameShape
    <3>2. f.arcs[k].source \in Nat /\ f.arcs[k].source <= block
      BY <1>2, <1>4, <3>1, FunctionTypes
    <3>3. QED
      BY <1>2, <3>1, <3>2
  <2>3. QED
    BY <2>1, <2>2
<1>7. Finished(g, d)
  <2> DEFINE b == block + 1
  <2>1. (Sound(d) => Propagating(b, g, d)) /\ \A k \in DOMAIN g.arcs : g.arcs[k].source < b
    BY <1>3, <1>6
  <2> HIDE DEF b
  <2>2. QED
    BY <1>2, <1>3, <1>5, <1>6, <2>1, FinishedWhole
<1> DEFINE gs == functions'
<1>8. /\ DOMAIN gs = DOMAIN functions /\ \A i \in DOMAIN functions : i # fn => gs[i] = functions[i]
      /\ Finished(gs[fn], in.functions[fn])
  BY <1>3, <1>7 DEF d
<1> HIDE DEF gs
<1>9. CountState("function", fn + 1, 0, << >>, << >>, gs)
  BY <1>2, <1>8, CountLeave
<1>10. QED
  BY <1>1, <1>9 DEF NextFunction, gs

\* Every action keeps what is known of the counters.
LEMMA CountNext == ASSUME TypesInv, CountInv, [Next]_vars PROVE CountInv'
<1>1. CountState(pc, fn, block, taken, notTaken, functions)
  BY DEF CountInv
<1>2. /\ DOMAIN functions = 1 .. Len(functions) /\ Len(functions) \in Nat
      /\ fn \in 1 .. Len(functions) + 1 /\ in \in Inputs
      /\ \A i \in DOMAIN functions : /\ functions[i] \in FunctionSet /\ Graph(in.functions[i])
                                     /\ PartOf(functions[i], in.functions[i])
  BY ListFacts
<1>3. CASE UNCHANGED vars
  <2>1. /\ in' = in /\ pc' = pc /\ functions' = functions /\ fn' = fn /\ block' = block
        /\ taken' = taken /\ notTaken' = notTaken
    BY <1>3 DEF vars
  <2>2. CountState(pc', fn', block', taken', notTaken', functions')
    BY <1>1, <2>1
  <2>3. QED
    BY <2>1, <2>2, CountTogether
<1>4. CASE Unreadable
  <2>1. pc = "read" /\ pc' = "failed" /\ in' = in /\ functions' = functions
    BY <1>4 DEF Unreadable
  <2>2. \A i \in DOMAIN functions : Fresh(functions[i])
    BY <1>1, <2>1 DEF CountState
  <2>3. \A i \in DOMAIN functions : Below(functions[i], in.functions[i])
    BY <1>2, <2>2, FreshFacts
  <2>4. CountState("failed", fn', block', taken', notTaken', functions)
    BY <2>3 DEF CountState
  <2>5. QED
    BY <2>1, <2>4, CountTogether
<1>5. CASE ReadFrame
  <2>1. pc = "read" /\ pc' = "read" /\ in' = in
    BY <1>5 DEF ReadFrame
  <2>2. \A i \in DOMAIN functions : Fresh(functions[i])
    BY <1>1, <2>1 DEF CountState
  <2>3. \A i \in DOMAIN functions' : Fresh(functions'[i])
    BY <1>2, <1>5, <2>2, ReadFresh DEF TypesInv
  <2>4. CountState("read", fn', block', taken', notTaken', functions')
    BY <2>3 DEF CountState
  <2>5. QED
    BY <2>1, <2>4, CountTogether
<1>6. CASE EndReading
  <2>1. /\ pc = "read" /\ pc' = "function" /\ in' = in /\ functions' = functions /\ fn' = fn
    BY <1>6 DEF EndReading
  <2>2. \A i \in DOMAIN functions : Fresh(functions[i])
    BY <1>1, <2>1 DEF CountState
  <2>3. fn = 1
    BY <2>1 DEF TypesInv, ControlInv
  <2>4. \A i \in DOMAIN functions : ~ (i < fn)
    BY <1>2, <2>3
  <2>5. CountState("function", fn, block', taken', notTaken', functions)
    BY <2>2, <2>4 DEF CountState
  <2>6. QED
    BY <2>1, <2>5, CountTogether
<1>7. CASE StartFunction
  BY <1>7, CountStart, CountTogether DEF StartFunction
<1>8. CASE BranchFails
  BY <1>8, CountFails, CountTogether DEF BranchFails
<1>9. CASE ProcessBranch
  BY <1>9, CountProcess, CountTogether DEF ProcessBranch
<1>10. CASE PassBranch
  BY <1>10, CountPass, CountTogether DEF PassBranch
<1>11. CASE BranchesDone
  BY <1>11, CountDone, CountTogether DEF BranchesDone
<1>12. CASE PropagateBlock
  BY <1>12, CountPropagate, CountTogether DEF PropagateBlock
<1>13. CASE PropagateLast
  BY <1>13, CountLast, CountTogether DEF PropagateLast
<1>14. CASE OpenGcda \/ OpenFails
  <2>1. /\ pc = "function" /\ fn > Len(functions) /\ pc' \in {"write", "failed"}
        /\ in' = in /\ functions' = functions
    BY <1>14 DEF OpenGcda, OpenFails, memory
  <2>2. \A i \in DOMAIN functions : i < fn
    BY <1>2, <2>1
  <2>3. \A i \in DOMAIN functions : Finished(functions[i], in.functions[i])
    BY <1>1, <2>1, <2>2 DEF CountState
  <2>4. \A i \in DOMAIN functions :
          Sound(in.functions[i]) => Below(functions[i], in.functions[i])
    BY <2>3 DEF Finished
  <2>5. CountState(pc', fn', block', taken', notTaken', functions)
    BY <2>1, <2>3, <2>4 DEF CountState
  <2>6. QED
    BY <2>1, <2>5, CountTogether
<1>15. CASE WriteFunction \/ LoseFunction \/ WriteSummary
  <2>1. /\ pc = "write" /\ pc' \in {"write", "written"} /\ in' = in /\ functions' = functions
    BY <1>15 DEF WriteFunction, LoseFunction, WriteSummary, memory
  <2>2. \A i \in DOMAIN functions : Finished(functions[i], in.functions[i])
    BY <1>1, <2>1 DEF CountState
  <2>3. CountState(pc', fn', block', taken', notTaken', functions)
    BY <2>1, <2>2 DEF CountState
  <2>4. QED
    BY <2>1, <2>3, CountTogether
<1>16. QED
  BY <1>3, <1>4, <1>5, <1>6, <1>7, <1>8, <1>9, <1>10, <1>11, <1>12, <1>13, <1>14, <1>15 DEF Next

\* So what is known of the counters holds always.
LEMMA CountSpec == Spec => [](TypesInv /\ CountInv)
<1>1. Init => TypesInv /\ CountInv
  BY TypesInit, CountInit
<1>2. TypesInv /\ CountInv /\ [Next]_vars => TypesInv' /\ CountInv'
  BY TypesNext, CountNext
<1>3. QED
  BY <1>1, <1>2, PTL DEF Spec

(***************************************************************************)
(* No block and no arc is ever counted more often than it was executed,    *)
(* wherever the notes are cut off and at whichever point of the two passes *)
(* this is looked at, for every graph with at most two arcs from a block   *)
(* whose FAKE arcs beside another are not followed.                        *)
(***************************************************************************)
THEOREM NeverMoreCorrect == Spec => []NeverMore
<1>1. ASSUME TypesInv, CountInv PROVE NeverMore
  <2>1. ASSUME NEW i \in DOMAIN functions, Sound(in.functions[i])
        PROVE  Below(functions[i], in.functions[i])
    <3> DEFINE f == functions[i]
               d == in.functions[i]
    <3>1. /\ Graph(d) /\ f \in FunctionSet /\ PartOf(f, d) /\ i \in Nat
          /\ fn \in Nat /\ i \in 1 .. Len(functions) /\ Len(functions) \in Nat
          /\ fn \in 1 .. Len(functions) + 1
      BY <1>1, ListFacts
    <3>2. pc \in {"read", "function", "branches", "simple", "write", "written", "failed"}
      BY <1>1 DEF TypesInv, ControlInv
    <3>3. /\ pc = "read" \/ (pc = "function" /\ fn <= i) \/ (pc \in {"branches", "simple"} /\ fn < i)
               => Fresh(f)
          /\ pc \in {"write", "written"}
               \/ (pc \in {"function", "branches", "simple"} /\ i < fn) => Finished(f, d)
          /\ pc = "branches" /\ i = fn /\ Sound(d) => Branching(block, taken, notTaken, f, d)
          /\ pc = "simple" /\ i = fn /\ Sound(d) => Propagating(block, f, d)
          /\ pc = "failed" /\ Sound(d) => Below(f, d)
      BY <1>1 DEF CountInv, CountState
    <3>4. Fresh(f) => Below(f, d)
      <4> HIDE DEF f, d
      <4>1. QED
        BY <3>1, FreshFacts
    <3>5. Finished(f, d) => Below(f, d)
      BY <2>1 DEF Finished
    <3>6. pc \in {"branches", "simple"} /\ i = fn => f.blocks # << >>
      BY <1>1, CurrentFacts
    <3>7. pc = "branches" /\ i = fn => Below(f, d)
      <4>1. SUFFICES ASSUME pc = "branches", i = fn PROVE Below(f, d)
        OBVIOUS
      <4>2. Branching(block, taken, notTaken, f, d) /\ f.blocks # << >>
        BY <2>1, <3>3, <3>6, <4>1
      <4> HIDE DEF f, d
      <4>3. QED
        BY <3>1, <4>2, BranchingBelow
    <3>8. pc = "simple" /\ i = fn => Below(f, d)
      <4>1. SUFFICES ASSUME pc = "simple", i = fn PROVE Below(f, d)
        OBVIOUS
      <4>2. Propagating(block, f, d) /\ f.blocks # << >>
        BY <2>1, <3>3, <3>6, <4>1
      <4> HIDE DEF f, d
      <4>3. QED
        BY <3>1, <4>2, PropagatingEnd
    <3>9. fn <= i \/ i < fn
      BY <3>1
    <3>10. pc \in {"branches", "simple"} => fn < i \/ i < fn \/ i = fn
      BY <3>1
    <3>11. QED
      BY <2>1, <3>2, <3>3, <3>4, <3>5, <3>7, <3>8, <3>9, <3>10
  <2>2. \A i \in DOMAIN functions : functions[i].of = i
    BY <1>1, ListFacts
  <2>3. QED
    BY <2>1, <2>2 DEF NeverMore, Below, Sound
<1>2. QED
  BY <1>1, CountSpec, PTL

\* When all notes were read, every function is whole.
LEMMA AllWhole ==
  ASSUME TypesInv, AllRead
  PROVE  \A i \in DOMAIN functions : Whole(functions[i], in.functions[i])
<1>1. ReadState(frame, functions) /\ frame \in FrameSet
  BY ListFacts DEF ReadState
<1>2. in \in Inputs
  BY ListFacts
<1>3. Len(in.functions) \in Nat /\ frame.of \in Nat
  BY <1>1, <1>2, GraphOf DEF FrameSet
<1>4. ASSUME NEW i \in DOMAIN functions PROVE Whole(functions[i], in.functions[i])
  <2>1. i \in 1 .. Len(in.functions)
    BY ListFacts, <1>2, GraphOf
  <2>2. i < frame.of
    BY <1>3, <2>1 DEF AllRead
  <2>3. QED
    BY <1>1, <2>2 DEF ReadState
<1>5. QED
  BY <1>4

(***************************************************************************)
(* Once the two passes are over and all notes were read, every arc of a    *)
(* regular graph counts exactly how often it was followed and every block  *)
(* how often it was entered, though the coverage map only knew the calls   *)
(* and the conditional branches; a function without a map counts nothing.  *)
(***************************************************************************)
THEOREM ArcsCorrect == Spec => []ArcsExact
<1>1. ASSUME TypesInv, CountInv PROVE ArcsExact
  <2>1. SUFFICES ASSUME Processed, AllRead, NEW i \in DOMAIN functions
                 PROVE  LET f == functions[i]
                            d == in.functions[i]
                        IN  /\ d.mapped /\ Regular(d) => Exact(f, d)
                            /\ ~ d.mapped => Fresh(f)
    <3>1. \A i \in DOMAIN functions : functions[i].of = i
      BY <1>1, ListFacts
    <3>2. QED
      BY <3>1 DEF ArcsExact, Exact, Fresh
  <2>2. Finished(functions[i], in.functions[i])
    BY <1>1, <2>1 DEF CountInv, CountState, Processed
  <2>3. Whole(functions[i], in.functions[i])
    BY <1>1, <2>1, AllWhole
  <2>4. QED
    BY <2>2, <2>3 DEF Finished
<1>2. QED
  BY <1>1, CountSpec, PTL

(***************************************************************************)
(* The third part of the inductive invariant: the data file, when n is the *)
(* next function to be written.  A function that was lost is missed in the *)
(* length of what is written.                                              *)
(***************************************************************************)
Lengths(w) == [i \in DOMAIN w |-> Len(w[i].counters)]

WrittenState(n, g, fs) ==
  /\ Len(g.written) <= n - 1
  /\ Len(g.written) = n - 1 =>
       /\ \A i \in DOMAIN g.written : g.written[i].counters = GetCounters(fs[i])
       /\ g.counters = Total(Lengths(g.written))

GcdaInv ==
  /\ pc \in {"read", "function", "branches", "simple"} => gcda = NoData
  /\ pc \in {"write", "written"} => WrittenState(fn, gcda, functions)
  /\ pc = "written" => fn = Len(functions) + 1

\* The total grows by the length that is appended.
LEMMA TotalAppend ==
  ASSUME NEW w \in Seq([of : Nat, counters : Seq(Nat)]), NEW i \in Nat, NEW cs \in Seq(Nat)
  PROVE  Total(Lengths(Append(w, [of |-> i, counters |-> cs]))) = Total(Lengths(w)) + Len(cs)
<1> DEFINE e == [of |-> i, counters |-> cs]
           v == Append(w, e)
           n == Len(w)
           f == Lengths(w)
           g == Lengths(v)
<1>1. /\ n \in Nat /\ DOMAIN w = 1 .. n /\ e \in [of : Nat, counters : Seq(Nat)]
      /\ \A j \in 1 .. n : w[j] \in [of : Nat, counters : Seq(Nat)]
  BY LenProperties, ElementOfSeq
<1>2. /\ v \in Seq([of : Nat, counters : Seq(Nat)]) /\ Len(v) = n + 1 /\ v[n + 1] = e
      /\ \A j \in 1 .. n : v[j] = w[j]
  <2> HIDE DEF e
  <2>1. QED
    BY <1>1, AppendProperties
<1> HIDE DEF v
<1>3. DOMAIN v = 1 .. n + 1
  BY <1>2, LenProperties
<1>4. /\ DOMAIN f = 1 .. n /\ DOMAIN g = 1 .. n + 1
      /\ \A j \in 1 .. n : f[j] = Len(w[j].counters) /\ g[j] = Len(v[j].counters)
      /\ g[n + 1] = Len(v[n + 1].counters)
  <2>1. n + 1 \in 1 .. n + 1 /\ \A j \in 1 .. n : j \in 1 .. n + 1
    BY <1>1
  <2>2. QED
    BY <1>1, <1>3, <2>1 DEF Lengths
<1> HIDE DEF f, g
<1>5. /\ \A j \in 1 .. n : f[j] \in Nat /\ g[j] = f[j]
      /\ g[n + 1] = Len(cs) /\ Len(cs) \in Nat
  <2>1. \A j \in 1 .. n : w[j].counters \in Seq(Nat)
    BY <1>1
  <2>2. \A j \in 1 .. n : Len(w[j].counters) \in Nat
    BY <2>1, LenProperties
  <2>3. Len(cs) \in Nat
    BY LenProperties
  <2>4. e.counters = cs
    OBVIOUS
  <2>5. g[n + 1] = Len(cs)
    BY <1>2, <1>4, <2>4
  <2>6. \A j \in 1 .. n : g[j] = Len(w[j].counters) /\ f[j] = Len(w[j].counters)
    BY <1>2, <1>4
  <2>7. \A j \in 1 .. n : f[j] \in Nat /\ g[j] = f[j]
    BY <2>2, <2>6
  <2>8. QED
    BY <2>3, <2>5, <2>7
<1>6. Total(f) = SumFunctionOnSet(f, 1 .. n) /\ Total(g) = SumFunctionOnSet(g, 1 .. n + 1)
  BY <1>4 DEF Total, SumFunction
<1> DEFINE S == 1 .. n
           m == n + 1
<1>7. IsFiniteSet(S) /\ m \notin S /\ 1 .. n + 1 = S \cup {m}
  <2>1. IsFiniteSet(S)
    BY <1>1, FS_Interval
  <2>2. QED
    BY <1>1, <2>1
<1>8. (\A j \in S \cup {m} : g[j] \in Nat) /\ \A j \in S : g[j] = f[j]
  BY <1>5
<1> HIDE DEF S, m
<1>9. SumFunctionOnSet(g, S \cup {m}) = g[m] + SumFunctionOnSet(g, S)
  BY <1>7, <1>8, SumAdd
<1>10. SumFunctionOnSet(g, S) = SumFunctionOnSet(f, S) /\ SumFunctionOnSet(f, S) \in Nat
  <2>1. \A j \in S : f[j] \in Nat
    BY <1>8
  <2>2. QED
    BY <1>7, <1>8, <2>1, SumEqual, SumType
<1>11. Total(g) = Len(cs) + Total(f) /\ Total(f) \in Nat
  BY <1>5, <1>6, <1>7, <1>9, <1>10 DEF S, m
<1>12. QED
  BY <1>5, <1>11 DEF v, e, f, g

\* Nothing of nothing.
LEMMA TotalNone == Total(Lengths(<< >>)) = 0
<1>1. DOMAIN Lengths(<< >>) = {}
  BY DEF Lengths
<1>2. QED
  BY <1>1, SumEmpty DEF Total, SumFunction

\* Before the first frame nothing is written.
LEMMA GcdaInit == ASSUME Init PROVE GcdaInv
BY DEF Init, GcdaInv

\* A function is written, or lost.
LEMMA GcdaWrite ==
  ASSUME TypesInv, GcdaInv, WriteFunction \/ LoseFunction
  PROVE  WrittenState(fn', gcda', functions')
<1> DEFINE cs == GetCounters(Current)
           w  == gcda.written
           e  == [of |-> fn, counters |-> cs]
<1>1. /\ pc = "write" /\ fn <= Len(functions) /\ fn' = fn + 1 /\ functions' = functions
  BY DEF WriteFunction, LoseFunction, memory
<1>2. /\ DOMAIN functions = 1 .. Len(functions) /\ Len(functions) \in Nat
      /\ fn \in 1 .. Len(functions) + 1 /\ gcda \in GcdaSet
  BY ListFacts
<1>3. fn \in DOMAIN functions /\ fn \in Nat
  BY <1>1, <1>2
<1>4. Current \in FunctionSet /\ Current.of = fn /\ Current = functions[fn]
  BY <1>3, ListFacts DEF Current
<1>5. cs \in Seq(Nat)
  BY <1>4, CountersFacts
<1>6. w \in Seq([of : Nat, counters : Seq(Nat)]) /\ Len(w) \in Nat /\ DOMAIN w = 1 .. Len(w)
  <2>1. w \in Seq([of : Nat, counters : Seq(Nat)])
    BY <1>2 DEF GcdaSet
  <2> HIDE DEF w
  <2>2. QED
    BY <2>1, LenProperties
<1>7. /\ Len(w) <= fn - 1
      /\ Len(w) = fn - 1 => /\ \A i \in DOMAIN w : w[i].counters = GetCounters(functions[i])
                            /\ gcda.counters = Total(Lengths(w))
  BY <1>1 DEF GcdaInv, WrittenState
<1>8. CASE LoseFunction
  <2>1. gcda' = Summed(cs)
    BY <1>8 DEF LoseFunction
  <2>2. gcda'.written = w
    <3> HIDE DEF cs
    <3>1. QED
      BY <1>2, <1>3, <1>5, <2>1, SummedType
  <2>3. Len(w) <= fn /\ Len(w) # fn /\ (fn + 1) - 1 = fn
    BY <1>3, <1>6, <1>7
  <2>4. QED
    BY <1>1, <2>2, <2>3 DEF WrittenState
<1>9. CASE WriteFunction
  <2>1. gcda' = [Summed(cs) EXCEPT !.written = Append(@, [of |-> fn, counters |-> cs])]
    BY <1>4, <1>9 DEF WriteFunction
  <2>2. gcda'.written = Append(w, e) /\ gcda'.counters = gcda.counters + Len(cs)
    <3> HIDE DEF cs
    <3>1. QED
      BY <1>2, <1>3, <1>5, <2>1, SummedType
  <2>3. e \in [of : Nat, counters : Seq(Nat)] /\ e.counters = cs
    BY <1>3, <1>5
  <2> DEFINE v == Append(w, e)
             gs == GetCounters(functions[fn])
  <2>4. Total(Lengths(v)) = Total(Lengths(w)) + Len(cs)
    <3> HIDE DEF cs, w
    <3>1. QED
      BY <1>3, <1>5, <1>6, TotalAppend
  <2>5. cs = gs
    BY <1>4
  <2> HIDE DEF cs, w, e, gs
  <2>6. /\ Len(v) = Len(w) + 1 /\ v[Len(w) + 1] = e /\ \A i \in 1 .. Len(w) : v[i] = w[i]
        /\ DOMAIN v = 1 .. Len(w) + 1
    BY <1>6, <2>3, AppendProperties, LenProperties
  <2> HIDE DEF v
  <2>7. (fn + 1) - 1 = fn /\ Len(v) <= fn
    BY <1>3, <1>6, <1>7, <2>6
  <2>8. ASSUME Len(v) = fn
        PROVE  /\ \A i \in DOMAIN v : v[i].counters = GetCounters(functions[i])
               /\ gcda'.counters = Total(Lengths(v))
    <3>1. Len(w) = fn - 1 /\ Len(w) + 1 = fn
      BY <1>3, <1>6, <2>6, <2>8
    <3>2. ASSUME NEW i \in DOMAIN v PROVE v[i].counters = GetCounters(functions[i])
      <4>1. CASE i = fn
        BY <2>3, <2>5, <2>6, <3>1, <4>1 DEF gs
      <4>2. CASE i # fn
        <5>1. i \in 1 .. Len(w) /\ i \in DOMAIN w
          BY <1>6, <2>6, <3>1, <4>2
        <5>2. QED
          BY <1>7, <2>6, <3>1, <5>1
      <4>3. QED
        BY <4>1, <4>2
    <3>3. gcda.counters = Total(Lengths(w))
      BY <1>7, <3>1
    <3>4. QED
      BY <2>2, <2>4, <3>2, <3>3
  <2>9. gcda'.written = v
    BY <2>2 DEF v
  <2>10. WrittenState(fn + 1, gcda', functions)
    BY <2>7, <2>8, <2>9 DEF WrittenState
  <2>11. QED
    BY <1>1, <2>10
<1>10. QED
  BY <1>8, <1>9

\* Every action keeps what is known of the data file.
LEMMA GcdaNext == ASSUME TypesInv, GcdaInv, [Next]_vars PROVE GcdaInv'
<1>1. /\ DOMAIN functions = 1 .. Len(functions) /\ Len(functions) \in Nat
      /\ fn \in 1 .. Len(functions) + 1
  BY ListFacts
<1>2. CASE UNCHANGED vars
  BY <1>2 DEF vars, GcdaInv
<1>3. CASE Unreadable \/ OpenFails
  <2>1. pc' = "failed"
    BY <1>3 DEF Unreadable, OpenFails
  <2>2. QED
    BY <2>1 DEF GcdaInv
<1>4. CASE \/ ReadFrame \/ EndReading \/ StartFunction \/ BranchFails \/ ProcessBranch
           \/ PassBranch \/ BranchesDone \/ PropagateBlock \/ PropagateLast
  <2>1. /\ pc \in {"read", "function", "branches", "simple"}
        /\ pc' \in {"read", "function", "branches", "simple"} /\ gcda' = gcda
    BY <1>4 DEF ReadFrame, EndReading, StartFunction, BranchFails, ProcessBranch, PassBranch,
                BranchesDone, PropagateBlock, PropagateLast, NextFunction
  <2>2. QED
    BY <2>1 DEF GcdaInv
<1>5. CASE OpenGcda
  <2>1. /\ pc = "function" /\ pc' = "write" /\ fn' = 1 /\ gcda' = gcda
    BY <1>5 DEF OpenGcda
  <2>2. gcda = NoData
    BY <2>1 DEF GcdaInv
  <2>3. gcda.written = << >> /\ gcda.counters = 0
    BY <2>2 DEF NoData
  <2>4. Len(gcda.written) = 0 /\ DOMAIN gcda.written = {} /\ 1 - 1 = 0
    BY <2>3
  <2>5. gcda.counters = Total(Lengths(gcda.written))
    BY <2>3, TotalNone
  <2>6. WrittenState(1, gcda, functions')
    BY <2>4, <2>5 DEF WrittenState
  <2>7. QED
    BY <2>1, <2>6 DEF GcdaInv
<1>6. CASE WriteFunction \/ LoseFunction
  <2>1. pc = "write" /\ pc' = pc
    BY <1>6 DEF WriteFunction, LoseFunction
  <2>2. WrittenState(fn', gcda', functions')
    BY <1>6, GcdaWrite
  <2>3. QED
    BY <2>1, <2>2 DEF GcdaInv
<1>7. CASE WriteSummary
  <2>1. /\ pc = "write" /\ pc' = "written" /\ fn > Len(functions) /\ fn' = fn
        /\ functions' = functions /\ gcda' = gcda
    BY <1>7 DEF WriteSummary, memory
  <2>2. fn = Len(functions) + 1
    BY <1>1, <2>1
  <2>3. WrittenState(fn, gcda, functions)
    BY <2>1 DEF GcdaInv
  <2>4. WrittenState(fn', gcda', functions')
    BY <2>1, <2>3
  <2>5. fn' = Len(functions') + 1
    BY <2>1, <2>2
  <2>6. QED
    BY <2>1, <2>4, <2>5 DEF GcdaInv
<1>8. QED
  BY <1>2, <1>3, <1>4, <1>5, <1>6, <1>7 DEF Next

\* So all three parts hold always.
LEMMA GcdaSpec == Spec => [](TypesInv /\ CountInv /\ GcdaInv)
<1>1. Init => TypesInv /\ GcdaInv
  BY TypesInit, GcdaInit
<1>2. TypesInv /\ GcdaInv /\ [Next]_vars => TypesInv' /\ GcdaInv'
  BY TypesNext, GcdaNext
<1>3. QED
  BY <1>1, <1>2, CountSpec, PTL DEF Spec

\* When all notes were read there is a function for each of them.
LEMMA AllThere ==
  ASSUME TypesInv, AllRead
  PROVE  Len(functions) = Len(in.functions)
<1>1. ReadState(frame, functions) /\ frame \in FrameSet /\ in \in Inputs
  BY ListFacts DEF ReadState
<1>2. Len(in.functions) \in Nat
  BY <1>1, GraphOf
<1>3. frame.of \in 1 .. Len(in.functions) + 1
  BY <1>1 DEF FrameSet
<1>4. frame.of = Len(in.functions) + 1 /\ ~ (frame.of <= Len(in.functions))
  BY <1>2, <1>3 DEF AllRead
<1>5. Len(functions) = IF frame.kind = "function" THEN frame.of - 1 ELSE frame.of
  BY <1>1 DEF ReadState
<1>6. frame.kind = "function"
  BY <1>1, <1>4 DEF ReadState
<1>7. QED
  BY <1>2, <1>4, <1>5, <1>6

\* The arcs that are written are those off the tree.
LEMMA OffTreeArcs ==
  ASSUME NEW d, Graph(d), NEW f \in FunctionSet, PartOf(f, d), Whole(f, d)
  PROVE  {k \in DOMAIN d.arcs : "tree" \notin d.arcs[k].flags} = OffArcs(f)
<1>1. DOMAIN f.arcs = 1 .. Len(f.arcs) /\ DOMAIN d.arcs = 1 .. Len(d.arcs)
  BY FunctionTypes, GraphTypes
<1>2. DOMAIN f.arcs = DOMAIN d.arcs
  BY <1>1 DEF Whole
<1>3. \A k \in DOMAIN f.arcs : f.arcs[k].flags = d.arcs[k].flags
  BY DEF PartOf
<1>4. ASSUME NEW k \in DOMAIN d.arcs
      PROVE  "tree" \notin d.arcs[k].flags <=> OffTree(f.arcs[k])
  <2>1. d.arcs[k] \in ArcType
    BY GraphTypes
  <2>2. d.arcs[k].flags \in {{}, {"fake"}, {"fall"}, {"tree"}, {"tree", "fake"}, {"tree", "fall"}}
    BY <2>1 DEF ArcType
  <2>3. "tree" \notin d.arcs[k].flags <=> d.arcs[k].flags \in {{}, {"fake"}, {"fall"}}
    BY <2>2
  <2>4. QED
    BY <1>2, <1>3, <2>3 DEF OffTree
<1>5. QED
  BY <1>2, <1>4 DEF OffArcs

(***************************************************************************)
(* A complete data file: for every regular function it holds one counter   *)
(* for each arc off the spanning tree, at the place gcov will look for it, *)
(* with the number of times that arc was followed; and the number of       *)
(* counters in its summary is right.                                       *)
(***************************************************************************)
THEOREM GcdaCorrect == Spec => []GcdaExact
<1>1. ASSUME TypesInv, CountInv, GcdaInv PROVE GcdaExact
  <2>1. SUFFICES ASSUME pc = "written", AllRead, Len(gcda.written) = Len(functions)
                 PROVE  /\ gcda.counters = Total(Lengths(gcda.written))
                        /\ \A i \in DOMAIN in.functions :
                             LET d   == in.functions[i]
                                 off == {k \in DOMAIN d.arcs : "tree" \notin d.arcs[k].flags}
                             IN  d.mapped /\ Regular(d) =>
                                   /\ Len(gcda.written[i].counters) = Cardinality(off)
                                   /\ \A k \in off :
                                        gcda.written[i].counters[Place(off, k)] = d.followed[k]
    BY DEF GcdaExact, Lengths, Place, UpTo
  <2>2. /\ DOMAIN functions = 1 .. Len(functions) /\ Len(functions) \in Nat
        /\ gcda \in GcdaSet /\ in \in Inputs
    BY <1>1, ListFacts
  <2>3. fn - 1 = Len(functions)
    BY <1>1, <2>1, <2>2 DEF GcdaInv
  <2>4. /\ \A i \in DOMAIN gcda.written : gcda.written[i].counters = GetCounters(functions[i])
        /\ gcda.counters = Total(Lengths(gcda.written))
    BY <1>1, <2>1, <2>3 DEF GcdaInv, WrittenState
  <2>5. DOMAIN gcda.written = DOMAIN functions
    <3> DEFINE w == gcda.written
    <3>1. w \in Seq([of : Nat, counters : Seq(Nat)])
      BY <2>2 DEF GcdaSet
    <3> HIDE DEF w
    <3>2. DOMAIN w = 1 .. Len(w)
      BY <3>1, LenProperties
    <3>3. QED
      BY <2>1, <2>2, <3>2 DEF w
  <2>6. DOMAIN in.functions = DOMAIN functions
    BY <1>1, <2>1, <2>2, AllThere, GraphOf
  <2>7. ASSUME NEW i \in DOMAIN in.functions, in.functions[i].mapped, Regular(in.functions[i])
        PROVE  LET d   == in.functions[i]
                   off == {k \in DOMAIN d.arcs : "tree" \notin d.arcs[k].flags}
               IN  /\ Len(gcda.written[i].counters) = Cardinality(off)
                   /\ \A k \in off : gcda.written[i].counters[Place(off, k)] = d.followed[k]
    <3> DEFINE d   == in.functions[i]
               f   == functions[i]
               cs  == gcda.written[i].counters
               off == {k \in DOMAIN d.arcs : "tree" \notin d.arcs[k].flags}
    <3>1. i \in DOMAIN functions
      BY <2>6
    <3>2. Graph(d) /\ f \in FunctionSet /\ PartOf(f, d)
      BY <1>1, <3>1, ListFacts
    <3>3. Whole(f, d)
      BY <1>1, <2>1, <3>1, AllWhole
    <3>4. Finished(f, d)
      BY <1>1, <2>1, <3>1 DEF CountInv, CountState
    <3>5. cs = GetCounters(f)
      BY <2>4, <2>5, <3>1
    <3>6. d.mapped /\ Regular(d)
      BY <2>7
    <3> HIDE DEF d, f, cs
    <3>7. Exact(f, d)
      BY <3>3, <3>4, <3>6 DEF Finished
    <3>8. off = OffArcs(f)
      BY <3>2, <3>3, OffTreeArcs
    <3> HIDE DEF off
    <3>9. /\ Len(cs) = Cardinality(off) /\ off \subseteq DOMAIN f.arcs
          /\ \A k \in off : cs[Place(off, k)] = f.arcs[k].counter
      BY <3>2, <3>5, <3>8, CountersFacts
    <3>10. \A k \in off : cs[Place(off, k)] = d.followed[k]
      BY <3>7, <3>9 DEF Exact
    <3>11. QED
      BY <3>9, <3>10 DEF off, cs, d
  <2>8. QED
    BY <2>4, <2>7
<1>2. QED
  BY <1>1, GcdaSpec, PTL
=============================================================================
