---------------------------- MODULE CoverageMap ----------------------------
(***************************************************************************)
(* The coverage map of one symbol (CoverageMapBase) as a record, and its   *)
(* methods as operators.  A map is one array Info of per-byte data that    *)
(* all address ranges of the symbol share: a second copy of a function in  *)
(* the same executable adds a range, never bytes.  Info is kept as one     *)
(* set or function of offsets per field.  A map without ranges stands for  *)
(* "no map yet".                                                           *)
(***************************************************************************)
EXTENDS Integers, Sequences, FiniteSets

CONSTANT Word  (* 2^32: uint32_t arithmetic is modulo Word *)

ASSUME WordAssumption == Word \in Nat \ {0, 1}

Wrap(n)  == n % Word
Zeros(n) == [o \in 0 .. n - 1 |-> 0]

MapOf(ranges, size) ==
  [ranges |-> ranges, size |-> size, start |-> {}, branch |-> {}, nop |-> {},
   exec |-> Zeros(size), taken |-> Zeros(size), notTaken |-> Zeros(size)]

NoMap             == MapOf(<< >>, 0)
Exists(m)         == m.ranges # << >>
NewMap(low, high) == MapOf(<< [low |-> low, high |-> high] >>, Wrap(high - low + 1))

Add(m, low, high) ==
  [m EXCEPT !.ranges = Append(@, [low |-> low, high |-> high])]

\* determineOffset: the first range that holds the address counts.
Holds(r, x) == r.low <= x /\ x <= r.high
InMap(m, x) == \E i \in DOMAIN m.ranges : Holds(m.ranges[i], x)
Offset(m, x) ==
  LET i == CHOOSE j \in DOMAIN m.ranges :
             /\ Holds(m.ranges[j], x)
             /\ \A k \in 1 .. j - 1 : ~Holds(m.ranges[k], x)
  IN  x - m.ranges[i].low

Offsets(m, X) == {Offset(m, x) : x \in {y \in X : InMap(m, y)}}
IsStart(m, x) == InMap(m, x) /\ Offset(m, x) \in m.start

\* The setters ignore addresses outside the map; each takes the set of
\* addresses one loop of a caller runs through.
SetStarts(m, X)   == [m EXCEPT !.start  = @ \cup Offsets(m, X)]
SetBranches(m, X) == [m EXCEPT !.branch = @ \cup Offsets(m, X)]
SetNops(m, X)     == [m EXCEPT !.nop    = @ \cup Offsets(m, X)]

Hits(m, X, o)     == Cardinality({x \in X : InMap(m, x) /\ Offset(m, x) = o})
Raised(m, f, X)   == [o \in DOMAIN f |-> f[o] + Hits(m, X, o)]
SetExecuted(m, X) == [m EXCEPT !.exec     = Raised(m, @, X)]
SetTaken(m, x)    == [m EXCEPT !.taken    = Raised(m, @, {x})]
SetNotTaken(m, x) == [m EXCEPT !.notTaken = Raised(m, @, {x})]

(***************************************************************************)
(* DesiredSymbols::mergeCoverageMap, the loop: byte o of the destination   *)
(* takes what the source holds at its first low address + o, for o below   *)
(* the symbol's sizeInBytes.  Bytes outside the destination are dropped.   *)
(***************************************************************************)
ReadAt(s, f, x) == IF InMap(s, x) THEN f[Offset(s, x)] ELSE 0

SlipMerge(d, s, n) ==
  LET base == s.ranges[1].low
  IN  [d EXCEPT
        !.start = @ \cup {o \in 0 .. n - 1 : InMap(d, o) /\ IsStart(s, base + o)},
        !.exec  = [o \in DOMAIN @ |-> @[o] + IF o < n THEN ReadAt(s, s.exec, o) ELSE 0]]
Merge(d, s, n) ==
  LET base == s.ranges[1].low
      Sum(f, g) == [o \in DOMAIN f |->
                      f[o] + IF o < n THEN ReadAt(s, g, base + o) ELSE 0]
  IN  [d EXCEPT
        !.start    = @ \cup {o \in 0 .. n - 1 : InMap(d, o) /\ IsStart(s, base + o)},
        !.exec     = Sum(@, s.exec),
        !.taken    = Sum(@, s.taken),
        !.notTaken = Sum(@, s.notTaken)]
=============================================================================
