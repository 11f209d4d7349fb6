----------------------------- MODULE MC_Reports -----------------------------
(***************************************************************************)
(* Inputs for Reports: three symbols of which one is in no executable, the *)
(* executed bytes and the ways the branches went varied, an object file    *)
(* loaded at 16 next to one loaded at 0, two places of the same source     *)
(* line, an instruction addr2line does not know, source text between       *)
(* unexecuted instructions, branches side by side with the same verdict;   *)
(* explanations missing, fitting, unused, given twice or cut off.          *)
(***************************************************************************)
EXTENDS Reports

Insn(offset, source) == [insn |-> TRUE, offset |-> offset, source |-> source]
Text == [insn |-> FALSE, offset |-> 0, source |-> "unset"]
Went(taken, notTaken) == [taken |-> taken, notTaken |-> notTaken]

Sources == {"a.c:1", "a.c:2", "b.c:7", "??:0"}
Files == [l \in Sources |-> IF l = "b.c:7" THEN "b.c" ELSE IF l = "??:0" THEN "??" ELSE "a.c"]

\* Four instructions, the second and the third of them branches.
Head4(exec, second, third) ==
  [name |-> "f", base |-> 20, size |-> 6, load |-> 16,
   lines |-> << Text, Insn(0, "a.c:1"), Insn(2, "a.c:1"), Insn(3, "a.c:2"), Text,
                Insn(4, "??:0") >>,
   start |-> {0, 2, 3, 4}, exec |-> exec, went |-> (2 :> second) @@ (3 :> third)]
Gone == [name |-> "gone", base |-> 0, size |-> 0, load |-> 0, lines |-> << >>,
         start |-> {}, exec |-> {}, went |-> << >>]
\* Two instructions, the first of them at the very start of its object file.
Tail2(exec, first) ==
  [name |-> "z", base |-> 0, size |-> 3, load |-> 0,
   lines |-> << Text, Insn(0, "b.c:7"), Insn(1, "a.c:1") >>,
   start |-> {0, 1}, exec |-> exec, went |-> (0 :> first)]

None == Went(0, 0)
Programs ==
  { << Head4({}, None, None), Gone, Tail2({}, None) >>,
    << Head4({0, 1}, None, None), Gone, Tail2({0}, Went(2, 0)) >>,
    << Head4(0 .. 3, Went(1, 0), Went(3, 0)), Tail2({0}, Went(0, 1)) >>,
    << Head4(0 .. 5, Went(1, 2), Went(0, 3)), Gone, Tail2({1, 2}, None) >>,
    << Head4({0, 1, 3, 4, 5}, None, Went(0, 2)), Gone, Tail2(0 .. 2, Went(1, 1)) >>,
    << Head4(0 .. 5, Went(1, 0), Went(0, 1)), Tail2(0 .. 2, Went(5, 5)) >>,
    << Gone, Tail2(0 .. 2, Went(2, 1)) >> }

Why(l) == << l, "class", "because", "+++" >>
Writings ==
  { Why("a.c:1"), << "" >> \o Why("a.c:2") \o << "" >> \o Why("??:0"),
    Why("a.c:1") \o Why("b.c:7") \o Why("unused.c:3"),
    Why("a.c:1") \o Why("a.c:1"), << "a.c:1", "class", "because" >> }

MCInputs ==
  {[symbols |-> p, explanations |-> w, asked |-> TRUE, branchInfo |-> b] :
     p \in Programs, w \in Writings, b \in BOOLEAN} \cup
  {[symbols |-> p, explanations |-> << >>, asked |-> FALSE, branchInfo |-> b] :
     p \in Programs, b \in BOOLEAN}
=============================================================================
