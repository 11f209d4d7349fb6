------------------------------ MODULE MC_Gcov ------------------------------
(***************************************************************************)
(* Notes files for Gcov: eight flow graphs, each executed along up to      *)
(* MaxCalls of its paths, alone or in pairs.                               *)
(***************************************************************************)
EXTENDS Gcov

CONSTANTS MaxCalls, MaxSteps   (* calls of a function, arcs of a path       *)

Arc(s, d, flags) == [source |-> s, destination |-> d, flags |-> flags]
T  == {"tree"}
F  == {"fall"}
TF == {"tree", "fall"}
X  == {"fake"}

Straight  == << Arc(0, 1, T), Arc(1, 2, {}) >>
IfThen    == << Arc(0, 1, T), Arc(1, 2, TF), Arc(1, 3, {}), Arc(2, 3, TF), Arc(3, 4, T) >>
DoLoop    == << Arc(0, 1, TF), Arc(1, 1, {}), Arc(1, 2, F), Arc(2, 3, T) >>
WhileLoop == << Arc(0, 1, TF), Arc(1, 3, T), Arc(1, 2, F), Arc(2, 1, {}), Arc(3, 4, T) >>
Calls     == << Arc(0, 1, T), Arc(1, 2, F), Arc(1, 4, X), Arc(2, 3, TF), Arc(3, 4, T) >>
Aborts    == << Arc(0, 1, T), Arc(1, 2, {}), Arc(1, 3, TF), Arc(2, 4, T), Arc(3, 4, X) >>
\* A loop whose head calls a function; one whose last block branches.
CallLoop  == << Arc(0, 1, TF), Arc(1, 2, F), Arc(1, 5, X), Arc(2, 3, TF), Arc(2, 4, {}),
                Arc(3, 1, {}), Arc(4, 5, T) >>
LastForks == << Arc(0, 1, TF), Arc(1, 3, T), Arc(1, 2, F), Arc(2, 1, {}), Arc(2, 3, F) >>
Graphs    == {Straight, IfThen, DoLoop, WhileLoop, Calls, Aborts, CallLoop, LastForks}

Exit(g) == Max({g[k].destination : k \in DOMAIN g})
\* The paths from the entry to the exit, as sequences of arcs; an arc beside
\* a FAKE one is the one followed.
Steps(g, b) == {k \in DOMAIN g : /\ g[k].source = b
                                 /\ (k > 1 /\ g[k - 1].source = b) => ~ IsFake(g[k])}
PathsOf(g) ==
  LET From[n \in 0 .. MaxSteps] ==
        IF n = 0 THEN {<< << >>, 0 >>}
        ELSE UNION {{<< Append(p[1], k), g[k].destination >> : k \in Steps(g, p[2])} :
                    p \in From[n - 1]}
  IN  {p[1] : p \in {q \in UNION {From[n] : n \in 1 .. MaxSteps} : q[2] = Exit(g)}}
Followed(g, calls) ==
  [k \in DOMAIN g |-> MapThenSumSet(LAMBDA c : Cardinality({j \in DOMAIN calls[c] : calls[c][j] = k}),
                                    DOMAIN calls)]
Executions(g) ==
  LET paths == PathsOf(g)
  IN  {Followed(g, calls) : calls \in UNION {[1 .. n -> paths] : n \in 0 .. MaxCalls}}

Func(g, followed, mapped, merged) ==
  [blocks |-> Exit(g) + 1, arcs |-> g, mapped |-> mapped, followed |-> followed,
   merged |-> merged]
Some(g) == CHOOSE e \in Executions(g) : \A x \in Executions(g) : e[1] >= x[1]

Alone    == {<< Func(g, e, m, 0) >> : <<g, e, m>> \in
               UNION {{g} \X Executions(g) \X BOOLEAN : g \in Graphs}}
Together == {<< Func(g, Some(g), TRUE, 0), Func(h, Some(h), TRUE, 0) >> : g, h \in Graphs}
            \cup {<< Func(IfThen, Some(IfThen), TRUE, 1), Func(h, Some(h), TRUE, 0) >> : h \in Graphs}
AllInputs == {[functions |-> fs] : fs \in Alone \cup Together}
=============================================================================
