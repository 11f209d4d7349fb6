----------------------------- MODULE MC_SimRun -----------------------------
(***************************************************************************)
(* Command lines for SimRun: lists of up to two tests under every setting  *)
(* that matters for them.                                                  *)
(***************************************************************************)
EXTENDS SimRun

Some(tests, coverage, forever, trusted, failsRandomly) ==
  [tests |-> tests, coverage |-> coverage, forever |-> forever,
   trusted |-> trusted, failsRandomly |-> failsRandomly]

AllInputs ==
  {Some(<< "run", "run" >>, c, FALSE, FALSE, f) : c, f \in BOOLEAN} \cup
  {Some(<< "run" >>, FALSE, TRUE, FALSE, FALSE),
   Some(<< "run", "skip" >>, FALSE, FALSE, TRUE, FALSE),
   Some(<< "skip", "refused", "run" >>, FALSE, FALSE, FALSE, FALSE)}
RandomInputs == {Some(<< "run" >>, FALSE, FALSE, FALSE, TRUE)}
=============================================================================
