--------------------------- MODULE MC_DoCoverage ---------------------------
(***************************************************************************)
(* Command lines for do_coverage: everything from scratch, with links and  *)
(* both configurations; a new build with copies; a new build whose tests   *)
(* are neither linked again nor run; reports of what is there; an update   *)
(* that forgets to configure; reports into a given directory; and no       *)
(* configuration to report on.                                             *)
(***************************************************************************)
EXTENDS DoCoverage, TLC

MCCommandLines ==
  {{"configure", "build", "copy", "link", "run", "reports", "core", "developmental", "save"},
   {"build", "copy", "run", "reports", "developmental", "publish"},
   {"build", "link", "reports", "core", "save"},
   {"reports", "core", "save"},
   {"update", "build", "reports", "developmental", "save"},
   {"run", "reports", "out", "core", "save"},
   {"reports", "save"}}

Symmetry == Permutations(Tests)
=============================================================================
