--------------------------- MODULE CoverageLedger ---------------------------
(***************************************************************************)
(* What covoar promises about the bytes of the symbols of interest, with   *)
(* no word about disassemblies, maps and addresses: the bytes seen         *)
(* executed in the open coverage file become covered, all of them and no   *)
(* others, when that file is merged, and stay covered.                     *)
(***************************************************************************)
EXTENDS Naturals

VARIABLES
  merged,    (* the number of coverage files merged                     *)
  covered,   (* the bytes these files cover                             *)
  pending    (* the further bytes seen in the file being read           *)

Init == merged = 0 /\ covered = {} /\ pending = {}

See ==
  /\ pending \subseteq pending' /\ pending' \cap covered = {}
  /\ UNCHANGED << merged, covered >>

Commit ==
  /\ merged' = merged + 1
  /\ covered' = covered \cup pending
  /\ pending' = {}

Next == See \/ Commit
Spec == Init /\ [][Next]_<< merged, covered, pending >>
=============================================================================
