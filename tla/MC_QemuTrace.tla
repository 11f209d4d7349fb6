---------------------------- MODULE MC_QemuTrace ----------------------------
(***************************************************************************)
(* Logs for QemuTrace: up to three blocks of a program of four             *)
(* instructions, each log cut off behind any of its lines.                 *)
(***************************************************************************)
EXTENDS QemuTrace

CONSTANT MaxBlocks

Line(kind)    == [kind |-> kind, address |-> 0, branch |-> FALSE]
At(a)         == [kind |-> "insn", address |-> a, branch |-> a \in {6, 12}]
CutAt(a)      == [kind |-> "bare", address |-> a, branch |-> FALSE]

\* Offsets of 2 and 3 bytes, a gap before the last; text around them.
TheDump == << [insn |-> FALSE, offset |-> 0], [insn |-> TRUE, offset |-> 3],
              [insn |-> TRUE, offset |-> 5],  [insn |-> FALSE, offset |-> 0],
              [insn |-> TRUE, offset |-> 8],  [insn |-> TRUE, offset |-> 11] >>

\* 6 and 12 are branches; 20 is code the disassembly does not have.
Runs == { << 4 >>, << 4, 6 >>, << 6 >>, << 9 >>, << 9, 12 >>, << 12 >>, << 20 >> }
Block(r) == << Line("in") >> \o [i \in DOMAIN r |-> At(r[i])] \o << Line("other"), Line("rule") >>

Concat(f, n) ==   \* the blocks f[1], ..., f[n]
  LET text[i \in 0 .. n] == IF i = 0 THEN << >> ELSE text[i - 1] \o Block(f[i])
  IN  text[n]
WholeLogs ==
  UNION {{<< Line("other"), Line("rule") >> \o Concat(f, n) : f \in [1 .. n -> Runs]} :
         n \in 0 .. MaxBlocks}
Cut(l)     == {SubSeq(l, 1, n) : n \in 1 .. Len(l)}
\* The last line may be cut within its address, which then is another one.
CutInLine(l) ==
  IF Parsed(l[Len(l)])
  THEN {[l EXCEPT ![Len(l)] = CutAt(a)] : a \in {0, l[Len(l)].address}}
  ELSE {}
CutLogs    == UNION {Cut(l) : l \in WholeLogs}
AllLogs    == CutLogs \cup UNION {CutInLine(l) : l \in CutLogs}

ASSUME FaithfulAssumption == \A l \in Logs : Faithful(l)
=============================================================================
