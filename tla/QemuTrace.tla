----------------------------- MODULE QemuTrace -----------------------------
(***************************************************************************)
(* The program TraceConverter: it reads the log of a QEMU run, whose       *)
(* blocks list the instructions executed, looks up in the disassembly      *)
(* where each block ends, infers from the block that follows whether a     *)
(* branch was taken, and writes the trace file that covoar reads.  The     *)
(* emulator is usually killed, so a log may end anywhere.  Operators named *)
(* Slip... are wrong variants of the definition that follows them; no      *)
(* specification uses them.                                                *)
(***************************************************************************)
EXTENDS Integers, Sequences, FiniteSetsExt

CONSTANTS
  Logs,     (* the logs to consider                                         *)
  Dump,     (* the lines of the disassembly                                 *)
  Load,     (* load address of the dynamic library, 0 without one           *)
  HalfWord  (* 2^16: lengths in the trace are 16 bits wide                  *)

\* A line of the log: a separator, the start of a block, an instruction, an
\* instruction cut off behind its address, or anything else.
LineType == [kind : {"rule", "in", "insn", "bare", "other"},
             address : Nat, branch : BOOLEAN]
\* A line of the disassembly: an instruction at an offset, or anything else.
DumpType == [insn : BOOLEAN, offset : Nat]

ASSUME ConstantsAssumption ==
  /\ Logs \subseteq Seq(LineType)
  /\ Dump \in Seq(DumpType)
  /\ Load \in Nat /\ HalfWord \in Nat \ {0}

VARIABLES
  log,           (* the log file                                            *)
  pc,            (* where the program is                                    *)
  pos,           (* lines of the log read                                   *)
  inputBuffer,   (* the line last read by fgets; a failing one leaves it    *)
  first, last,   (* first and last instruction of the block being read      *)
  nextExecuted,  (* first instruction of the block after it                 *)
  trace,         (* TraceList::set                                          *)
  file           (* the trace file: its entries, and whether it is an old one *)

vars == << log, pc, pos, inputBuffer, first, last, nextExecuted, trace, file >>

\* An instruction is its address and whether IsBranch knows its name.
Instruction   == [address : Nat, branch : BOOLEAN]
NoInstruction == [address |-> 0, branch |-> FALSE]
Reason        == {"taken", "notTaken", "other"}
Range16       == [lowAddress : Nat, length : 0 .. HalfWord - 1, exitReason : Reason]
Entry         == [pc : Nat, size : 0 .. HalfWord - 1, op : SUBSET {"taken", "notTaken"}]
-----------------------------------------------------------------------------
(***************************************************************************)
(* The disassembly: objdumpList has an entry for every line with an        *)
(* instruction, in the order of the lines.                                 *)
(***************************************************************************)
objdumpList  == {i \in DOMAIN Dump : Dump[i].insn}
AddressOf(i) == Load + Dump[i].offset
Addresses    == {AddressOf(i) : i \in objdumpList}

SlipGetAddressAfter(a) ==   \* upper_bound: a itself need not be there
  LET above == {i \in objdumpList : AddressOf(i) > a}
  IN  IF above = {} THEN 0 ELSE AddressOf(Min(above))
\* The instruction behind the one at a, or 0.
GetAddressAfter(a) ==
  LET found  == {i \in objdumpList : AddressOf(i) = a}
      behind == {i \in objdumpList : i > Min(found)}
  IN  IF found = {} \/ behind = {} THEN 0 ELSE AddressOf(Min(behind))

(***************************************************************************)
(* What the input promises.  The disassembly goes upwards and has nothing  *)
(* at 0, which stands for "not found".  The emulator logs straight-line    *)
(* code: behind "IN: " comes an instruction, and behind an instruction the *)
(* next one of the disassembly, or one, cut off or foreign, that is not in *)
(* it.                                                                     *)
(***************************************************************************)
Ascending ==
  /\ \A i, j \in objdumpList : i < j => AddressOf(i) < AddressOf(j)
  /\ 0 \notin Addresses
Follows(a, b) == a < b /\ \A c \in Addresses : c <= a \/ b <= c
Parsed(line) == line.kind = "insn"
Shown(line)  == line.kind \in {"insn", "bare"}
StraightLine(l) ==
  \A k \in 1 .. Len(l) - 1 :
    /\ l[k].kind = "in" => Shown(l[k + 1])
    /\ Shown(l[k]) /\ l[k + 1].address \in Addresses /\ Shown(l[k + 1]) =>
         l[k].address \in Addresses /\ Follows(l[k].address, l[k + 1].address)
\* Only the last line is cut off, and text stands between two blocks.
Lines(l) ==
  \A k \in 1 .. Len(l) - 1 : l[k].kind # "bare" /\ (Parsed(l[k]) => l[k + 1].kind # "in")
\* The length of a block fits the 16 bits it has in the file.
Short(l) ==
  \A i, j \in DOMAIN l : \A b \in Addresses :
    i <= j /\ (\A k \in i .. j : Parsed(l[k])) /\ Follows(l[j].address, b) =>
      b - l[i].address < HalfWord
Faithful(l) == Ascending /\ StraightLine(l) /\ Lines(l) /\ Short(l)
-----------------------------------------------------------------------------
(***************************************************************************)
(* Reading the log.                                                        *)
(***************************************************************************)
AtEnd    == pos = Len(log)
NextLine == IF AtEnd THEN inputBuffer ELSE log[pos + 1]

SlipFgets == inputBuffer' = NextLine /\ pos' = pos + 1   \* the end is not noticed
Fgets     == inputBuffer' = NextLine /\ pos' = IF AtEnd THEN pos ELSE pos + 1

\* What sscanf leaves in b: the address is stored before the instruction.
Scanned(line, b) ==
  CASE line.kind = "insn" -> [address |-> line.address, branch |-> line.branch]
    [] line.kind = "bare" -> [b EXCEPT !.address = line.address]
    [] OTHER              -> b

Ahead(kind) == {i \in pos + 1 .. Len(log) : log[i].kind = kind}
ReadUntilFound(kind) == pos' = IF Ahead(kind) = {} THEN Len(log) ELSE Min(Ahead(kind))

\* The disassembly was read through the same buffer; its lines do not parse.
Init ==
  /\ log \in Logs
  /\ pc = "header" /\ pos = 0
  /\ inputBuffer = [kind |-> "other", address |-> 0, branch |-> FALSE]
  /\ first = NoInstruction /\ last = NoInstruction /\ nextExecuted = NoInstruction
  /\ trace = << >> /\ file = [stale |-> TRUE, entries |-> << >>]

SkipHeader ==
  /\ pc = "header"
  /\ ReadUntilFound("rule")
  /\ pc' = IF Ahead("rule") = {} THEN "open" ELSE "find"
  /\ UNCHANGED << log, inputBuffer, first, last, nextExecuted, trace, file >>

FindFirst ==
  /\ pc = "find"
  /\ ReadUntilFound("in")
  /\ pc' = IF Ahead("in") = {} THEN "open" ELSE "first"
  /\ UNCHANGED << log, inputBuffer, first, last, nextExecuted, trace, file >>

ReadFirst ==
  /\ pc = "first"
  /\ Fgets
  /\ first' = Scanned(NextLine, first) /\ last' = first'
  /\ pc' = IF Parsed(NextLine) THEN "block" ELSE "open"
  /\ UNCHANGED << log, nextExecuted, trace, file >>

SlipReadInstruction ==   \* the instruction is not kept
  /\ pc = "block"
  /\ Fgets
  /\ pc' = IF Parsed(NextLine) THEN "block" ELSE "end"
  /\ UNCHANGED << log, first, last, nextExecuted, trace, file >>
SlipReadItems ==   \* result > 0 instead of result > 1
  /\ pc = "block"
  /\ Fgets
  /\ last' = Scanned(NextLine, last)
  /\ pc' = IF NextLine.kind \in {"insn", "bare"} THEN "block" ELSE "end"
  /\ UNCHANGED << log, first, nextExecuted, trace, file >>
ReadInstruction ==
  /\ pc = "block"
  /\ Fgets
  /\ last' = Scanned(NextLine, last)
  /\ pc' = IF Parsed(NextLine) THEN "block" ELSE "end"
  /\ UNCHANGED << log, first, nextExecuted, trace, file >>

\* TraceList::add: the length is cut to 16 bits.
Add(low, high, why) ==
  Append(trace, [lowAddress |-> low, length |-> (high - low) % HalfWord,
                 exitReason |-> why])

SlipExitReason(next, logical) ==   \* judged by the block itself
  IF ~ last.branch THEN "other"
  ELSE IF first.address = logical THEN "notTaken" ELSE "taken"
ExitReason(next, logical) ==
  IF ~ last.branch THEN "other"
  ELSE IF next.address = logical THEN "notTaken" ELSE "taken"

\* The first line of the block at the next "IN: ", if there is one.
LookAhead(i) == IF i < Len(log) THEN log[i + 1] ELSE inputBuffer

\* The rest of the loop's body once a line did not parse, up to last = first
\* of the next turn.  A line that cannot be read as the first of a block
\* leaves nextExecuted as it was, and the loop goes on.
EndBlock ==
  /\ pc = "end"
  /\ LET ended   == Ahead("in") = {}
         in      == Min(Ahead("in"))
         logical == GetAddressAfter(last.address)
     IN  /\ inputBuffer' = IF ended THEN inputBuffer ELSE LookAhead(in)
         /\ pos' = IF ended \/ in = Len(log) THEN Len(log) ELSE in + 1
         /\ nextExecuted' = IF ended THEN last ELSE Scanned(LookAhead(in), nextExecuted)
         /\ trace' = IF logical = 0 THEN trace
                     ELSE Add(first.address, logical, ExitReason(nextExecuted', logical))
         /\ first' = nextExecuted' /\ last' = nextExecuted'
         /\ pc' = IF ended THEN "open" ELSE "block"
  /\ UNCHANGED << log, file >>
-----------------------------------------------------------------------------
(***************************************************************************)
(* Writing the trace file.  main does not look at what processFile and     *)
(* writeFile return.  Any call to the file system may fail; a full disk    *)
(* that shows at fclose only is as if the write had failed.                *)
(***************************************************************************)
reader == << log, pos, inputBuffer, first, last, nextExecuted, trace >>

\* An empty list, and a file that cannot be opened, leave the old file.
NoFile ==
  /\ pc = "open"
  /\ pc' = "failed"
  /\ UNCHANGED << reader, file >>

OpenFile ==
  /\ pc = "open" /\ trace # << >>
  /\ file' = [stale |-> FALSE, entries |-> << >>]
  /\ pc' = "write"
  /\ UNCHANGED reader

EntryOf(t) == [pc |-> t.lowAddress, size |-> t.length, op |-> {t.exitReason} \ {"other"}]

WriteEntry ==
  /\ pc = "write" /\ Len(file.entries) < Len(trace)
  /\ file' = [file EXCEPT !.entries = Append(@, EntryOf(trace[Len(@) + 1]))]
  /\ UNCHANGED << reader, pc >>

WriteFails ==   \* the header or an entry
  /\ pc = "write"
  /\ pc' = "failed"
  /\ UNCHANGED << reader, file >>

CloseFile ==
  /\ pc = "write" /\ Len(file.entries) = Len(trace)
  /\ pc' = "written"
  /\ UNCHANGED << reader, file >>

Next ==
  \/ SkipHeader \/ FindFirst \/ ReadFirst \/ ReadInstruction \/ EndBlock
  \/ NoFile \/ OpenFile \/ WriteEntry \/ WriteFails \/ CloseFile

Spec     == Init /\ [][Next]_vars
FairSpec == Spec /\ WF_vars(Next)
-----------------------------------------------------------------------------
(***************************************************************************)
(* What the log says, found by looking at the whole of it at once.         *)
(***************************************************************************)
\* The blocks, by the line that starts them; the last line of a block.
Blocks  == {i \in 1 .. Len(log) - 1 : /\ log[i].kind = "in" /\ Parsed(log[i + 1])
                                      /\ \E j \in 1 .. i : log[j].kind = "rule"}
LastOf(i) == Max({k \in i + 1 .. Len(log) : \A j \in i + 1 .. k : Parsed(log[j])})
After(i)  == GetAddressAfter(log[LastOf(i)].address)
\* "If the nextlogical was not found we are throwing away the block"
Known   == {i \in Blocks : After(i) # 0}
Later(i) == {j \in Blocks : j > i}
\* The branches that went in a direction, and are followed by a block.
Went(direction) ==
  {log[LastOf(i)].address : i \in
     {k \in Known : /\ log[LastOf(k)].branch /\ Later(k) # {}
                    /\ (direction = "notTaken") <=> (log[Min(Later(k)) + 1].address = After(k))}}
Logged == {log[k].address : k \in {j \in DOMAIN log : Shown(log[j])}}
Whole  == Len(log) > 0 /\ log[Len(log)].kind \in {"rule", "other"}

\* What covoar finds in the file: the instructions an entry covers, and the
\* one its last byte belongs to.
Covers(e)    == {a \in Addresses : e.pc <= a /\ a < e.pc + e.size}
BranchOf(e)  == Max({a \in Addresses : a < e.pc + e.size})
Seen         == UNION {Covers(file.entries[k]) : k \in DOMAIN file.entries}
Told(direction) ==
  {BranchOf(e) : e \in {file.entries[k] : k \in {j \in DOMAIN file.entries :
                                                  direction \in file.entries[j].op}}}

TypeOK ==
  /\ log \in Seq(LineType)
  /\ pc \in {"header", "find", "first", "block", "end", "open", "write", "written", "failed"}
  /\ pos \in 0 .. Len(log)
  /\ inputBuffer \in LineType
  /\ {first, last, nextExecuted} \subseteq Instruction
  /\ trace \in Seq(Range16)
  /\ file \in [stale : BOOLEAN, entries : Seq(Entry)]

(* Of a log that was written to its end, covoar sees the instructions of   *)
(* all blocks the disassembly knows the end of, and no others: the ends    *)
(* found by getAddressAfter, the look-ahead by one block and the file's    *)
(* lengths fit together.                                                   *)
CoverageExact ==
  pc = "written" /\ Whole =>
    Seen = UNION {{log[k].address : k \in i + 1 .. LastOf(i)} : i \in Known}

(* Each direction the log shows a branch to take is in the file, at an     *)
(* entry whose last byte covoar attributes to that branch; what else the   *)
(* file tells is that the branch that ends the log was taken.              *)
DirectionsExact ==
  pc = "written" /\ Whole =>
    /\ Told("notTaken") = Went("notTaken")
    /\ Went("taken") \subseteq Told("taken")
    /\ \A a \in Told("taken") \ Went("taken") : a = log[LastOf(Max(Blocks))].address

(* Wherever the log is cut off and wherever writing stops, a reader of the *)
(* file sees no instruction that is not in the log.                        *)
NothingInvented == ~ file.stale => Seen \subseteq Logged

\* The log ends in the middle of a block, behind a whole instruction.
EndsInBlock == Len(log) > 0 /\ Parsed(log[Len(log)])

(* The converter comes to an end on every log that does not end with an    *)
(* instruction, cut off as it may be.                                      *)
ConversionEnds == EndsInBlock \/ <>(pc \in {"written", "failed"})

(* "Read until we get to the last instruction in the block": the loop over *)
(* the instructions of a block comes to an end.                            *)
BlockEnds == pc = "block" ~> pc # "block"
=============================================================================
