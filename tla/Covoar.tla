------------------------------- MODULE Covoar -------------------------------
(***************************************************************************)
(* covoar up to its reports: ObjdumpProcessor::load reads the disassembly  *)
(* of every executable line by line and finalizes each desired symbol      *)
(* (symbol table, coverage map of the executable, unified map); then each  *)
(* coverage file is read entry by entry into the maps of its executable    *)
(* and these are merged into the unified maps; then preprocess flags the   *)
(* branches and nops.  UncoveredScan takes over from there.  covoar is     *)
(* sequential: what varies is its input.  Operators named Slip... are      *)
(* wrong variants of the definition that follows them; no specification    *)
(* uses them.                                                              *)
(***************************************************************************)
EXTENDS CoverageMap, Targets, FiniteSetsExt, Functions

CONSTANTS
  Desired,     (* the symbols of interest                                   *)
  NoSymbol,    (* the empty name                                            *)
  Inputs,      (* the command lines to consider: see InputType              *)
  Entries,     (* the entries a coverage file may hold                      *)
  CoverUnit,   (* bytes a TSIM or Skyeye coverage item stands for: 4        *)
  MaxEntries   (* bound on the entries of one coverage file                 *)

(***************************************************************************)
(* A disassembly is a sequence of lines: the label that starts a symbol,   *)
(* an instruction, known by its mnemonic, or other text such as            *)
(* interleaved source.                                                     *)
(***************************************************************************)
Address  == 0 .. Word - 1
LineType ==
  [kind : {"label"}, offset : Address, symbol : STRING] \cup
  [kind : {"insn"}, offset : Address, op : STRING] \cup
  [kind : {"text"}]

InputType == [single : BOOLEAN, format : {"QEMU", "TSIM", "Skyeye", "RTEMS"},
              cpu : Cpus, dumps : Seq(Seq(LineType)), loadAddress : Seq(Address), files : Nat]
EntryType == [pc : Address, size : Nat, op : SUBSET {"block", "taken", "notTaken"}]

\* One coverage file for each executable, or one executable for all of them.
ASSUME InputAssumption ==
  /\ \A in \in Inputs :
       /\ in \in InputType
       /\ in.files > 0 /\ Len(in.dumps) = Len(in.loadAddress)
       /\ Len(in.dumps) = IF in.single THEN 1 ELSE in.files
  /\ Entries \subseteq EntryType
  /\ Desired \subseteq STRING /\ NoSymbol \notin Desired
  /\ CoverUnit \in Nat \ {0} /\ MaxEntries \in Nat

(***************************************************************************)
(* The disassemblies objdump writes of sound executables: the lines come   *)
(* in the order of their addresses, which leave the last byte of the       *)
(* address space alone, with no instruction inside another one or inside   *)
(* what is taken for a nop; there is one label for each address, every     *)
(* symbol of interest has an instruction other than a nop, and no nop ends *)
(* the file.  Nothing in covoar checks this.                               *)
(***************************************************************************)
Placed(l)    == l.kind # "text"
Room(cpu, l) == IF l.kind = "label" THEN 0
                ELSE IF NopSize(cpu, l.op) > 0 THEN NopSize(cpu, l.op) ELSE 1
Real(cpu, l) == l.kind = "insn" /\ NopSize(cpu, l.op) = 0

InPlace(cpu, d, base) ==
  /\ \A k \in DOMAIN d : Placed(d[k]) => base + d[k].offset < Word - 1
  /\ \A j, k \in DOMAIN d : j < k /\ Placed(d[j]) /\ Placed(d[k]) =>
       /\ d[j].offset + Room(cpu, d[j]) <= d[k].offset
       /\ d[k].kind = "label" => d[j].offset < d[k].offset
NotEmpty(cpu, d) ==
  /\ \A k \in DOMAIN d : d[k].kind = "label" /\ d[k].symbol \in Desired =>
       \E j \in k + 1 .. Len(d) : /\ Real(cpu, d[j])
                                 /\ \A i \in k + 1 .. j : d[i].kind # "label"
  /\ \A k \in DOMAIN d : d[k].kind = "insn" /\ ~Real(cpu, d[k]) =>
       \E j \in k + 1 .. Len(d) : Placed(d[j])

WellFormed(i) ==
  \A e \in DOMAIN i.dumps : /\ InPlace(i.cpu, i.dumps[e], i.loadAddress[e])
                           /\ NotEmpty(i.cpu, i.dumps[e])

(***************************************************************************)
(* ... and the label of a symbol of interest stands over the instruction   *)
(* at its address, maybe with other text between them.                     *)
(***************************************************************************)
Headed(i) ==
  \A e \in DOMAIN i.dumps :
    LET d == i.dumps[e]
    IN  \A k \in DOMAIN d : d[k].kind = "label" /\ d[k].symbol \in Desired =>
          \E j \in k + 1 .. Len(d) : d[j].kind = "insn" /\ d[j].offset = d[k].offset

VARIABLES
  in,           (* the command line and the files it names                  *)
  phase,        (* "load", "read", "preprocess", "analyze" or "exited"      *)
  exe, line,    (* load: which executable, which line of its disassembly    *)
  current,      (* load: currentSymbol; empty while not processing one      *)
  low, offset,  (* load: startAddress, and the last offset scanned          *)
  lines,        (* load: theInstructions                                    *)
  contents,     (* SymbolTable.contents of each executable                  *)
  info,         (* SymbolTable.info: the lengths under each symbol          *)
  maps,         (* ExecutableInfo.coverageMaps                              *)
  saved,        (* SymbolInformation: instructions and baseAddress          *)
  sizeInBytes,  (* SymbolInformation.stats.sizeInBytes                      *)
  unified,      (* SymbolInformation.unifiedCoverageMap                     *)
  file, count,  (* read: which coverage file, how many entries of it        *)
  log           (* history: every entry read, with its executable           *)

loading == << exe, line, current, low, offset, lines >>
symbols == << contents, info, maps, saved, sizeInBytes, unified >>
reading == << file, count, log >>
vars    == << in, phase, exe, line, current, low, offset, lines, contents, info,
              maps, saved, sizeInBytes, unified, file, count, log >>

Executables == 1 .. Len(in.dumps)
Init ==
  /\ in \in Inputs
  /\ phase = "load"
  /\ exe = 1 /\ line = 1 /\ current = NoSymbol /\ low = 0 /\ offset = 0 /\ lines = << >>
  /\ contents = [e \in Executables |-> {}]
  /\ info = [e \in Executables |-> [s \in Desired |-> << >>]]
  /\ maps = [e \in Executables |-> [s \in Desired |-> NoMap]]
  /\ saved = [s \in Desired |-> [instructions |-> {}, base |-> 0]]
  /\ sizeInBytes = [s \in Desired |-> 0]
  /\ unified = [s \in Desired |-> NoMap]
  /\ file = 1 /\ count = 0 /\ log = << >>
-----------------------------------------------------------------------------
(***************************************************************************)
(* finalizeSymbol.                                                         *)
(***************************************************************************)
Load(x)   == Wrap(in.loadAddress[exe] + x)
Text      == [kind |-> "text"]
IsInsn(l) == l.kind = "insn"
IsNop(l)  == l.kind = "insn" /\ NopSize(in.cpu, l.op) > 0

\* The lines from the first to the last of the trailing nops: the nops that
\* end the symbol, up to any other line between them.  Empty when the last
\* instruction is no nop.
Trailing(ls) ==
  {i \in DOMAIN ls :
     \E last \in i .. Len(ls) :
       /\ \A j \in last + 1 .. Len(ls) : ~IsInsn(ls[j])
       /\ \A j \in i .. last : IsNop(ls[j])}
Kept(ls)       == {ls[i] : i \in DOMAIN ls \ Trailing(ls)}
NopBytes(ls)   == SumFunction([i \in Trailing(ls) |-> NopSize(in.cpu, ls[i].op)])
SlipStarts(ls) == {l.offset : l \in {k \in Kept(ls) : IsInsn(k) /\ ~IsNop(k)}}
Starts(ls)     == {l.offset : l \in {k \in Kept(ls) : IsInsn(k)}}

\* SymbolTable::addSymbol exits when the executable already holds a copy of
\* the symbol with another length.
SlipSameLength(s, length) == TRUE
SameLength(s, length) ==
  info[exe][s] # << >> => info[exe][s][1] = length

AddSymbol(s, lo, high, length) ==
  /\ contents' = [contents EXCEPT ![exe] = {t \in @ : t.high # high} \cup
                    {[low |-> lo, high |-> high, symbol |-> s]}]
  /\ info' = [info EXCEPT ![exe][s] = Append(@, length)]

\* ExecutableInfo::createCoverageMap, then the starts of the instructions.
CreateExecutableMap(s, lo, high) ==
  maps' = [maps EXCEPT ![exe][s] =
             SetStarts(IF Exists(@) THEN Add(@, lo, high) ELSE NewMap(lo, high),
                       Starts(lines))]

\* DesiredSymbols::createCoverageMap: a longer version found later raises the
\* size but leaves the map.
CreateUnifiedMap(s, length) ==
  IF Exists(unified[s])
    THEN /\ sizeInBytes' = [sizeInBytes EXCEPT ![s] = IF @ < length THEN length ELSE @]
         /\ UNCHANGED unified
    ELSE /\ sizeInBytes' = [sizeInBytes EXCEPT ![s] = length]
         /\ unified' = [unified EXCEPT ![s] = NewMap(0, Wrap(length - 1))]

\* finalizeSymbol( current, low, last, lines ): what is left of the symbol
\* without its trailing nops.  Only the first executable that holds a symbol
\* saves its instructions.
FinalizeSymbol(last, nextPhase) ==
  LET high   == Wrap(last - NopBytes(lines))
      length == Wrap(high - low + 1)
  IN  /\ saved' = IF saved[current].instructions = {}
                    THEN [saved EXCEPT ![current] =
                            [instructions |-> Kept(lines), base |-> low]]
                    ELSE saved
      /\ IF SameLength(current, length)
           THEN /\ AddSymbol(current, low, high, length)
                /\ CreateExecutableMap(current, low, high)
                /\ CreateUnifiedMap(current, length)
                /\ phase' = nextPhase
           ELSE /\ phase' = "exited"
                /\ UNCHANGED << contents, info, maps, unified, sizeInBytes >>

FinalizeCurrent(last, nextPhase) ==
  IF current = NoSymbol THEN phase' = nextPhase /\ UNCHANGED symbols
                  ELSE FinalizeSymbol(last, nextPhase)
-----------------------------------------------------------------------------
(***************************************************************************)
(* ObjdumpProcessor::load, one action per line, and its loop in main.      *)
(***************************************************************************)
Line == in.dumps[exe][line]

LoadLabel ==
  /\ phase = "load" /\ line <= Len(in.dumps[exe]) /\ Line.kind = "label"
  /\ FinalizeCurrent(Wrap(Load(Line.offset) - 1), "load")
  /\ IF Line.symbol \in Desired
       THEN current' = Line.symbol /\ low' = Load(Line.offset) /\ lines' = << Text >>
       ELSE current' = NoSymbol /\ low' = 0 /\ lines' = << >>
  /\ offset' = Line.offset
  /\ line' = line + 1
  /\ UNCHANGED << in, exe, reading >>

\* Lines are only kept while a desired symbol is processed.
LoadLine ==
  /\ phase = "load" /\ line <= Len(in.dumps[exe]) /\ Line.kind # "label"
  /\ lines' = IF current = NoSymbol THEN lines
              ELSE Append(lines, IF IsInsn(Line)
                                   THEN [Line EXCEPT !.offset = Load(@)]
                                   ELSE Text)
  /\ offset' = IF IsInsn(Line) THEN Line.offset ELSE offset
  /\ line' = line + 1
  /\ UNCHANGED << in, phase, exe, current, low, symbols, reading >>

\* At the end of the file the last instruction is taken to be one byte long.
LoadEnd ==
  /\ phase = "load" /\ line > Len(in.dumps[exe])
  /\ FinalizeCurrent(Load(offset), IF exe = Len(in.dumps) THEN "read" ELSE "load")
  /\ exe' = IF exe = Len(in.dumps) THEN exe ELSE exe + 1
  /\ line' = 1 /\ current' = NoSymbol /\ low' = 0 /\ offset' = 0 /\ lines' = << >>
  /\ UNCHANGED << in, reading >>
-----------------------------------------------------------------------------
(***************************************************************************)
(* Reading the coverage files.                                             *)
(***************************************************************************)
Reader == IF in.single THEN 1 ELSE file

\* ExecutableInfo::getCoverageMap: the first symbol that ends at or behind x
\* is the one looked for if it also starts at or before x.
SlipLookup(e, x, s) ==
  \E t \in contents[e] : /\ t.symbol = s /\ x < t.high /\ t.low <= x
                         /\ \A u \in contents[e] : x < u.high => t.high <= u.high
Lookup(e, x, s) ==
  \E t \in contents[e] : /\ t.symbol = s /\ x <= t.high /\ t.low <= x
                         /\ \A u \in contents[e] : x <= u.high => t.high <= u.high

\* while (!isStartOfInstruction( a )) a--;  an address below 0 wraps around.
SlipLastStart(m, a) == a
LastStart(m, a) ==
  LET starts == {x \in Address : IsStart(m, x)}
      below  == {x \in starts : x <= a}
  IN  Max(IF below = {} THEN starts ELSE below)

Directions(m, op, x) ==
  LET t == IF "taken" \in op THEN SetTaken(m, x) ELSE m
  IN  IF "notTaken" \in op THEN SetNotTaken(t, x) ELSE t

\* A block, then the direction of the branch that ended it, if it has one.
MarkQEMU(m, x) ==
  LET last   == x.pc + x.size - 1
      marked == IF "block" \in x.op THEN SetExecuted(m, x.pc .. last) ELSE m
  IN  IF x.op \cap {"taken", "notTaken"} # {} /\ InMap(m, last) /\ InMap(m, x.pc)
        THEN Directions(marked,
                        IF "taken" \in x.op THEN {"taken"} ELSE {"notTaken"},
                        LastStart(m, last))
        ELSE marked

MarkTSIM(m, x) ==
  IF "block" \in x.op
    THEN Directions(SetExecuted(m, x.pc .. x.pc + CoverUnit - 1), x.op, x.pc)
    ELSE m
MarkSkyeye(m, x) ==
  IF "block" \in x.op THEN SetExecuted(m, x.pc .. x.pc + CoverUnit - 1) ELSE m
MarkRTEMS(m, x) ==
  IF "block" \in x.op THEN SetExecuted(m, {x.pc}) ELSE m

Marked(m, x) ==
  CASE in.format = "QEMU"   -> MarkQEMU(m, x)
    [] in.format = "TSIM"   -> MarkTSIM(m, x)
    [] in.format = "Skyeye" -> MarkSkyeye(m, x)
    [] in.format = "RTEMS"  -> MarkRTEMS(m, x)

ReadEntry ==
  /\ phase = "read" /\ count < MaxEntries
  /\ \E x \in Entries :
       /\ maps' = [maps EXCEPT ![Reader] =
                     [s \in Desired |-> IF Lookup(Reader, x.pc, s)
                                          THEN Marked(maps[Reader][s], x)
                                          ELSE maps[Reader][s]]]
       /\ log' = Append(log, [exe |-> Reader, entry |-> x])
  /\ count' = count + 1
  /\ UNCHANGED << in, phase, loading, contents, info, saved, sizeInBytes,
                  unified, file >>

\* The readers of files with a header exit when they cannot read it.
BadHeader ==
  /\ phase = "read" /\ count = 0 /\ in.format # "TSIM"
  /\ phase' = "exited"
  /\ UNCHANGED << in, loading, symbols, reading >>

MergeCoverageMap(s, m) ==
  IF sizeInBytes[s] = m.size THEN Merge(unified[s], m, sizeInBytes[s])
                             ELSE unified[s]

\* processFile is through: merge every map of the executable, open the next.
SlipEndOfFile ==
  /\ phase = "read"
  /\ unified' = [s \in Desired |->
                   IF Exists(maps[Reader][s]) /\ file # in.files
                     THEN MergeCoverageMap(s, maps[Reader][s])
                     ELSE unified[s]]
  /\ phase' = IF file = in.files THEN "preprocess" ELSE "read"
  /\ file' = IF file = in.files THEN file ELSE file + 1
  /\ count' = 0
  /\ UNCHANGED << in, loading, contents, info, maps, saved, sizeInBytes, log >>
EndOfFile ==
  /\ phase = "read"
  /\ unified' = [s \in Desired |->
                   IF Exists(maps[Reader][s]) THEN MergeCoverageMap(s, maps[Reader][s])
                                              ELSE unified[s]]
  /\ phase' = IF file = in.files THEN "preprocess" ELSE "read"
  /\ file' = IF file = in.files THEN file ELSE file + 1
  /\ count' = 0
  /\ UNCHANGED << in, loading, contents, info, maps, saved, sizeInBytes, log >>

\* DesiredSymbols::preprocess.
Flagged(s, ls) == {Wrap(l.offset - saved[s].base) : l \in ls}

Preprocess ==
  /\ phase = "preprocess"
  /\ unified' =
       [s \in Desired |->
          IF Exists(unified[s])
            THEN LET insns == {l \in saved[s].instructions : IsInsn(l)}
                 IN  SetNops(SetBranches(unified[s], Flagged(s, {l \in insns : IsBranch(in.cpu, l.op)})),
                             Flagged(s, {l \in insns : IsNop(l)}))
            ELSE unified[s]]
  /\ phase' = "analyze"
  /\ UNCHANGED << in, loading, contents, info, maps, saved, sizeInBytes, reading >>

Next == \/ LoadLabel \/ LoadLine \/ LoadEnd
        \/ ReadEntry \/ BadHeader \/ EndOfFile \/ Preprocess

Spec == Init /\ [][Next]_vars
-----------------------------------------------------------------------------
(***************************************************************************)
(* Types.  Offsets into a map's Info stay below its size.                  *)
(***************************************************************************)
MapOK(m) ==
  LET Offs == 0 .. m.size - 1
  IN  /\ m.ranges \in Seq([low : Address, high : Address]) /\ m.size \in Address
      /\ m.start \subseteq Offs /\ m.branch \subseteq Offs /\ m.nop \subseteq Offs
      /\ m.exec \in [Offs -> Nat] /\ m.taken \in [Offs -> Nat]
      /\ m.notTaken \in [Offs -> Nat]

LoadOK ==
  /\ in \in Inputs
  /\ phase \in {"load", "read", "preprocess", "analyze", "exited"}
  /\ exe \in Executables /\ line \in Nat \ {0}
  /\ current \in Desired \cup {NoSymbol}
  /\ low \in Address /\ offset \in Address /\ lines \in Seq(LineType)
  /\ sizeInBytes \in [Desired -> Address]
  /\ file \in 1 .. in.files /\ count \in 0 .. MaxEntries

(***************************************************************************)
(* The variables stay within the types the code gives them.                *)
(***************************************************************************)
TypeOK ==
  /\ LoadOK
  /\ \A e \in Executables, s \in Desired : MapOK(maps[e][s])
  /\ \A s \in Desired : MapOK(unified[s]) /\ saved[s].instructions \subseteq LineType

(***************************************************************************)
(* Every address a map takes for its own indexes its Info: the ranges of   *)
(* one symbol share an array sized for the first, and CoverageMapBase::Add *)
(* checks nothing (CoverageMapBase.cc 53-77).  What keeps it right is the  *)
(* length check in SymbolTable::addSymbol.                                 *)
(***************************************************************************)
InBounds(m)  == \A x \in Address : InMap(m, x) => Offset(m, x) \in 0 .. m.size - 1
InfoInBounds == /\ \A e \in Executables, s \in Desired : InBounds(maps[e][s])
                /\ \A s \in Desired : InBounds(unified[s])

(***************************************************************************)
(* The symbol table and the coverage maps of an executable agree on every  *)
(* address, so that getCoverageMap never follows the end iterator and no   *)
(* byte of a desired symbol is unreachable (ExecutableInfo.cc 54-68,       *)
(* SymbolTable.cc 86-106).                                                 *)
(***************************************************************************)
LookupExact ==
  phase # "exited" =>
    \A e \in Executables, s \in Desired, x \in Address :
      Lookup(e, x, s) <=> Exists(maps[e][s]) /\ InMap(maps[e][s], x)

(***************************************************************************)
(* Once every pair is merged, a byte of the unified map was executed       *)
(* exactly as often as the entries of all coverage files say, wherever the *)
(* linker put the symbol and however many copies there are; provided all   *)
(* executables hold it in one size.  A block counts for the symbol it      *)
(* starts in.                                                              *)
(***************************************************************************)
ExecutedBy(x) ==
  IF "block" \notin x.op THEN {}
  ELSE x.pc .. x.pc + (CASE in.format = "QEMU"  -> x.size
                         [] in.format = "RTEMS" -> 1
                         [] OTHER               -> CoverUnit) - 1

Executions(s, o) ==
  SumFunction(
    [k \in DOMAIN log |->
       LET m == maps[log[k].exe][s]
       IN  Cardinality({x \in ExecutedBy(log[k].entry) :
                          /\ InMap(m, log[k].entry.pc) /\ InMap(m, x)
                          /\ Offset(m, x) = o})])

OneSize(s) == \A e \in Executables : Exists(maps[e][s]) => maps[e][s].size = sizeInBytes[s]
Counted(s) == \A o \in DOMAIN unified[s].exec : unified[s].exec[o] = Executions(s, o)

CountsExact ==
  phase \in {"preprocess", "analyze"} /\ ~in.single =>
    \A s \in Desired : OneSize(s) => Counted(s)

(***************************************************************************)
(* Covoar implements CoverageLedger for the symbols that all executables   *)
(* hold in one size: what the maps of the executable whose coverage file   *)
(* is open hold beyond the unified maps is pending, and each mergeCoverage *)
(* commits exactly that, also when one executable is merged repeatedly     *)
(* (ExecutableInfo.cc 116-122, DesiredSymbols.cc 623-690).                 *)
(***************************************************************************)
BytesIn(of) ==
  UNION {{<< s, o >> : o \in {p \in DOMAIN of[s].exec : of[s].exec[p] > 0}} :
           s \in {t \in Desired : OneSize(t)}}
FilesMerged == IF phase \in {"preprocess", "analyze"} THEN in.files ELSE file - 1
Ledger == INSTANCE CoverageLedger
            WITH merged  <- FilesMerged,
                 covered <- BytesIn(unified),
                 pending <- BytesIn(maps[Reader]) \ BytesIn(unified)
LedgerSpec == Ledger!Spec

(***************************************************************************)
(* A QEMU branch direction is recorded for the instruction the block ended *)
(* with, never for an earlier one or inside one, and only for a direction  *)
(* that some entry for this symbol carries (CoverageReaderQEMU.cc 138-163).*)
(***************************************************************************)
EndsAt(m, x, o) ==
  LET last == x.pc + x.size - 1
  IN  /\ InMap(m, x.pc) /\ InMap(m, last)
      /\ o \in m.start /\ o <= Offset(m, last)
      /\ \A p \in o + 1 .. Offset(m, last) : p \notin m.start

DirectionsExact ==
  phase \in {"read", "preprocess", "analyze"} /\ in.format = "QEMU" =>
    \A e \in Executables, s \in Desired :
      LET m == maps[e][s]
          Seen(d, o) == \E k \in DOMAIN log : /\ log[k].exe = e
                                              /\ d \in log[k].entry.op
                                              /\ EndsAt(m, log[k].entry, o)
      IN  \A o \in 0 .. m.size - 1 : /\ m.taken[o] > 0 => Seen("taken", o)
                                     /\ m.notTaken[o] > 0 => Seen("notTaken", o)

(***************************************************************************)
(* What the scan of UncoveredScan relies on: a non-empty map no longer     *)
(* than the symbol, whose first byte starts an instruction; branches and   *)
(* nops are different instructions, and lie on starts unless executables   *)
(* disagree on the size.                                                   *)
(***************************************************************************)
ScanInput ==
  phase = "analyze" =>
    \A s \in {t \in Desired : Exists(unified[t])} :
      LET m == unified[s]
      IN  /\ m.size \in 1 .. sizeInBytes[s]
          /\ 0 \in m.start
          /\ m.branch \cap m.nop = {}
          /\ m.size = sizeInBytes[s] => m.branch \cup m.nop \subseteq m.start

(***************************************************************************)
(* CoverageMapBase.h 205: "This method returns an unsigned integer which   *)
(* indicates how often the instruction at the specified address was        *)
(* executed", for one executable with several coverage files as well.      *)
(***************************************************************************)
CountsAreExecutions ==
  phase \in {"preprocess", "analyze"} => \A s \in Desired : OneSize(s) => Counted(s)

(***************************************************************************)
(* TargetBase.h 73: size "is set to the size in bytes of the nop", so that *)
(* the bytes finalizeSymbol takes off are those of the trailing nops, and  *)
(* every instruction it keeps lies within the symbol.                      *)
(***************************************************************************)
KeptWithin ==
  \A s \in Desired : \A l \in saved[s].instructions :
    IsInsn(l) => Wrap(l.offset - saved[s].base) < sizeInBytes[s]
=============================================================================
