# A verification project for rtems-testing

rtems-testing runs the RTEMS test suites on simulators and measures, on the
object code, what they covered. This directory holds TLA+ models of its parts,
TLC configurations that check them on small instances, and proofs checked by
TLAPS. `PROJECT.json` is the index: components, runs, theorems, hazards, and for
every definition the lines of the source it models.

    tlc -config MC_covoar.cfg MC_Covoar       tlapm UncoveredScan_proofs.tla

## The system

A coverage run is a pipeline of programs that only meet through files:

    do_coverage        builds RTEMS and its tests, runs and analyses them
      gdb-sim-run      runs each test on a simulator, writes logs and coverage
      TraceConverter   (some simulators) turns a QEMU log into a trace file
      covoar           reads executables and coverage files, unifies, reports
        objdump        disassembles each executable into a cached .dmp file

| Component | State | Operations | What is hard | What makes it correct |
|---|---|---|---|---|
| coverage map (`CoverageMapBase`) | per-byte Info, address ranges | setters, look-up, `Add` | several ranges share one Info | every address of the map indexes Info |
| objdump processor | the current symbol and its lines, the cached .dmp file | `load`, `finalizeSymbol`, `getFile` | trailing nops, end of file, stale .dmp | a symbol gets the same size wherever it is linked; the dump is of the executable at hand |
| executable, symbol table | symbols by last address, lengths, maps | `addSymbol`, `getSymbol`, `createCoverageMap`, `mergeCoverage` | two tables kept in step by hand | table and maps agree on every address |
| targets | tables of nops and branches | `isNopLine`, `isBranch` | the size of a nop is part of the arithmetic on symbols | what is taken off a symbol is padding |
| coverage readers (QEMU, TSIM, Skyeye, RTEMS) | position in the file | one entry per step | symbol boundaries, branch directions, short files | what is marked is what the entry says |
| desired symbols | saved instructions, size, unified map, statistics | `createCoverageMap`, `mergeCoverageMap`, `preprocess`, `computeUncovered`, `calculateStatistics` | versions of different length, repeated merges, unsigned bounds | counts exact; ranges exact; both reports agree |
| covoar main, configuration file | options, two lists of files | getopt, `processFile`, `check_configuration`, the loops over the lists | three sources of an option; unreadable files while two lists are filled | the last word on an option counts; a file is merged once, with its own executable |
| coverage ranges, explanations | ranges with global ids, explanations and their `found` flag | `add`, `getId`, look-up, `writeNotFound` | id by low address; lines matched by order | ids unique, links resolve; not found = never asked for |
| reports | the open files, the last state annotated | six reports in two editions, a summary | columns named in one method, filled in another; totals counted again | both editions and the summary tell one story |
| simulator runner (`gdb-sim-run`) | pid, poll counter, tries, log file | `runtest`, `killpid`, `checkGenericExits`, retries | a concurrent simulator that may hang, ignore signals, start late | one simulator at a time, fair verdicts, no lost output, no hang |
| QEMU trace conversion | one block of look-ahead, list of blocks | `processFile`, `Trace.add`, `writeFile` | the end of the log, stale look-ahead | a direction belongs to the block that took it |
| gcov output | counters per function | `readGcnoFile`, `processCounters`, `writeGcdaFile` | three lists that agree by order only | counters equal what was executed |
| do_coverage pipeline | options, files of former invocations | the steps in order | a failed step in the middle, a status nobody looks at | no report from results older than the last emptying of BSP-tests; what is saved when the script ends well |
| merge helpers, tool builds, BSP builds | working directory, job status | loops over directories, parallel jobs | continue in the middle, status of jobs | every item starts from the same place |

covoar is sequential: its difficulty is in its input (which executables hold
which versions of a symbol, where, and which entries the coverage files hold),
in arithmetic on 32-bit addresses, and in tables kept in step by hand. The
simulator runner is concurrent: script and simulator share the process table
and the log file, and the script polls both.

## Modules

| Module | Models | State and actions |
|---|---|---|
| `CoverageMap` | `CoverageMapBase` and the loop of `mergeCoverageMap` | no state: a map is a record, its methods are operators; a map without ranges is "no map" |
| `Targets` | the target classes: nops with their sizes, conditional branches | no state: tables and two look-ups |
| `Startup` | `main` up to the first coverage file, `FileReader`, `check_configuration`, `DesiredSymbols::load`, and the order of the files | one action per option, line of a configuration file, argument, symbol and coverage file |
| `Covoar` | covoar from the first executable to `preprocess` | one action per line of a disassembly (`LoadLabel`, `LoadLine`, `LoadEnd`, with `finalizeSymbol` inside the first and the last), per entry of a coverage file (`ReadEntry`, `BadHeader`), per merged file (`EndOfFile`), and `Preprocess` |
| `CoverageLedger` | what covoar promises | number of files `merged`, `covered` and `pending` bytes; `See`, `Commit` |
| `UncoveredScan` | `computeUncovered` and `calculateStatistics` for one symbol | one action per turn of each loop |
| `Reports` | `Explanations`, ids of ranges, `findSourceForUncovered`, `GenerateReports` with both editions | one action per line of the explanations, per symbol, per report written; every `fopen` may fail |
| `DoCoverage` | invocations of do_coverage over shared directories, with `getFile` and `FileIsNewer` of covoar | one action per step of the script, per executable disassembled, per configuration archived |
| `SimRun` | gdb-sim-run with its simulators | one action per step between two looks at shared state; `OpenLog`, `Write`, `Exit` are the simulator's |
| `QemuTrace` | TraceConverter: `loadAddressTable`, `processFile`, `writeFile` | one action per line of a block (`ReadInstruction`), per block (`EndBlock`), per entry written (`WriteEntry`) |
| `Gcov` | `GcovData` and `GcovFunctionData` for one notes file | one action per frame read, per block of each of the two passes (`ProcessBranch`, `PassBranch`, `PropagateBlock`, ...), per function written |
| `MC_...` | the instances TLC checks | |
| `..._proofs` | theorems about the module of that name, and their lemmas; `Scripts_proofs` is about `SimRun` and `DoCoverage` | |
| `FiniteLemmas` | lemmas about least elements, ranks and sums the proofs share | |

`Covoar` EXTENDS `CoverageMap`, instantiates `CoverageLedger` with a refinement
mapping, and ends where `UncoveredScan` begins: its invariant `ScanInput` is
what the initial states of `UncoveredScan` take for granted. `Reports` begins
with unified maps and with what a scan finds in them, and it is proved that
`UncoveredScan` finds it. `Startup` computes the
pairs of executable and coverage file that are an input of `Covoar`, and
`DoCoverage` decides which disassembly and which coverage file covoar gets.
`Reports`, `Startup` and `DoCoverage` share no state with the others at the same
time: each hands its result over when it ends, so they are checked apart.

Operators named `Slip...` are wrong variants of the definition that follows
them. No specification uses them; replacing the definition by its slip must
make the property listed with it in `PROJECT.json` fail.

### Covoar

A disassembly is a sequence of lines: labels, instructions with their mnemonic,
and other text. `Targets` says, for the CPU of the run, which mnemonics are nops
of which size and which are branches; the load address of a library is input.
Each coverage format has its operator (`MarkQEMU` and so on); an entry
is a pc, a size and a set of flags, of which each format uses its own part. The
code's array of Info structures is one set or function of offsets per field.

`log`, a history variable, keeps the entries read, to say what the counts
should be. `phase = "exited"` stands for the calls of exit: symbols of one name
with different lengths in one executable, and unreadable headers. The end of a
coverage file may come after any entry.

The empty name of the symbol being loaded is `NoSymbol`. `WellFormed` and
`Headed` say what covoar takes for granted of a disassembly; they are hypotheses
of the theorems and no guard of any action.

Left out: that a text line beginning with a hexadecimal number changes `offset`,
which matters for the last symbol of an executable only.

### Startup

A name or a value is the sequence of its parts, because main cuts the extension
of the executables off by its length; a target is split at its hyphens. A line
of a configuration file is described by what the scanner finds out about it: was
there a newline, a blank before the `=`, an `=`, a value. `option` is the table
of `FileReader`, `setting` the globals of main. `single` (-1) turns the arguments
into coverage files. `eitr` and `next` are the two iterators of main's last loop,
and `read`, a history variable, keeps what they point to. "exited" and "crashed"
are the ends of a refused command line: the second for the null pointers the
code follows (no extension, a target whose constructor is missing).

### UncoveredScan

The initial states are all maps a symbol of `SizeInBytes` bytes can have.
`NopSkip`, `NopMark` and `NopsDone` are the first loop, `ScanRange`,
`ScanBranch`, `ScanOther` and `ScanDone` the second, `CountByte` and `CountDone`
that of `calculateStatistics`. The inner loops look at the map only and are
operators (`NextStart`, `NextExecuted`).

### Reports

A symbol comes with its saved lines, its unified map and its base and load
address. What a scan finds is said by `RunStarts`, `OneWay` and `Uncovered`, for
maps in which instructions are executed as a whole; `UncoveredScan` is about how
it is found, and its proofs show that it finds this. `Number` gives out the ids,
over all symbols. `Questions` is the file of addresses
written for addr2line, `Addr2line` its answers, and `WithLines` the loop that
reads them back by order alone; fewer answers than questions end the program.

A report is a table: `columns`, as its opening writes them, and `rows`, as its
loop does. The text edition names the values (records), the HTML edition only
places them (sequences), and they are written by different methods. `found` is
set by whoever looks an explanation up. `lastState` is never initialised in the
code and may begin with anything. A file that cannot be opened is skipped by the
text reports; the HTML reports write to the null pointer ("crashed").

### DoCoverage

The clock `now` gives stamps to files. `built` is the build tree, `tests` the
executables next to the coverage files: copies with a stamp of their own, or
links through which stat sees the build tree. `dmp` and `cov` are the cached
disassembly and the coverage file of each test, each with the build it came
from. `Start` begins an invocation with any command line; the steps follow each
other, `Skip` leaves out what was not asked for. A step whose status the script
looks at may end in "exit1" (`CleanFails`, an rm that stops half way, among them); a
step whose status nobody looks at may fail and go on: `Copy` may lose any of the
executables, `RunTests` may process any of the tests, `Archive` may leave no
archive or one that is not whole, and objdump in front of sed in `Disassemble`
may leave part of a dump (`cut`), which later invocations find again. `items` is
what covoar read. Two history variables: `emptied` is the invocation that last
emptied BSP-tests, `tarFailed` the configurations tar failed on in this one.

A build takes at least one unit of the clock, so that a new executable has a
later modification time than the old one and than what was made from it; a
rebuild within the second in which covoar wrote its dump is not explored.
Invocations follow at once or later.
Building covoar itself and the checks of the environment are left out.

### SimRun

The log of the test is the set of kinds of message in it, or `NoLog`. The
simulator may write at any moment, end at any moment, or do neither for ever;
it may act on an interrupt at once, later or never. The subshell the script
forks opens the log before it becomes the simulator, so until `OpenLog` the
script sees what an earlier run left, and may kill the new run because of it.
SIGKILL takes effect at once. The limit is `Limit` polls of 50 ms. `wrote`, a
history variable, is what the present run has written itself, `endedAt` the poll
before which its end message came.

Left out: GDB server mode and device tree generation (the script exits at
once), `convertTraceToCoverageMap` (called, defined nowhere), `catLog`, a limit
of 0 given on the command line, and reuse of process ids.

### QemuTrace

A line of the log is a separator, the start of a block, an instruction, an
instruction cut off behind its address, or anything else; `IsBranch` of an
instruction's name is part of the line. The disassembly is a list of lines of
which some are instructions. `EndBlock` is the rest of the loop's body behind
the do-while, with the look-ahead, the verdict on the branch, `Trace.add` and
`first = nextExecuted`. `inputBuffer` is a variable because a failing `fgets`
leaves the last line in it, which the code then parses again.

What the trace should be is said by definitions that look at the whole log
(`Blocks`, `Known`, `Went`) and at the file as covoar does (`Covers`,
`BranchOf`). The writer may fail at every call; `main` ignores it.

Left out: lines longer than the buffer, source text that looks like an address
and a colon, sums of load address and offset beyond 2^32.

### Gcov

A function is its flow graph, as the compiler wrote it into the notes, and the
number of times each arc was `followed`. The coverage map is derived from
that: the count of the first instruction is the number of calls (`WasExecuted`),
each conditional branch has been taken and not taken as often as its two arcs
were followed, and the branches lie in the code in the order of their blocks
(`BranchCounts`), except that one (`merged`) may have no instruction. Blocks
come in order and the last is the exit, as gcc 4.6 writes them.
`arc`, `block`, `taken` and `notTaken` are the iterators and lists of
`processFunctionCounters`; its returns in the middle keep what was assigned.

Reading goes by the `frame` that comes next: function, blocks, the arcs of each
block that has any, lines. `EndReading` may happen before any frame, which is how
notes that end early or have a damaged frame end the loop of `readGcnoFile`.
The graphs come with executions that conserve flow (`Ordered`).

What the algorithm promises is said by `Regular`: the graphs for which two
passes suffice. For other graphs with at most two arcs out of a block, of which
a second FAKE one is never followed, and for notes that are cut off, `NeverMore`
says that counts can only be too low.

Left out: line numbers, the text report and the call of gcov, tags the notes
do not have, functions with a switch (their branch instructions have no block
of their own), and functions whose first instruction is the head of a loop. Of
the two summaries of a data file the number of counters is modelled; their sum
and maximum, which `getCounters` computes afresh for each function, are not.

## Runs

| Run | Instance | Shows |
|---|---|---|
| startup | the usual command line of do_coverage with every choice of missing files, two configuration files with every kind of damaged line, a single executable, command lines to be refused | covoar works with the options and symbols asked for; each coverage file is read once, into its own executable |
| covoar | eleven command lines over the code of five CPUs, all four formats, every coverage file of up to two entries | no access outside Info from the maps' own ranges; symbol table and maps agree; counts and branch directions exact; the contract of the scan; covoar implements `CoverageLedger` |
| scan | every map of a symbol of 4 bytes | ranges, branches and counters are what the map says; the nop pass marks padding only; both passes end |
| simrun | up to two tests; coverage, trust, retries, limit on and off | never two simulators; a test that ended in time is not called over time, and one that has opened its log is judged by nothing but what it wrote; output is never overwritten by a rerun; the script gets through |
| qemu | logs of up to three blocks out of seven, cut off behind or within every line; every failure of the writer | covoar sees the instructions of the log's blocks and no others; each branch direction belongs to the block that took it; the converter ends unless the log ends with an instruction |
| gcov | eight graphs (straight, if, three loops, calls, a call that does not return, a last block that branches), up to two calls each along paths of up to seven arcs; pairs of functions; notes cut off after any frame | counts of arcs and blocks are exact for regular graphs, and never too high where at most two arcs leave a block; the data file holds the counts off the spanning tree in order |
| reports | seven programs with covered, half covered and missing symbols; explanations missing, fitting, unused, doubled, cut off; every file failing to open | ranges carry the source lines of their own addresses; text, HTML and summary agree; links lead to something; the list of unused explanations is right |
| docoverage | two tests, seven command lines, three invocations, any step failing | a disassembly is of the executable analysed; no report rests on coverage or a disassembly older than the last emptying of BSP-tests; what an invocation that ends well has saved, and for which configurations it may be missing or not whole |
| single (violated) | one executable, two coverage files | counts of the first file are added again by the merge of the second |
| padding (violated) | one m68k function | a final rts counts as padding of 4 bytes, so that an instruction of the function lies outside its map |
| warning (violated) | as simrun | the warning is given although the third run had output |
| truncated (violated) | as qemu, one block | a log that ends with an instruction keeps the converter in its loop for ever |

### Bounds

- `Word` = 40 stands for 2^32. Wrap-around happens in the model where it
  happens in the code: a load address added to an offset, the walk back to a
  start.
- `CoverUnit` = 4 is the size of a TSIM or Skyeye item, and of the instructions
  of the CPUs that use them; symbols of 8 and 12 bytes then have several items.
- Two executables are enough for every interaction through the unified map: a
  merge sees one executable and what all earlier ones left. Eleven inputs cover
  moved, duplicated, last, longer and conflicting symbols, the padding of five
  CPUs, and a load address.
- `MaxEntries` = 2: an entry only adds to what earlier ones did; two show that
  counts add up within a file and across files.
- 4 bytes in the scan hold a start, a tail, a nop, a branch and every order of
  executed and unexecuted bytes around them; what is proved holds for all sizes.
- Three blocks in a log: one being read, one ahead, and one before, whose first
  instruction may linger in the look-ahead. The blocks include one of a single
  branch, one the disassembly does not know, and one at its end.
- Two functions in a notes file show that lists and iterators of one do not
  leak into the next; paths of seven arcs go round each loop twice at least.
- Three symbols in a report, one of them in no executable: ids and addr2line's
  answers run from the first to the last over one that has neither. One object
  file is loaded at 16, one at 0; two places share a source line.
- Three executables at the start of covoar: one missing before, between and
  behind others. Two configuration files and a command line give an option
  three sources.
- Three invocations of do_coverage: one leaves files, one fails over them, one
  uses what is left. The two tests are interchangeable (symmetry), the seven
  command lines differ in the steps they leave out.
- `Limit` = 3 polls: before, at the last and past the last poll in time.

### Fairness

The scan and the converter are single threads that never block: WF of the next
step. A turn of the converter's loop that changes nothing is a stutter, so a
loop that spins shows as a state it never leaves. `Startup`, `Covoar`, `Gcov`,
`Reports` and `DoCoverage` state no liveness: none of them waits for anybody, and
every step of theirs consumes part of a finite input.

The script that runs the simulators is never stopped and each of its steps, a
sleep of 50 ms included, ends: WF of the script. The simulator has no fairness,
it may hang. Where the script waits in the foreground for a simulator
(interactive, or trusted to exit) nothing is promised.

## Proofs

40 theorems, listed in `PROJECT.json`, say for every value of the constants what
the runs show on their instances: every invariant of every passing run, the
action property `OutputKept`, and that `Covoar` implements `CoverageLedger`. TLC evaluates every ASSUME the proofs rest on. An invariant
that speaks of the end of a computation is never inductive as it stands; what
follows names, for each module, the strengthening and why it is needed.

**UncoveredScan** (every `SizeInBytes`, every map).

- `TypeCorrect`: both passes stay within the symbol. The one strengthening is
  that the position is past the end only when a pass is over.
- `RangesCorrect`: the uncovered ranges are exactly the unexecuted bytes
  outside the tails of executed branches. The inductive invariant `ScanInv` says
  the same of the part behind the position: every byte there is executed, in a
  range or in a branch tail (`Classified`), ranges lie behind the position and
  apart (`Behind`, `Apart`), and the position itself is never in a tail
  (`NotInTail`), without which the range starting there could begin inside an
  instruction.
- `PaddingCorrect`: the nop pass marks only the bytes of a nop directly behind
  an executed instruction. Its invariant `PaddingInv` keeps what is executed a
  superset of what was at the start, with every addition accounted for.
- `BranchesCorrect`: `BranchInv` follows the recorded branches through the scan
  and the counted ones through `calculateStatistics`.
- `ReportsAgreement`: `AgreeInv` extends `ScanInv`. The bytes and instructions of
  the ranges, which the scan adds up as it goes, are the cardinalities of the
  sets the second pass counts one by one.
- `ScanHandsReportsItsRanges`, `ScanNumbersInTurn` and
  `ScanHandsReportsItsStatistics` join the module to `Reports`, which says in
  closed form what the loops compute. `MapOf` is the map at hand as a symbol of
  `Reports`, and `R` an instance of `Reports` with this symbol. Where instructions
  were executed whole or not at all (`WholeInstructions`; Reports assumes it of
  its symbols) the lists are `R!Listed` of the run starts and of the one-way
  branches, each entry is added in the turn that is its `R!Number`, and the
  counters are `R!Statistics`. The inductive invariant `HandInv` says that the
  lists so far are those of the map below the position (`ListsTo`), and that the
  position begins the symbol, ends it, or has an executed byte at it or before it,
  without which a range could continue the one before; `StatInv` adds how many
  branches are of either kind and how many instructions there are. No run checks
  these three: they speak of two modules at once.

**SimRun** (every list of tests, limit and BSP setting). `RunTypeCorrect`,
`SimulatorAlone`, `VerdictFair` and `OutputPreserved` follow from one inductive
invariant, `RunInv`, each conjunct of which is something the script relies on
without looking: killpid returns to a caller that expects it (`Returns`); the only
simulator that may run is `$pid`, and none between runs (`Alone`); whoever writes
has emptied the log (`Emptied`); the number of simulators started is bounded by
tests and tries (`Launched`, stronger than its bound in `TypeOK`); the loop goes
on only below the limit (`InTime`); a rerun is due only after an empty log
(`Rerun`); while the script polls, an end message is in the log for at most one
round of checks (`Noticed`, which is why being over time says something about
when it was written, `OverTime`); and from the moment the run has its log open,
nothing is in it but what this run wrote (`Mine`), which is the second half of
`VerdictHonest`. Before that moment the log may be an earlier run's, and the run
may be killed because of it: the model allows that, and no property excludes it.

**Startup** (every command line, all configuration files, every choice of
readable files). `PairsCorrect` needs `ListInv`: after n arguments the list of
coverage files has the usable ones among them at their ranks, the list of
executables is in step with it or, with -1, empty (`Listed`, `Collecting`,
`Collected`), and the two iterators of the last loop move together or the first
stands still (`Iterated`). It also gives `TypeCorrect`, where the point is that
the iterator is never followed past the last executable. `AskedForCorrect` needs
`AskedInv`: each option holds the value of the last line for it in what has been
read of the configuration files, and each setting the last value given for it
(`Taken`, `Settled`); the symbols are the words at odd places so far (`Loaded`).

**Covoar** (every word size, set of symbols, disassembly and coverage file). The
invariant `CovoarInv` has two halves. While a disassembly is loaded, the lines
kept of the current symbol are sorted, lie before the lines to come, and either
end in an instruction that is no nop or have one ahead (`Collected`), which is
what keeps `finalizeSymbol` from taking off more than the symbol has. Of the
tables it says that ranges of one executable are disjoint and behind the position
(`Table`, `Behind`), that symbol table and maps have the same ranges (`Tied`),
that every range of a map has the length `addSymbol` remembered first
(`MapsFit`), and how the unified maps relate to these (`UnifiedFit`, `Paired`).
From it follow `TypeCorrect`, `OffsetsStayInBounds` and `LookupCorrect`. `Ledgers`
is the refinement, step by step: an entry read is `See`, the merge of a file is
`Commit`, and everything else leaves the ledger alone. `CountsCorrect` keeps the
sum over the entries read in balance with what is in the unified map and what is
still in the map of the open file. `HandInv` is about what is handed to the scan:
offset 0 starts an instruction in every map (`Heading`, `Heads`), the instructions
saved of a symbol are those of its unified map (`Longest`, `Remembered`, `Handed`),
flags come from `Preprocess` only (`Flags`), and every direction was named by an
entry whose block ended there (`Directed`). It gives `ScanInputCorrect`, so that
what `UncoveredScan` assumes of its initial states is proved of the states in
which `Covoar` ends, and `DirectionsCorrect`.

These theorems have hypotheses on the disassemblies, which covoar relies on and
never checks: `WellFormed` (lines in the order of their addresses, no instruction
inside another, a symbol of interest has an instruction that is no nop, no nop
ends the file) and, for the last two, `Headed` (there is an instruction at the
address of the label). objdump's output on sound code satisfies both, and TLC
checks that the instances do (`SoundAssumption`). The run padding is an instance
where they do not hold, a nop taken for longer than it is, and shows what covoar
then makes of a symbol.

**QemuTrace** (every disassembly, every log). `TypeCorrect` has no hypothesis.
`NoInvention` needs the disassembly to be in order (`Ascending`) and the log to
show straight-line code (`StraightLine`: behind a logged instruction comes the
next one of the disassembly, or one the disassembly does not know); its invariant
`LoggedInv` says that the look-ahead is an instruction of the log or none, and
that everything between first and last was logged (`Spanned`). `CoverageCorrect`
and `DirectionsCorrect` need a `Faithful` log: in addition only its last line is
cut off, text stands between blocks, and a block is shorter than the 16 bits of
its length in the file. `ExactInv` says that the trace is at any time exactly the
ranges of the blocks before the one being read, as defined by the whole log
(`RangeOf`). TLC checks that all logs of the runs are faithful
(`FaithfulAssumption`), cut ones included.

**Gcov** (every notes file, every execution, cut off anywhere). `TypesInv` says of
the reading what a prefix of the notes can have left (`ReadInv`: the arcs of a
block all or none, blocks before arcs), and of the two passes that every block
passed has arcs and that the arcs of the blocks to come lie ahead (`Walk`); the
second pass begins only where the first reached the last arc, which is why it
needs no test for the end of the list (`Again`). `CountInv` says where each
counter stands: before block b the first pass has given the arcs of every
conditional branch their counts, nothing to others, what is left in the two lists
are the counts of the branches from b on (`Left`), and each block holds the sum
of the arcs into it (`Balanced`); the second pass keeps arcs of passed blocks
exact in regular graphs and below the truth in the others (`Propagating`).
`NeverMoreCorrect` and `ArcsCorrect` follow with conservation of flow, `GcdaCorrect`
with `GcdaInv`, for which counters are found by their rank off the spanning tree.
The assumption on the constant (`InputAssumption`) is that arcs come block by block
and that executions conserve flow: a block is left as often as it is entered.

**Reports** (every program whose symbols have one code in all executables, all
maps, every file of explanations, every file that cannot be opened). Two parts
carry the proofs.

- What is in the reports. `ScanInv` gives the two lists of every symbol in closed
  form, as a function of the phase and of the symbol in turn: nothing yet, the
  places in order with numbers but no lines, or all of it (`Record`). A place's
  number is its rank among the places of its symbol, ranges and branches
  together, behind all places of the symbols before (`IdBase`), so numbers are
  given once (`IdOne`); its lines are addr2line's answers at twice its place in
  the list (`LinedFacts`, which needs no more than that questions are written and
  read in one order). `ContentInv` says of each report written so far that it is
  a function of these lists (`Content`), `ExplainedInv` that the explanation files
  of the places listed hold the text for the line of that place, and no later
  report overwrites one with another text (`Right`). `FoundInv` bounds the
  explanations found from both sides: by what may be asked for, and by what the
  HTML reports already written have asked for, since the text reports may all
  fail. Their conjunction gives `ReportsTypeCorrect`, `LinesExact` and
  `NotFoundListExact`.
- What reports say of each other, once they are known functions of the same
  lists. The lists the reports go through are flattened lists of lists, and
  everything about them is said by position: element j of symbol i stands at
  `At(len, i, j)`, each position is of that form for one i and j (`AtFacts`,
  `AtOne`), and `FlattenSeq` puts it there (`FlattenIsJoined`). `EditionsTellTheSame`
  then goes heading by heading. `LinksLeadWhereTheySay` needs that a line of the
  assembly is annotated with the number of the place that starts there
  (`PlaceAnnotated`), that no second line has it (`OneLine`), and that an anchor is
  printed, that is, that the line before a range never has its verdict: it is the
  heading of the symbol, or the byte before the range was executed and with it, as
  a whole, the instruction of that line (`WholeInstruction`, `RunBegins`). For
  branches this is false, which is why the property allows `Hidden`.
  `CountsMatch` adds that a sum over all positions is the sum of the sums over each
  symbol (`SumFlat`), that the ranges are disjoint and hold exactly what was not
  executed (`RunsCover`, `RunsApart`), and that what a report leaves out, symbols
  wholly covered in one, symbols in no executable in another, has nothing to count.

The assumption on the constant (`InputAssumption`) is `SameCode`: every executable
held the same code of a symbol, so that its saved lines are the instructions of
its map, each executed as a whole. What becomes of maps when versions of a symbol
differ is a matter of `Covoar`.

**DoCoverage** (every set of tests and command lines, any number of invocations).
`PipelineInv` adds to the properties what the pipeline relies on between steps: a
dump that `FileIsNewer` takes for current is of the executable at hand (`Cached`),
what covoar is about to read can be read (`Pending`), nothing is read before the
reports are made (`Unread`), what BSP-tests holds it holds since it was last
emptied, and coverage is of the executable next to it unless that is a link of
an earlier invocation (`Recent`), and the archives of the configurations done
are there, unless tar failed on them, and whole (`Tarred`). What is proved of the
archives is no more than the script ensures: with tar's status ignored, an
invocation can end well without the archive of a configuration, or with a broken
one, and it can save an archive of the same minute that is not its own.

**FiniteLemmas** holds what several of these need of Min, Max, sums over finite
sets and the rank of a number in a set. Facts about all finite sets are proved by
looking at a smallest set they fail for (`SmallestSubset`, from the well-foundedness
of strict inclusion), facts about positions in a list by a least one
(`LeastNatural`), so that no proof needs an induction rule with an operator
parameter, which the provers cannot instantiate.

### Only model-checked

- `Termination`, `Finishes`, `ConversionEnds`: liveness under fairness is out of
  this prover's reach, and so is ENABLED.
- The four violated properties: a counterexample is their whole content.

## Plan

Every component with a state worth exploring is modelled, and every invariant the
runs check is proved. What is left:

1. The reports of a symbol whose unified map is shorter than it, which a longer
   version of the symbol can leave behind: `UncoveredScan` scans such maps,
   `Reports` has maps as long as their symbols.

## Not modelled

Layout and formatting of reports and the frames of the HTML index; the text of
instructions beyond their mnemonic; `determineLoadAddress`, whose result is an
input; the bits of a trace entry (`qemuTakenBit` and the like), which writer and
reader take from the same place; `qemu-dump-trace.c`, which prints a trace file;
`covmerge.cc`, `coverage_converter.cc` and the coverage writers, which the
Makefile no longer builds; the build, release and installation scripts,
sequential drivers of make and cvs; `commit`, which asks a person about each
directory; and the static analysis drivers. `PROJECT.json` gives the reason for each.
