------------------------------ MODULE Reports ------------------------------
(***************************************************************************)
(* covoar behind the merged coverage maps: the explanations a person wrote *)
(* are loaded, the uncovered ranges and branches get their identification  *)
(* numbers, addr2line finds their source lines, and GenerateReports writes *)
(* each report twice, as text and as HTML, then the summary and the list   *)
(* of explanations nobody asked for.  How a scan finds the uncovered bytes *)
(* of one symbol is the business of UncoveredScan; here the result is      *)
(* taken from the map.  A report is a record of what its opening wrote     *)
(* (the columns of a table, a remark) and its rows; the order of columns   *)
(* is kept, because the text report names each value and the HTML report   *)
(* only puts it under a heading written by another method.  Operators      *)
(* named Slip... are wrong variants of the definition that follows them;   *)
(* no specification uses them.                                             *)
(***************************************************************************)
EXTENDS Integers, Sequences, FiniteSets, SequencesExt

CONSTANTS
  Inputs,  (* what covoar may have before it: see InputAssumption           *)
  FileOf   (* the file part of each source line "file:number"               *)

(***************************************************************************)
(* A desired symbol: its saved lines (each instruction with the source     *)
(* line it was compiled from; the heading "offset <symbol>:" is always the *)
(* first and no instruction), and its unified map: starts of               *)
(* instructions, executed bytes, and for every branch how often it went    *)
(* either way.  The object file it came from was loaded at load.  Size 0   *)
(* stands for a symbol no executable holds.                                *)
(***************************************************************************)
CountType   == [taken : Nat, notTaken : Nat]
SourceLines == DOMAIN FileOf \cup {"unset"}
SavedLine   == [insn : BOOLEAN, offset : Nat, source : SourceLines]
States      == {"source", "executed", "neverExecuted", "branchTaken",
                "branchNotTaken"}
Reasons     == {"notExecuted", "alwaysTaken", "neverTaken"}
RangeRecord == [id : Nat, low : Nat, high : Nat, reason : Reasons, count : Nat,
                lowLine : SourceLines, highLine : SourceLines]

Insns(s) == {k \in DOMAIN s.lines : s.lines[k].insn}
SymbolType(s) ==
  /\ s.name \in STRING /\ s.base \in Nat /\ s.size \in Nat /\ s.load \in 0 .. s.base
  /\ s.lines \in Seq(SavedLine)
  /\ s.start \subseteq 0 .. s.size - 1 /\ s.exec \subseteq 0 .. s.size - 1
  /\ DOMAIN s.went \subseteq s.start
  /\ \A b \in DOMAIN s.went : s.went[b] \in CountType

\* Every executable held the same code of a symbol: its saved lines list the
\* instructions of the map in order, and each was executed as a whole.
SameCode(s) ==
  /\ s.size > 0 => s.lines # << >> /\ ~s.lines[1].insn /\ 0 \in s.start
  /\ {s.lines[k].offset : k \in Insns(s)} = s.start
  /\ \A j, k \in Insns(s) : j < k => s.lines[j].offset < s.lines[k].offset
  /\ \A b \in 1 .. s.size - 1 : b \in s.start \/ (b \in s.exec <=> b - 1 \in s.exec)

ASSUME InputAssumption ==
  \A in \in Inputs :
    /\ in.branchInfo \in BOOLEAN /\ in.asked \in BOOLEAN
    /\ in.explanations \in Seq(STRING)
    /\ Len(in.symbols) \in Nat \ {0} /\ DOMAIN in.symbols = 1 .. Len(in.symbols)
    /\ \A i \in DOMAIN in.symbols : SymbolType(in.symbols[i]) /\ SameCode(in.symbols[i])

VARIABLES
  in,            (* symbols, explanations file, BranchInfoAvailable         *)
  phase,         (* "explain", "compute", "source", "report" or an end      *)
  at,            (* the line of the explanations, or the symbol, in turn    *)
  expect,        (* explain: which part of an explanation comes next        *)
  entry,         (* explain: the Explanation being read                     *)
  explanations,  (* Explanations.set: classification and text by line       *)
  found,         (* the explanations with found = true                      *)
  lastId,        (* id_m: the last identification number given              *)
  ranges,        (* uncoveredRanges of each symbol                          *)
  branches,      (* uncoveredBranches of each symbol                        *)
  job,           (* the next of the files GenerateReports writes            *)
  lastState,     (* ReportsHtml.lastState_m, never initialised              *)
  files,         (* the reports by name, Absent while not written           *)
  explained,     (* the files explanation<id>.html                          *)
  missed         (* history: some file could not be opened                  *)

loading == << at, expect, entry, explanations >>
scanned == << lastId, ranges, branches >>
written == << files, explained, missed >>
vars == << in, phase, at, expect, entry, explanations, found, lastId, ranges,
           branches, job, lastState, files, explained, missed >>

Symbols    == in.symbols
Referenced == {i \in DOMAIN Symbols : Symbols[i].size > 0}

\* GenerateReports: every report as text, every report as HTML, the summary.
TextFiles == {"index.txt", "annotated.txt", "branch.txt", "uncovered.txt", "sizes.txt",
              "symbolSummary.txt", "summary.txt"}
Jobs == << "index.txt", "annotated.txt", "branch.txt", "uncovered.txt", "sizes.txt",
           "symbolSummary.txt", "index.html", "annotated.html", "branch.html",
           "uncovered.html", "sizes.html", "symbolSummary.html", "summary.txt" >>
FileNames == ToSet(Jobs) \cup
  {"no_range_uncovered.txt", "no_range_uncovered.html", "NotReferenced.html",
   "ExplanationsNotFound.txt"}

Absent  == [columns |-> << >>, rows |-> << >>, remark |-> "absent"]
NoEntry == [start |-> "none", class |-> "none", text |-> << >>]

Init ==
  /\ in \in Inputs
  /\ phase = IF in.asked THEN "explain" ELSE "compute"
  /\ at = 1 /\ expect = "start" /\ entry = NoEntry
  /\ explanations = [l \in {} |-> NoEntry] /\ found = {}
  /\ lastId = 0
  /\ ranges = [i \in DOMAIN in.symbols |-> << >>]
  /\ branches = [i \in DOMAIN in.symbols |-> << >>]
  /\ job = 1
  /\ lastState \in States \cup {"garbage"}
  /\ files = [n \in FileNames |-> Absent]
  /\ explained = [id \in {} |-> << >>] /\ missed = FALSE
-----------------------------------------------------------------------------
(***************************************************************************)
(* Explanations::load, one line of the file per step.  A line "+++" ends   *)
(* an explanation; blank lines separate them.                              *)
(***************************************************************************)
Line       == in.explanations[at]
IsBlank(l) == l = ""
IsEnd(l)   == l = "+++"

ReadStart ==
  /\ phase = "explain" /\ at <= Len(in.explanations) /\ expect = "start"
  /\ at' = at + 1
  /\ IF IsBlank(Line)
       THEN UNCHANGED << phase, expect, entry >>
       ELSE IF Line \in DOMAIN explanations
              THEN phase' = "exited" /\ UNCHANGED << expect, entry >>
              ELSE /\ entry' = [NoEntry EXCEPT !.start = Line]
                   /\ expect' = "classification"
                   /\ UNCHANGED phase
  /\ UNCHANGED << in, explanations, found, scanned, job, lastState, written >>

ReadClassification ==
  /\ phase = "explain" /\ at <= Len(in.explanations) /\ expect = "classification"
  /\ entry' = [entry EXCEPT !.class = Line]
  /\ expect' = "explanation"
  /\ at' = at + 1
  /\ UNCHANGED << in, phase, explanations, found, scanned, job, lastState, written >>

ReadExplanation ==
  /\ phase = "explain" /\ at <= Len(in.explanations) /\ expect = "explanation"
  /\ at' = at + 1
  /\ IF IsEnd(Line)
       THEN /\ explanations' = [l \in DOMAIN explanations \cup {entry.start} |->
                                  IF l = entry.start THEN entry ELSE explanations[l]]
            /\ entry' = NoEntry /\ expect' = "start"
       ELSE /\ entry' = [entry EXCEPT !.text = Append(@, Line)]
            /\ UNCHANGED << explanations, expect >>
  /\ UNCHANGED << in, phase, found, scanned, job, lastState, written >>

\* The file may only end between two explanations.
EndExplanations ==
  /\ phase = "explain" /\ at > Len(in.explanations)
  /\ phase' = IF expect = "start" THEN "compute" ELSE "exited"
  /\ at' = 1
  /\ UNCHANGED << in, expect, entry, explanations, found, scanned, job,
                  lastState, written >>

CannotReadExplanations ==
  /\ phase = "explain" /\ at = 1
  /\ phase' = "exited"
  /\ UNCHANGED << in, loading, found, scanned, job, lastState, written >>
-----------------------------------------------------------------------------
(***************************************************************************)
(* What computeUncovered finds in a map every instruction of which was     *)
(* executed as a whole: maximal runs of unexecuted bytes, and executed     *)
(* branches that always went the same way, in the order of their addresses.*)
(***************************************************************************)
Executed(s, b) == b \in s.exec
IsBranch(s, b) == b \in DOMAIN s.went
Always(s, b)   == IsBranch(s, b) /\ s.went[b].taken > 0 /\ s.went[b].notTaken = 0
Never(s, b)    == IsBranch(s, b) /\ s.went[b].taken = 0 /\ s.went[b].notTaken > 0

RunStarts(s) ==
  {b \in 0 .. s.size - 1 : ~Executed(s, b) /\ (b = 0 \/ Executed(s, b - 1))}
OneWay(s) == {b \in s.exec : Always(s, b) \/ Never(s, b)}
Starts(s) == RunStarts(s) \cup OneWay(s)

RunEnd(s, b) ==
  CHOOSE h \in b .. s.size - 1 : /\ \A x \in b .. h : ~Executed(s, x)
                                 /\ h = s.size - 1 \/ Executed(s, h + 1)
BranchEnd(s, b) ==
  CHOOSE h \in b .. s.size - 1 : /\ \A x \in b + 1 .. h : x \notin s.start
                                 /\ h = s.size - 1 \/ h + 1 \in s.start

\* Where b comes among the elements of S, and which one comes jth.
Rank(S, b)   == Cardinality({x \in S : x <= b})
Ranked(S, j) == CHOOSE b \in S : Rank(S, b) = j

\* CoverageRanges::add: one counter for the whole program, and no lines yet.
SlipNumber(s, b, last) == last + Rank(Starts(s), b) - 1
Number(s, b, last)     == last + Rank(Starts(s), b)
Uncovered(s, b, last) ==
  LET run == ~Executed(s, b)
      end == IF run THEN RunEnd(s, b) ELSE BranchEnd(s, b)
  IN  [id |-> Number(s, b, last), low |-> s.base + b, high |-> s.base + end,
       reason |-> IF run THEN "notExecuted" ELSE IF Always(s, b) THEN "alwaysTaken"
                                                 ELSE "neverTaken",
       count |-> IF run THEN Cardinality(s.start \cap b .. end) ELSE 1,
       lowLine |-> "unset", highLine |-> "unset"]
Listed(s, S, last) == [j \in 1 .. Cardinality(S) |-> Uncovered(s, Ranked(S, j), last)]

\* A symbol without a map is skipped: it has nothing to add.
ComputeUncovered ==
  /\ phase = "compute"
  /\ LET s == Symbols[at]
     IN  /\ ranges' = [ranges EXCEPT ![at] = Listed(s, RunStarts(s), lastId)]
         /\ branches' = [branches EXCEPT ![at] = Listed(s, OneWay(s), lastId)]
         /\ lastId' = lastId + Cardinality(Starts(s))
  /\ IF at = Len(Symbols) THEN phase' = "source" /\ at' = 1
                          ELSE at' = at + 1 /\ UNCHANGED phase
  /\ UNCHANGED << in, expect, entry, explanations, found, job, lastState, written >>
-----------------------------------------------------------------------------
(***************************************************************************)
(* findSourceForUncovered: determineSourceLines writes the low and the     *)
(* high address of every range to a file, has addr2line translate it, and  *)
(* reads two lines for each range in turn.  The status of the pipeline is  *)
(* that of dos2unix, so addr2line may have printed fewer lines than asked. *)
(***************************************************************************)
SlipQuestions(s, rs) ==
  [k \in 1 .. 2 * Len(rs) |->
     IF k % 2 = 1 THEN rs[(k + 1) \div 2].low ELSE rs[k \div 2].high]
Questions(s, rs) ==
  [k \in 1 .. 2 * Len(rs) |->
     (IF k % 2 = 1 THEN rs[(k + 1) \div 2].low ELSE rs[k \div 2].high) - s.load]

\* addr2line knows addresses as they were linked.
InsnAt(s, b) ==
  CHOOSE l \in ToSet(s.lines) :
    /\ l.insn /\ l.offset <= b
    /\ \A k \in ToSet(s.lines) : k.insn /\ k.offset <= b => k.offset <= l.offset
UnknownLine == "??:0"
Addr2line(s, asked) ==
  [k \in DOMAIN asked |->
     IF asked[k] \in s.base - s.load .. s.base - s.load + s.size - 1
       THEN InsnAt(s, asked[k] - (s.base - s.load)).source
       ELSE UnknownLine]

WithLines(rs, answer) ==
  [i \in DOMAIN rs |-> [rs[i] EXCEPT !.lowLine = answer[2 * i - 1],
                                     !.highLine = answer[2 * i]]]
Lined(s, rs) == WithLines(rs, Addr2line(s, Questions(s, rs)))

FindSource(complete) ==
  IF complete
    THEN /\ ranges' = [ranges EXCEPT ![at] = Lined(Symbols[at], @)]
         /\ branches' = [branches EXCEPT ![at] = Lined(Symbols[at], @)]
         /\ phase' = IF at = Len(Symbols) THEN "report" ELSE "source"
         /\ at' = IF at = Len(Symbols) THEN 1 ELSE at + 1
    ELSE /\ Len(ranges[at]) + Len(branches[at]) > 0
         /\ phase' = "exited"
         /\ UNCHANGED << ranges, branches, at >>

FindSourceForUncovered ==
  /\ phase = "source"
  /\ \E complete \in BOOLEAN : FindSource(complete)
  /\ UNCHANGED << in, expect, entry, explanations, found, lastId, job, lastState,
                  written >>
-----------------------------------------------------------------------------
(***************************************************************************)
(* Opening and closing files.  Any fopen may fail: the text report is then *)
(* skipped, while the HTML report writes to the null pointer it got (what  *)
(* that page and the pages of this report hold by then is left open).      *)
(***************************************************************************)
Table(columns, rows) == [columns |-> columns, rows |-> rows, remark |-> "none"]
Put(name, content)   == files' = [files EXCEPT ![name] = content]

Turn(name)  == phase = "report" /\ job <= Len(Jobs) /\ Jobs[job] = name
JobDone     == job' = job + 1
AllDone     == phase = "report" /\ job > Len(Jobs)
reportInput == << in, loading, scanned >>

CannotOpen ==
  /\ phase = "report" /\ job <= Len(Jobs) /\ Jobs[job] # "index.txt"
  /\ missed' = TRUE
  /\ IF Jobs[job] \in TextFiles THEN JobDone /\ UNCHANGED phase
                                ELSE phase' = "crashed" /\ UNCHANGED job
  /\ UNCHANGED << reportInput, found, lastState, files, explained >>

\* The list of uncovered places a report goes through, symbol by symbol.
Places(of) ==
  FlattenSeq([i \in DOMAIN Symbols |->
                [k \in DOMAIN of[i] |-> [symbol |-> Symbols[i], range |-> of[i][k]]]])

\* Explanations::lookupExplanation marks what it finds.
HasExplanation(r)   == r.lowLine \in DOMAIN explanations
ExplainedIn(places) == {p \in ToSet(places) : HasExplanation(p.range)}
SlipLookUp(places)  == found' = found
LookUp(places)      == found' = found \cup {p.range.lowLine : p \in ExplainedIn(places)}

\* ReportsHtml::WriteExplationFile, one file for each explained place.
ExplanationFiles(places) ==
  LET ids == {p.range.id : p \in ExplainedIn(places)}
  IN  explained' =
        [id \in DOMAIN explained \cup ids |->
           IF id \in ids
             THEN explanations[(CHOOSE p \in ExplainedIn(places) :
                                  p.range.id = id).range.lowLine].text
             ELSE explained[id]]

SizeOf(r) == r.high - r.low + 1
Percent(n, d, ofNone) == IF d = 0 THEN ofNone ELSE (100 * n) \div d
-----------------------------------------------------------------------------
(***************************************************************************)
(* The index and the annotated assembly.                                   *)
(***************************************************************************)
\* The links of the index; ExplanationsNotFound.txt is always among them,
\* whether it will be written or not.
IndexLinks ==
  << "summary.txt", "uncovered.html", "uncovered.txt", "branch.html", "branch.txt",
     "annotated.html", "annotated.txt", "symbolSummary.html", "symbolSummary.txt",
     "sizes.html", "sizes.txt", "ExplanationsNotFound.txt" >>

WriteTextIndex ==
  /\ Turn("index.txt")
  /\ JobDone
  /\ UNCHANGED << reportInput, phase, found, lastState, written >>

WriteHtmlIndex ==
  /\ Turn("index.html")
  /\ Put("index.html", Table(<< >>, IndexLinks))
  /\ JobDone
  /\ UNCHANGED << reportInput, phase, found, lastState, explained, missed >>

\* CoverageRanges::getId: 0 when no range starts at the address.
GetId(rs, address) ==
  IF \E i \in DOMAIN rs : rs[i].low = address
    THEN rs[CHOOSE i \in DOMAIN rs : /\ rs[i].low = address
                                     /\ \A k \in 1 .. i - 1 : rs[k].low # address].id
    ELSE 0

\* How one line is annotated; an executed branch that went both ways keeps the
\* state of source text.
BranchState(s, b) ==
  CASE Always(s, b) -> "branchTaken"
    [] Never(s, b)  -> "branchNotTaken"
    [] OTHER        -> "source"

SlipAnnotated(i, l) ==
  LET s == Symbols[i]
      x == s.base + l.offset
      Is(state, id) == [symbol |-> s.name, state |-> state, id |-> id]
  IN  IF ~l.insn THEN Is("source", 0)
      ELSE IF ~Executed(s, l.offset) THEN Is("neverExecuted", GetId(ranges[i], x))
      ELSE IF IsBranch(s, l.offset) THEN Is(BranchState(s, l.offset), GetId(ranges[i], x))
      ELSE Is("executed", 0)
Annotated(i, l) ==
  LET s == Symbols[i]
      x == s.base + l.offset
      Is(state, id) == [symbol |-> s.name, state |-> state, id |-> id]
  IN  IF ~l.insn THEN Is("source", 0)
      ELSE IF ~Executed(s, l.offset) THEN Is("neverExecuted", GetId(ranges[i], x))
      ELSE IF IsBranch(s, l.offset) THEN Is(BranchState(s, l.offset), GetId(branches[i], x))
      ELSE Is("executed", 0)

\* Symbols without a map, and those that are wholly covered, are left out.
AnnotatedLines ==
  FlattenSeq([i \in DOMAIN Symbols |->
     IF Len(ranges[i]) + Len(branches[i]) = 0 THEN << >>
     ELSE [k \in DOMAIN Symbols[i].lines |-> Annotated(i, Symbols[i].lines[k])]])

WriteTextAnnotated ==
  /\ Turn("annotated.txt")
  /\ Put("annotated.txt", Table(<< >>, AnnotatedLines))
  /\ JobDone
  /\ UNCHANGED << reportInput, phase, found, lastState, explained, missed >>

\* PutAnnotatedLine writes an anchor only when the state changes; 0 stands for
\* no anchor as well as for the anchor "range0".
Marked == {"neverExecuted", "branchTaken", "branchNotTaken"}
Anchor(L, k) ==
  IF L[k].state \in Marked /\ L[k].state # IF k = 1 THEN lastState ELSE L[k - 1].state
    THEN L[k].id ELSE 0
HtmlAnnotatedLines(L) ==
  [k \in DOMAIN L |-> << L[k].symbol, L[k].state, Anchor(L, k) >>]

WriteHtmlAnnotated ==
  /\ Turn("annotated.html")
  /\ Put("annotated.html", Table(<< >>, HtmlAnnotatedLines(AnnotatedLines)))
  /\ lastState' = IF Len(AnnotatedLines) = 0 THEN lastState ELSE Last(AnnotatedLines).state
  /\ JobDone
  /\ UNCHANGED << reportInput, phase, found, explained, missed >>
-----------------------------------------------------------------------------
(***************************************************************************)
(* The branch report.                                                      *)
(***************************************************************************)
BranchesExecuted(s)    == DOMAIN s.went \cap s.exec
BranchesNotExecuted(s) == DOMAIN s.went \ s.exec
NumberBranchesFound ==
  SumFunctionOnSet([i \in DOMAIN Symbols |-> Cardinality(DOMAIN Symbols[i].went)],
                   Referenced)
HasBranches  == NumberBranchesFound # 0 /\ in.branchInfo
BranchRemark == IF HasBranches THEN "none" ELSE IF in.branchInfo THEN "allTaken"
                                                ELSE "noneFound"
BranchPlaces == IF HasBranches THEN Places(branches) ELSE << >>

\* What both editions look up; the HTML one links to the file with the number
\* of the range, or to none (0).
Classification(r)  == IF HasExplanation(r) THEN explanations[r.lowLine].class ELSE "NONE"
ExplanationText(r) == IF HasExplanation(r) THEN explanations[r.lowLine].text ELSE << >>
ExplanationLink(r) == IF HasExplanation(r) THEN r.id ELSE 0

TextBranchEntry(p) ==
  [symbol |-> p.symbol.name, line |-> p.range.lowLine, size |-> SizeOf(p.range),
   reason |-> p.range.reason, class |-> Classification(p.range),
   text |-> ExplanationText(p.range)]

WriteTextBranch ==
  /\ Turn("branch.txt")
  /\ Put("branch.txt",
         [columns |-> << >>, remark |-> BranchRemark,
          rows |-> [k \in DOMAIN BranchPlaces |-> TextBranchEntry(BranchPlaces[k])]])
  /\ LookUp(BranchPlaces)
  /\ JobDone
  /\ UNCHANGED << reportInput, phase, lastState, explained, missed >>

\* OpenBranchFile: the heading row of the table, if there will be one.
BranchColumns ==
  << "Symbol", "Line", "File", "Size", "Reason", "Taken", "NotTaken",
     "Classification", "Explanation" >>

Link(r) == << r.id, r.lowLine >>

\* There is no cell for the reason "notExecuted".
HtmlBranchEntry(p) ==
  LET r == p.range
      w == p.symbol.went[r.low - p.symbol.base]
  IN  IF r.reason = "notExecuted"
        THEN << p.symbol.name, Link(r), FileOf[r.lowLine], SizeOf(r),
                w.taken, w.notTaken, Classification(r), ExplanationLink(r) >>
        ELSE << p.symbol.name, Link(r), FileOf[r.lowLine], SizeOf(r), r.reason,
                w.taken, w.notTaken, Classification(r), ExplanationLink(r) >>

WriteHtmlBranch ==
  /\ Turn("branch.html")
  /\ Put("branch.html",
         [columns |-> IF HasBranches THEN BranchColumns ELSE << >>,
          remark |-> BranchRemark,
          rows |-> [k \in DOMAIN BranchPlaces |-> HtmlBranchEntry(BranchPlaces[k])]])
  /\ ExplanationFiles(BranchPlaces)
  /\ LookUp(BranchPlaces)
  /\ JobDone
  /\ UNCHANGED << reportInput, phase, lastState, missed >>
-----------------------------------------------------------------------------
(***************************************************************************)
(* The coverage report, with the list of symbols no executable held.       *)
(***************************************************************************)
Unreferenced == {i \in DOMAIN Symbols : Symbols[i].size = 0}

\* What the loop over the symbols has to write: one entry for a symbol without
\* a map, one for each range of the others.
Entries ==
  FlattenSeq([i \in DOMAIN Symbols |->
     IF i \in Unreferenced
       THEN << [symbol |-> Symbols[i], listed |-> FALSE] >>
       ELSE [k \in DOMAIN ranges[i] |->
               [symbol |-> Symbols[i], listed |-> TRUE, range |-> ranges[i][k]]]])

\* putCoverageNoRange also writes the symbol to a file of its own.
NoRangeNames ==
  [k \in 1 .. Cardinality(Unreferenced) |-> Symbols[Ranked(Unreferenced, k)].name]

TextNoRange(name) == [symbol |-> name, index |-> 0]
TextCoverageLine(e) ==
  IF e.listed
    THEN [symbol |-> e.symbol.name, index |-> e.range.id, low |-> e.range.lowLine,
          high |-> e.range.highLine, size |-> SizeOf(e.range), count |-> e.range.count,
          class |-> Classification(e.range), text |-> ExplanationText(e.range)]
    ELSE TextNoRange(e.symbol.name)

WriteTextCoverage ==
  /\ Turn("uncovered.txt")
  /\ files' = [files EXCEPT
       !["uncovered.txt"] =
          Table(<< >>, [k \in DOMAIN Entries |-> TextCoverageLine(Entries[k])]),
       !["no_range_uncovered.txt"] =
          Table(<< >>, [k \in DOMAIN NoRangeNames |-> TextNoRange(NoRangeNames[k])])]
  /\ LookUp(Places(ranges))
  /\ JobDone
  /\ UNCHANGED << reportInput, phase, lastState, explained, missed >>

\* The no-range file is opened first; if only the second fopen fails, it stays
\* behind empty, for nothing was written to it yet.
OnlyNoRangeOpened ==
  /\ Turn("uncovered.txt")
  /\ Put("no_range_uncovered.txt", Table(<< >>, << >>))
  /\ missed' = TRUE
  /\ JobDone
  /\ UNCHANGED << reportInput, phase, found, lastState, explained >>

CoverageColumns ==
  << "Symbol", "Range", "File", "Size", "Instructions", "Classification", "Explanation" >>
NoRangeColumns == << "Symbol" >>

\* The link "No data" leads to a page all symbols without a map write anew.
SlipHtmlCoverageLine(e) ==
  IF e.listed
    THEN << e.symbol.name, << e.range.id, e.range.lowLine, e.range.highLine >>,
            FileOf[e.range.lowLine], e.range.count, SizeOf(e.range),
            Classification(e.range), ExplanationLink(e.range) >>
    ELSE << e.symbol.name, << 0, "unknown" >>, "unknown", "unknown", "unknown", "Unknown", 0 >>
HtmlCoverageLine(e) ==
  IF e.listed
    THEN << e.symbol.name, << e.range.id, e.range.lowLine, e.range.highLine >>,
            FileOf[e.range.lowLine], SizeOf(e.range), e.range.count,
            Classification(e.range), ExplanationLink(e.range) >>
    ELSE << e.symbol.name, << 0, "unknown" >>, "unknown", "unknown", "unknown", "Unknown", 0 >>

WriteHtmlCoverage ==
  /\ Turn("uncovered.html")
  /\ files' = [files EXCEPT
       !["uncovered.html"] =
          Table(CoverageColumns, [k \in DOMAIN Entries |-> HtmlCoverageLine(Entries[k])]),
       !["no_range_uncovered.html"] =
          Table(NoRangeColumns, [k \in DOMAIN NoRangeNames |-> << NoRangeNames[k] >>]),
       !["NotReferenced.html"] = IF Unreferenced = {} THEN @ ELSE Table(<< >>, << >>)]
  /\ ExplanationFiles(Places(ranges))
  /\ LookUp(Places(ranges))
  /\ JobDone
  /\ UNCHANGED << reportInput, phase, lastState, missed >>
-----------------------------------------------------------------------------
(***************************************************************************)
(* Sizes and symbols.                                                      *)
(***************************************************************************)
TextSizeLine(p) == << SizeOf(p.range), p.symbol.name, p.range.lowLine >>

SizeColumns == << "Size", "Symbol", "Line", "File" >>
HtmlSizeLine(p) ==
  << SizeOf(p.range), p.symbol.name, Link(p.range), FileOf[p.range.lowLine] >>

WriteTextSize ==
  /\ Turn("sizes.txt")
  /\ LET P == Places(ranges)
     IN  Put("sizes.txt", Table(<< >>, [k \in DOMAIN P |-> TextSizeLine(P[k])]))
  /\ JobDone
  /\ UNCHANGED << reportInput, phase, found, lastState, explained, missed >>

WriteHtmlSize ==
  /\ Turn("sizes.html")
  /\ LET P == Places(ranges)
     IN  Put("sizes.html", Table(SizeColumns, [k \in DOMAIN P |-> HtmlSizeLine(P[k])]))
  /\ JobDone
  /\ UNCHANGED << reportInput, phase, found, lastState, explained, missed >>

\* The statistics of a symbol, as calculateStatistics leaves them.
Statistics(i) ==
  LET s == Symbols[i] IN
    [bytes |-> s.size, instructions |-> Cardinality(s.start),
     ranges |-> Len(ranges[i]),
     uncoveredBytes |-> s.size - Cardinality(s.exec),
     uncoveredInstructions |-> Cardinality(s.start \ s.exec),
     branches |-> Cardinality(BranchesExecuted(s)) + Cardinality(BranchesNotExecuted(s)),
     always |-> Cardinality({b \in s.exec : Always(s, b)}),
     never |-> Cardinality({b \in s.exec : Never(s, b)})]

TextSymbolSummaryLine(i) ==
  LET t == Statistics(i) IN
    [symbol |-> Symbols[i].name, bytes |-> t.bytes, instructions |-> t.instructions,
     branches |-> t.branches, always |-> t.always, never |-> t.never,
     perInstructions |-> Percent(t.uncoveredInstructions, t.instructions, 0),
     perBytes |-> Percent(t.uncoveredBytes, t.bytes, 0)]

SymbolSummaryColumns ==
  << "Symbol", "Bytes", "Instr", "Ranges", "UncoveredBytes", "UncoveredInstr",
     "Branches", "Always", "Never", "PercentInstructions", "PercentBytes" >>
HtmlSymbolSummaryLine(i) ==
  LET t == Statistics(i) IN
    << Symbols[i].name, t.bytes, t.instructions, t.ranges, t.uncoveredBytes,
       t.uncoveredInstructions, t.branches, t.always, t.never,
       Percent(t.uncoveredInstructions, t.instructions, 100),
       Percent(t.uncoveredBytes, t.bytes, 100) >>

WriteTextSymbolSummary ==
  /\ Turn("symbolSummary.txt")
  /\ Put("symbolSummary.txt",
         Table(<< >>, [i \in DOMAIN Symbols |-> TextSymbolSummaryLine(i)]))
  /\ JobDone
  /\ UNCHANGED << reportInput, phase, found, lastState, explained, missed >>

WriteHtmlSymbolSummary ==
  /\ Turn("symbolSummary.html")
  /\ Put("symbolSummary.html",
         Table(SymbolSummaryColumns, [i \in DOMAIN Symbols |-> HtmlSymbolSummaryLine(i)]))
  /\ JobDone
  /\ UNCHANGED << reportInput, phase, found, lastState, explained, missed >>
-----------------------------------------------------------------------------
(***************************************************************************)
(* The summary counts bytes on its own; the last file lists explanations.  *)
(***************************************************************************)
SlipNotExecuted(s) == Cardinality({b \in 0 .. s.size - 2 : ~Executed(s, b)})
NotExecuted(s)     == Cardinality({b \in 0 .. s.size - 1 : ~Executed(s, b)})

OverReferenced(f) == SumFunctionOnSet(f, Referenced)
Summary ==
  [totalBytes  |-> OverReferenced([i \in DOMAIN Symbols |-> Symbols[i].size]),
   notExecuted |-> OverReferenced([i \in DOMAIN Symbols |-> NotExecuted(Symbols[i])]),
   ranges      |-> OverReferenced([i \in DOMAIN Symbols |-> Len(ranges[i])]),
   hasBranches |-> HasBranches,
   branches    |-> NumberBranchesFound,
   always      |-> OverReferenced([i \in DOMAIN Symbols |-> Statistics(i).always]),
   never       |-> OverReferenced([i \in DOMAIN Symbols |-> Statistics(i).never])]

WriteSummary ==
  /\ Turn("summary.txt")
  /\ Put("summary.txt", Table(<< >>, << Summary >>))
  /\ JobDone
  /\ UNCHANGED << reportInput, phase, found, lastState, explained, missed >>

\* Explanations::writeNotFound: the file is written and, if it stayed empty,
\* removed.  A file that cannot be opened is written to all the same.
NotFoundFile == "ExplanationsNotFound.txt"
WriteNotFound ==
  /\ AllDone /\ in.asked
  /\ LET rest == DOMAIN explanations \ found
     IN  \/ /\ phase' = "done" /\ UNCHANGED missed
            /\ IF rest = {} THEN UNCHANGED files
                            ELSE Put(NotFoundFile, Table(<< >>, SetToSeq(rest)))
         \/ /\ phase' = "crashed" /\ missed' = TRUE /\ UNCHANGED files
  /\ UNCHANGED << reportInput, found, job, lastState, explained >>

NothingAsked ==
  /\ AllDone /\ ~in.asked
  /\ phase' = "done"
  /\ UNCHANGED << reportInput, found, job, lastState, written >>

Next ==
  \/ ReadStart \/ ReadClassification \/ ReadExplanation
  \/ EndExplanations \/ CannotReadExplanations
  \/ ComputeUncovered \/ FindSourceForUncovered
  \/ CannotOpen \/ OnlyNoRangeOpened
  \/ WriteTextIndex \/ WriteTextAnnotated \/ WriteTextBranch \/ WriteTextCoverage
  \/ WriteTextSize \/ WriteTextSymbolSummary
  \/ WriteHtmlIndex \/ WriteHtmlAnnotated \/ WriteHtmlBranch \/ WriteHtmlCoverage
  \/ WriteHtmlSize \/ WriteHtmlSymbolSummary
  \/ WriteSummary \/ WriteNotFound \/ NothingAsked

Spec == Init /\ [][Next]_vars
-----------------------------------------------------------------------------
(***************************************************************************)
(* Types.  Identification numbers in use never exceed id_m, and only       *)
(* explanations that were loaded are found.                                *)
(***************************************************************************)
Recorded(i) == ToSet(ranges[i]) \cup ToSet(branches[i])

TypeOK ==
  /\ phase \in {"explain", "compute", "source", "report", "done", "exited", "crashed"}
  /\ expect \in {"start", "classification", "explanation"}
  /\ lastId \in Nat
  /\ \A i \in DOMAIN Symbols : \A r \in Recorded(i) :
       r \in RangeRecord /\ r.id \in 1 .. lastId /\ r.low <= r.high
  /\ found \subseteq DOMAIN explanations
  /\ job \in 1 .. Len(Jobs) + 1
  /\ lastState \in States \cup {"garbage"}
  /\ DOMAIN files = FileNames
  /\ missed \in BOOLEAN

Complete     == phase = "done" /\ ~missed
Rows(name)   == files[name].rows
Exists(name) == files[name] # Absent

(***************************************************************************)
(* The line shown for a range or branch is the source line of its first    *)
(* and of its last instruction, wherever its object file was loaded, and   *)
(* although the answers of addr2line are told apart by their order only    *)
(* (DesiredSymbols.cc 437-446 against 488-525); no report is written when  *)
(* an answer is missing.                                                   *)
(***************************************************************************)
SourceExact ==
  phase \in {"report", "done"} =>
    \A i \in DOMAIN Symbols : \A r \in Recorded(i) :
      LET s == Symbols[i] IN
        /\ r.lowLine = InsnAt(s, r.low - s.base).source
        /\ r.highLine = InsnAt(s, r.high - s.base).source

(***************************************************************************)
(* The text and the HTML edition of a report tell the same: what stands    *)
(* under a heading of the HTML table, written when the file was opened, is *)
(* what the text edition calls by that name, in the same order, the        *)
(* explanation read through its link (ReportsText.cc against               *)
(* ReportsHtml.cc).  The exception is the percentage of a symbol of no     *)
(* size: 0 in one, 100 in the other.                                       *)
(***************************************************************************)
Cell(name, k, column) ==
  LET t == files[name]
  IN  t.rows[k][CHOOSE c \in DOMAIN t.columns : t.columns[c] = column]
Explained(id) == IF id = 0 THEN << >> ELSE explained[id]

\* Row by row, and in HTML as many cells as headings.
SameTable(text, html) ==
  /\ files[text].remark = files[html].remark
  /\ Len(Rows(text)) = Len(Rows(html))
  /\ \A k \in DOMAIN Rows(text) : Len(Rows(html)[k]) = Len(files[html].columns)

BranchAgrees(k) ==
  LET C(column) == Cell("branch.html", k, column) IN
    Rows("branch.txt")[k] =
      [symbol |-> C("Symbol"), line |-> C("Line")[2], size |-> C("Size"),
       reason |-> C("Reason"), class |-> C("Classification"),
       text |-> Explained(C("Explanation"))]
CoverageAgrees(k) ==
  LET C(column) == Cell("uncovered.html", k, column)
      row       == Rows("uncovered.txt")[k]
  IN  IF row.index = 0
        THEN row.symbol = C("Symbol") /\ C("Range")[1] = 0
        ELSE row = [symbol |-> C("Symbol"), index |-> C("Range")[1],
                    low |-> C("Range")[2], high |-> C("Range")[3],
                    size |-> C("Size"), count |-> C("Instructions"),
                    class |-> C("Classification"), text |-> Explained(C("Explanation"))]
NoRangeAgrees(k) ==
  Rows("no_range_uncovered.txt")[k].symbol = Cell("no_range_uncovered.html", k, "Symbol")
SizesAgree(k) ==
  LET C(column) == Cell("sizes.html", k, column) IN
    Rows("sizes.txt")[k] = << C("Size"), C("Symbol"), C("Line")[2] >>
SymbolsAgree(k) ==
  LET C(column)   == Cell("symbolSummary.html", k, column)
      row         == Rows("symbolSummary.txt")[k]
      Of(percent) == IF row.bytes = 0 THEN 0 ELSE C(percent)
  IN  row = [symbol |-> C("Symbol"), bytes |-> C("Bytes"), instructions |-> C("Instr"),
             branches |-> C("Branches"), always |-> C("Always"), never |-> C("Never"),
             perInstructions |-> Of("PercentInstructions"),
             perBytes |-> Of("PercentBytes")]

EditionsAgree ==
  Complete =>
    /\ SameTable("branch.txt", "branch.html")
    /\ \A k \in DOMAIN Rows("branch.txt") : BranchAgrees(k)
    /\ SameTable("uncovered.txt", "uncovered.html")
    /\ \A k \in DOMAIN Rows("uncovered.txt") : CoverageAgrees(k)
    /\ SameTable("no_range_uncovered.txt", "no_range_uncovered.html")
    /\ \A k \in DOMAIN Rows("no_range_uncovered.txt") : NoRangeAgrees(k)
    /\ SameTable("sizes.txt", "sizes.html")
    /\ \A k \in DOMAIN Rows("sizes.txt") : SizesAgree(k)
    /\ SameTable("symbolSummary.txt", "symbolSummary.html")
    /\ \A k \in DOMAIN Rows("symbolSummary.txt") : SymbolsAgree(k)

(***************************************************************************)
(* The reports count the same things.  The summary, which walks the maps   *)
(* itself, agrees with the rows of the other reports and with the          *)
(* annotations of the assembly (ReportsBase.cc 409-495 against the loops   *)
(* of 145-360): bytes analysed and not executed, ranges, branches of       *)
(* either kind, instructions never executed.                               *)
(***************************************************************************)
AnnotatedAs(states) ==
  Cardinality({k \in DOMAIN Rows("annotated.txt") :
                 Rows("annotated.txt")[k].state \in states})

CountsAgree ==
  Complete =>
    LET S      == Rows("summary.txt")[1]
        symbol == Rows("symbolSummary.txt")
        size   == Rows("sizes.txt")
        range  == Rows("uncovered.txt")
        listed == {k \in DOMAIN range : range[k].index # 0}
    IN  /\ S.totalBytes = SumFunction([k \in DOMAIN symbol |-> symbol[k].bytes])
        /\ S.notExecuted = SumFunction([k \in DOMAIN size |-> size[k][1]])
        /\ S.ranges = Cardinality(listed) /\ S.ranges = Len(size)
        /\ S.branches = SumFunction([k \in DOMAIN symbol |-> symbol[k].branches])
        /\ S.hasBranches => S.always + S.never = Len(Rows("branch.txt"))
        /\ S.always + S.never = AnnotatedAs({"branchTaken", "branchNotTaken"})
        /\ AnnotatedAs({"neverExecuted"}) =
             SumFunction([k \in listed |-> range[k].count])

(***************************************************************************)
(* Every link leads to what it names: those of the index (but for the list *)
(* of explanations not found, which may not exist) to a report; those of   *)
(* a range to the one line of the annotated assembly where that range      *)
(* starts; those of an explanation to the explanation of that very line,   *)
(* never to that of another place with the same number.  A branch has no   *)
(* anchor when the line before it is a branch with the same verdict        *)
(* (ReportsHtml.cc 480-486), and only then.                                *)
(***************************************************************************)
AnchorOf(id)  == {k \in DOMAIN Rows("annotated.html") : Rows("annotated.html")[k][3] = id}
LeadsTo(id, symbol, states) ==
  \E k \in DOMAIN Rows("annotated.html") :
    /\ AnchorOf(id) = {k}
    /\ Rows("annotated.html")[k][1] = symbol
    /\ Rows("annotated.html")[k][2] \in states
Hidden(id) ==
  /\ AnchorOf(id) = {}
  /\ \E k \in 2 .. Len(Rows("annotated.txt")) :
       LET L == Rows("annotated.txt") IN L[k].id = id /\ L[k].state = L[k - 1].state

\* The explanation linked from a row is the one of the line the row shows.
Explains(id, line) == id # 0 => explained[id] = explanations[line].text

LinksResolve ==
  Complete =>
    LET U == Rows("uncovered.html")
        B == Rows("branch.html")
        S == Rows("sizes.html")
    IN  /\ \A n \in ToSet(Rows("index.html")) \ {NotFoundFile} : Exists(n)
        /\ \A k \in DOMAIN U :
             IF U[k][2][1] = 0 THEN Exists("NotReferenced.html")
                               ELSE /\ LeadsTo(U[k][2][1], U[k][1], {"neverExecuted"})
                                    /\ Explains(U[k][7], U[k][2][2])
        /\ \A k \in DOMAIN S : LeadsTo(S[k][3][1], S[k][2], {"neverExecuted"})
        /\ \A k \in DOMAIN B :
             /\ \/ LeadsTo(B[k][2][1], B[k][1], {"branchTaken", "branchNotTaken"})
                \/ Hidden(B[k][2][1])
             /\ Explains(B[k][9], B[k][2][2])

(***************************************************************************)
(* ExplanationsNotFound.txt lists exactly the explanations nothing asked   *)
(* for: no uncovered range starts at their line and, if branches were      *)
(* reported at all, no uncovered branch; it does not exist when there are  *)
(* none.  Text reports that could not be written do not change that        *)
(* (Explanations.cc 127-188, and the reports' calls of lookupExplanation). *)
(***************************************************************************)
LinesOf(recorded) ==
  UNION {{r.lowLine : r \in ToSet(recorded[i])} : i \in DOMAIN Symbols}
AskedFor == LinesOf(ranges) \cup (IF HasBranches THEN LinesOf(branches) ELSE {})

NotFoundExact ==
  (phase = "done" /\ in.asked) =>
    LET unused == DOMAIN explanations \ AskedFor
    IN  IF unused = {} THEN ~Exists(NotFoundFile)
                       ELSE Exists(NotFoundFile) /\ ToSet(Rows(NotFoundFile)) = unused
=============================================================================
