----------------------------- MODULE DoCoverage -----------------------------
(***************************************************************************)
(* Invocations of do_coverage, one after the other, over directories that  *)
(* outlive them: the RTEMS build tree b-BSP, the directory BSP-tests with  *)
(* the executables, their coverage files, covoar's cached disassemblies    *)
(* (ObjdumpProcessor::getFile) and the tarballs of results, and the        *)
(* directory tarballs are saved in.  An invocation does the steps its      *)
(* options ask for.  Which steps stop the script when they fail, and what  *)
(* an invocation leaves behind, is what this module is about; what covoar  *)
(* computes is in the other modules.  Operators named Slip... are wrong    *)
(* variants of the definition that follows them.                           *)
(***************************************************************************)
EXTENDS Integers, Sequences

CONSTANTS
  Tests,          (* the test programs                                      *)
  CommandLines,   (* sets of options: see Option                            *)
  MaxInvocations  (* bound on the number of invocations                     *)

\* The do_... variables that are "yes"; "out" is a directory given with -O.
Option == {"update", "configure", "build", "copy", "link", "run", "reports",
           "core", "developmental", "out", "publish", "save"}

ASSUME CommandLineAssumption == CommandLines \subseteq SUBSET Option
ASSUME BoundAssumption       == MaxInvocations \in Nat

(***************************************************************************)
(* A file's stamp is its modification time; all builds have different      *)
(* times, so the time of its build, 0 for none, tells an executable from   *)
(* its successors.                                                         *)
(***************************************************************************)
VARIABLES
  now,         (* the clock                                                 *)
  invocation,  (* how many invocations there were, this one included        *)
  opt, start,  (* the options of this one and when it started               *)
  pc,          (* its next step, or "exit0" or "exit1"                      *)
  toAnalyze,   (* ${to_analyze}, what is left of it                         *)
  configured,  (* whether b-BSP is configured                               *)
  built,       (* b-BSP: when each test was built                           *)
  tests,       (* BSP-tests: each executable, a link or a copy              *)
  cov,         (* BSP-tests: each coverage file                             *)
  dmp,         (* BSP-tests: each cached disassembly                        *)
  todo,        (* covoar: the executables it has not yet disassembled       *)
  items,       (* covoar: what it read for the others                       *)
  tarballs,    (* BSP-tests: archives of results                            *)
  saved,       (* TARDIR and FTPDIR: archives of results                    *)
  emptied,     (* history: the last invocation to empty BSP-tests           *)
  tarFailed    (* history: configurations tar failed on in this invocation  *)

thisRun == << invocation, opt, start >>
files == << configured, built, tests, cov, dmp, tarballs, saved >>
covoar == << todo, items >>
history == << emptied, tarFailed >>
vars  == << now, thisRun, pc, toAnalyze, files, covoar, history >>

NoExe  == [link |-> FALSE, of |-> 0, stamp |-> 0]
NoCov  == [of |-> 0, by |-> 0]
NoDump == [of |-> 0, by |-> 0, cut |-> "no", stamp |-> 0]

\* An executable in BSP-tests as stat and objdump see it: through the link.
Exe(t)      == IF tests[t].link THEN [of |-> built[t], stamp |-> built[t]]
                                ELSE [of |-> tests[t].of, stamp |-> tests[t].stamp]
Readable(t) == Exe(t).of # 0

Init ==
  /\ now = 1 /\ invocation = 0 /\ opt = {} /\ start = 0
  /\ pc = "exit0" /\ toAnalyze = {}
  /\ configured = FALSE /\ built = [t \in Tests |-> 0]
  /\ tests = [t \in Tests |-> NoExe]
  /\ cov = [t \in Tests |-> NoCov] /\ dmp = [t \in Tests |-> NoDump]
  /\ todo = {} /\ items = {} /\ tarballs = {} /\ saved = {}
  /\ emptied = 0 /\ tarFailed = {}
-----------------------------------------------------------------------------
(***************************************************************************)
(* The steps up to the test runs.  Each step passes on to the next, whose  *)
(* option may turn it off.                                                 *)
(***************************************************************************)
Steps == << "configure", "build", "copy", "run", "reports" >>

\* A new invocation, at once or later; it cleans up if it is going to update
\* or configure.
Start ==
  /\ pc \in {"exit0", "exit1"} /\ invocation < MaxInvocations
  /\ invocation' = invocation + 1
  /\ opt' \in CommandLines
  /\ now' \in {now, now + 1} /\ start' = now'
  /\ tarFailed' = {} /\ toAnalyze' = {} /\ todo' = {} /\ items' = {}
  /\ IF opt' \cap {"core", "developmental"} = {}
       THEN pc' = "exit1" /\ UNCHANGED << files, emptied >>
       ELSE /\ pc' = "configure"
            /\ IF opt' \cap {"update", "configure"} = {}
                 THEN UNCHANGED << files, emptied >>
                 ELSE /\ configured' = FALSE /\ built' = [t \in Tests |-> 0]
                      /\ tests' = [t \in Tests |-> NoExe]
                      /\ cov' = [t \in Tests |-> NoCov] /\ dmp' = [t \in Tests |-> NoDump]
                      /\ tarballs' = {} /\ emptied' = invocation'
                      /\ UNCHANGED saved

Skip ==
  \E i \in 1 .. Len(Steps) - 1 :
    /\ pc = Steps[i] /\ Steps[i] \notin opt
    /\ pc' = Steps[i + 1]
    /\ UNCHANGED << now, thisRun, toAnalyze, files, covoar, history >>

Configure ==
  /\ pc = "configure" /\ "configure" \in opt
  /\ built' = [t \in Tests |-> 0]
  /\ configured' \in BOOLEAN
  /\ pc' = IF configured' THEN "build" ELSE "exit1"
  /\ UNCHANGED << now, thisRun, toAnalyze, tests, cov, dmp, tarballs, saved, covoar, history >>

\* make builds what is missing and what is out of date, or stops before.
Build ==
  /\ pc = "build" /\ "build" \in opt
  /\ now' = now + 1
  /\ \E made \in SUBSET Tests :
       /\ built' = [t \in Tests |-> IF t \in made THEN now' ELSE built[t]]
       /\ configured \/ made = {}
  /\ pc' \in {"exit1"} \cup
       (IF configured /\ \A t \in Tests : built'[t] # 0 THEN {"copy"} ELSE {})
  /\ UNCHANGED << thisRun, toAnalyze, configured, tests, cov, dmp, tarballs, saved, covoar,
                  history >>

\* rm -rf BSP-tests/*, then a link or a copy of what find finds; whether that
\* worked is not looked at.
SlipFound(t) == [link |-> "link" \in opt, of |-> built[t], stamp |-> now]
Found(t) == IF built[t] = 0 THEN NoExe
            ELSE IF "link" \in opt THEN [link |-> TRUE, of |-> 0, stamp |-> 0]
            ELSE [link |-> FALSE, of |-> built[t], stamp |-> now]
SlipCopy ==
  /\ pc = "copy" /\ "copy" \in opt
  /\ tests' = [t \in Tests |-> Found(t)]
  /\ tarballs' = {} /\ emptied' = invocation
  /\ pc' = "run"
  /\ UNCHANGED << now, thisRun, toAnalyze, configured, built, cov, dmp, saved, covoar, tarFailed >>
Copy ==
  /\ pc = "copy" /\ "copy" \in opt
  /\ \E got \in SUBSET Tests :
       tests' = [t \in Tests |-> IF t \in got THEN Found(t) ELSE NoExe]
  /\ cov' = [t \in Tests |-> NoCov] /\ dmp' = [t \in Tests |-> NoDump]
  /\ tarballs' = {} /\ emptied' = invocation
  /\ pc' = "run"
  /\ UNCHANGED << now, thisRun, toAnalyze, configured, built, saved, covoar, tarFailed >>

\* The rm may stop before it is done; its status is looked at.
CleanFails ==
  /\ pc = "copy" /\ "copy" \in opt
  /\ \E gone \in SUBSET Tests :
       /\ tests' = [t \in Tests |-> IF t \in gone THEN NoExe ELSE tests[t]]
       /\ cov' = [t \in Tests |-> IF t \in gone THEN NoCov ELSE cov[t]]
       /\ dmp' = [t \in Tests |-> IF t \in gone THEN NoDump ELSE dmp[t]]
  /\ pc' = "exit1"
  /\ UNCHANGED << now, thisRun, toAnalyze, configured, built, tarballs, saved, covoar, history >>

\* The runner goes through the tests, removes each old coverage file before it
\* starts the simulator, which may fail to write a new one, and skips some; it
\* may fail before or between.  Its status is not looked at.
RunTests ==
  /\ pc = "run" /\ "run" \in opt
  /\ \E started \in SUBSET {t \in Tests : Readable(t)}, failed \in SUBSET Tests :
       cov' = [t \in Tests |-> IF t \notin started THEN cov[t]
                               ELSE IF t \in failed THEN NoCov
                               ELSE [of |-> Exe(t).of, by |-> invocation]]
  /\ pc' = "reports"
  /\ UNCHANGED << now, thisRun, toAnalyze, configured, built, tests, dmp, tarballs, saved,
                  covoar, history >>
-----------------------------------------------------------------------------
(***************************************************************************)
(* The reports, once for each configuration, "core" first.                 *)
(***************************************************************************)
BeginReports ==
  /\ pc = "reports"
  /\ IF "reports" \in opt
       THEN pc' = "symbols" /\ toAnalyze' = opt \cap {"core", "developmental"}
       ELSE pc' = "publish" /\ UNCHANGED toAnalyze
  /\ UNCHANGED << now, thisRun, files, covoar, history >>

Conf == IF "core" \in toAnalyze THEN "core" ELSE "developmental"

\* The symbols come from the libraries in b-BSP.  covoar gives up without an
\* executable that has a coverage file.
GenerateSymbols ==
  /\ pc = "symbols" /\ toAnalyze # {}
  /\ todo' = {t \in Tests : Readable(t) /\ cov[t].of # 0} /\ items' = {}
  /\ pc' \in {"exit1"} \cup (IF configured /\ todo' # {} THEN {"covoar"} ELSE {})
  /\ UNCHANGED << now, thisRun, toAnalyze, files, history >>

\* FileIsNewer( executable, dump ): there is no dump, or an older one.
SlipFileIsNewer(t) == dmp[t].stamp = 0
FileIsNewer(t)     == dmp[t].stamp = 0 \/ Exe(t).stamp > dmp[t].stamp

Reads(t, d) ==
  /\ items' = items \cup {[test |-> t, exe |-> Exe(t).of, dump |-> d, cov |-> cov[t]]}
  /\ todo' = todo \ {t}
  /\ pc' = "covoar"

\* ObjdumpProcessor::getFile and load.  The command's status is that of sed:
\* when objdump fails, the part of a dump it leaves is read; when sed fails
\* covoar exits.  Either way what there is of the dump stays.
Dump(t, objdumpOK, sedOK) ==
  [of |-> Exe(t).of, by |-> invocation, stamp |-> now,
   cut |-> IF ~sedOK THEN "sed" ELSE IF ~objdumpOK THEN "objdump" ELSE "no"]
Disassemble ==
  /\ pc = "covoar"
  /\ \E t \in todo :
       \/ /\ ~FileIsNewer(t)
          /\ Reads(t, dmp[t])
          /\ UNCHANGED dmp
       \/ /\ FileIsNewer(t)
          /\ \E objdumpOK, sedOK \in BOOLEAN :
               LET d == Dump(t, objdumpOK, sedOK)
               IN  /\ dmp' = [dmp EXCEPT ![t] = d]
                   /\ IF sedOK THEN Reads(t, d) ELSE pc' = "exit1" /\ UNCHANGED covoar
  /\ UNCHANGED << now, thisRun, toAnalyze, configured, built, tests, cov, tarballs, saved,
                  history >>

\* covoar's status is looked at, that of tar is not.
Overwrite(old, new) == {x \in old : \A y \in new : x.name # y.name} \cup new
Name(conf) == IF "out" \in opt THEN [conf |-> "out", at |-> 0]
                              ELSE [conf |-> conf, at |-> start]
CovoarFails ==
  /\ pc = "covoar" /\ todo = {}
  /\ pc' = "exit1"
  /\ UNCHANGED << now, thisRun, toAnalyze, files, covoar, history >>
\* A tar that fails leaves what was there, or an archive that is not whole.
Archive ==
  /\ pc = "covoar" /\ todo = {}
  /\ LET tar(whole) == Overwrite(tarballs, {[name |-> Name(Conf), conf |-> Conf,
                                             by |-> invocation, whole |-> whole]})
     IN  \/ tarballs' = tar(TRUE) /\ UNCHANGED tarFailed
         \/ tarballs' \in {tarballs, tar(FALSE)} /\ tarFailed' = tarFailed \cup {Conf}
  /\ toAnalyze' = toAnalyze \ {Conf}
  /\ pc' = "symbols"
  /\ UNCHANGED << now, thisRun, configured, built, tests, cov, dmp, saved, covoar, emptied >>

ReportsDone ==
  /\ pc = "symbols" /\ toAnalyze = {}
  /\ pc' = "publish"
  /\ UNCHANGED << now, thisRun, toAnalyze, files, covoar, history >>

\* ${BSP}${EXTENSION}[dD]-${day}-${hour}${minute}.tar.bz2: the archives named
\* for this invocation's start.  cp fails when there are none.
SlipMatching == {x \in tarballs : x.name.at = start /\ x.name.conf = "core"}
Matching     == {x \in tarballs : x.name.at = start}
Publish ==
  /\ pc = "publish"
  /\ IF opt \cap {"publish", "save"} = {}
       THEN pc' = "exit0" /\ UNCHANGED saved
       ELSE \/ /\ Matching # {}
               /\ saved' = Overwrite(saved, Matching)
               /\ pc' = "exit0"
            \/ pc' = "exit1" /\ UNCHANGED saved
  /\ UNCHANGED << now, thisRun, toAnalyze, configured, built, tests, cov, dmp, tarballs,
                  covoar, history >>

Next == \/ Start \/ Skip \/ Configure \/ Build \/ Copy \/ CleanFails
        \/ RunTests \/ BeginReports \/ GenerateSymbols \/ Disassemble \/ CovoarFails
        \/ Archive \/ ReportsDone \/ Publish
Spec == Init /\ [][Next]_vars
-----------------------------------------------------------------------------
(***************************************************************************)
(* The variables stay in their types, and a link never has a content of    *)
(* its own.                                                                *)
(***************************************************************************)
TypeOK ==
  /\ now \in Nat /\ invocation \in 0 .. MaxInvocations /\ start \in 0 .. now
  /\ opt \in CommandLines \cup {{}}
  /\ pc \in {"configure", "build", "copy", "run", "reports", "symbols", "covoar",
             "publish", "exit0", "exit1"}
  /\ toAnalyze \subseteq opt \cap {"core", "developmental"}
  /\ configured \in BOOLEAN
  /\ built \in [Tests -> 0 .. now]
  /\ \A t \in Tests :
       /\ tests[t].of \in 0 .. now /\ tests[t].stamp \in tests[t].of .. now
       /\ tests[t].link => tests[t].of = 0
       /\ cov[t].of \in 0 .. now /\ cov[t].by \in 0 .. invocation
       /\ dmp[t].of <= dmp[t].stamp /\ dmp[t].stamp <= now
       /\ dmp[t].by \in 0 .. invocation
  /\ todo \subseteq Tests /\ emptied \in 0 .. invocation
  /\ \A x \in tarballs \cup saved : x.by \in 1 .. invocation /\ x.name.at <= start

(***************************************************************************)
(* Whatever was rebuilt, relinked or failed since covoar cached a          *)
(* disassembly, the one it reads is of the executable it analyzes: either  *)
(* the dump is older than the executable or it was removed with it         *)
(* (ObjdumpProcessor.cc 236-276, do_coverage 566-573 and 692).             *)
(***************************************************************************)
DumpsCurrent == \A i \in items : i.dump.of = i.exe

(***************************************************************************)
(* Nothing a report rests on is older than the last time BSP-tests was     *)
(* emptied, which an invocation that copies the tests does itself: then    *)
(* its coverage and its disassemblies are its own, although the status of  *)
(* the runner is not looked at, and a test that was not run is missing     *)
(* from the report (do_coverage 687-737).  Coverage recorded with another  *)
(* build than the analyzed one is read through a link only, which was      *)
(* rebuilt since.  A disassembly objdump or sed left unfinished goes with  *)
(* the rest when BSP-tests is emptied; one of this invocation is read only *)
(* if it was objdump that failed (ObjdumpProcessor.cc 252-263).            *)
(***************************************************************************)
FreshReport ==
  \A i \in items :
    /\ i.cov.by \in emptied .. invocation /\ i.dump.by \in emptied .. invocation
    /\ i.cov.of = i.exe \/ (tests[i.test].link /\ emptied < invocation)
    /\ i.dump.cut = "sed" => i.dump.by < invocation

(***************************************************************************)
(* An invocation that ends well and was asked to publish or save results   *)
(* has put an archive of that minute where they are saved; an archive of   *)
(* its own among them that is not whole is of a configuration tar failed   *)
(* on; and of each other configuration it was asked to report on, not into *)
(* a given directory, its own whole archive is there (do_coverage 739-805).*)
(***************************************************************************)
Delivered ==
  pc = "exit0" /\ opt \cap {"publish", "save"} # {} =>
    /\ \E x \in saved : x.name.at = start
    /\ \A x \in saved : x.by = invocation => x.whole \/ x.conf \in tarFailed
    /\ "reports" \in opt /\ "out" \notin opt =>
         \A c \in (opt \cap {"core", "developmental"}) \ tarFailed :
           [name |-> [conf |-> c, at |-> start], conf |-> c, by |-> invocation,
            whole |-> TRUE] \in saved
=============================================================================
