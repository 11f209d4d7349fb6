--------------------------- MODULE Scripts_proofs ---------------------------
(***************************************************************************)
(* Proofs about the two shell scripts around covoar: SimRun, for every     *)
(* list of tests, every limit and every combination of the BSP's settings, *)
(* and DoCoverage, for every set of tests, every set of command lines and  *)
(* every number of invocations.                                            *)
(***************************************************************************)
EXTENDS SimRun, DoCoverage, FiniteSetTheorems, TLAPS

(***************************************************************************)
(* The inductive invariant, one conjunct for each thing the script relies  *)
(* on without looking.                                                     *)
(***************************************************************************)
\* killpid returns to one of its two callers.
Returns == at \in {"interrupt", "kill"} => back \in {"report", "flush"}

\* The only simulator that may run is $pid, and none does between runs.
Idle  == {"launch", "report", "retry", "next", "exit"}
Alone == alive \subseteq {run} /\ (at \in Idle => alive = {})

\* A simulator that writes to a log writes to the one it has opened.
Emptied == ~in.forever /\ alive \cap opened # {} => log \subseteq Mark

\* Each test has been run at most tries times, and tries is at most 3.
Launched ==
  /\ at = "launch" => run < 3 * (test - 1) + tries
  /\ at \notin {"launch", "next", "exit"} => run <= 3 * (test - 1) + tries
  /\ run <= 3 * test

\* The loop goes on only below the limit.
Polling == {"poll", "faults", "generic"}
InTime  == at \in Polling => polls < Limit

\* A rerun is due only after a run without output.
Rerun == at = "launch" /\ tries > 1 => NoOutput

\* While the script polls, an end message is in the log, and it has been
\* there for at most one round of checks.
Noticed ==
  /\ at \in Polling /\ endedAt # Never => run \in opened /\ "end" \in log
  /\ at = "poll" => endedAt >= polls
  /\ at \in {"faults", "generic"} => endedAt + 1 >= polls

\* A run that has opened its log is alone in it; a run without limit has none
\* and is not polled.
Mine ==
  /\ ~in.forever /\ at # "launch" /\ run \in opened => log \subseteq wrote
  /\ at \in Polling => ~in.forever

\* The limit was reached, and the end message is no older than the last poll.
OverTime == why = "overTime" => polls + 1 >= Limit /\ endedAt + 1 >= Limit

RunInv == /\ RunTypeOK
          /\ Returns /\ Alone /\ Emptied /\ Launched /\ InTime /\ Rerun
          /\ Noticed /\ Mine /\ OverTime
-----------------------------------------------------------------------------
(***************************************************************************)
(* The numbers the constants and the type invariant bound are numbers.     *)
(***************************************************************************)
LEMMA InputFacts == in \in Inputs => Len(in.tests) \in Nat /\ Limit \in Nat \ {0}
<1>1. ASSUME in \in Inputs PROVE in \in InputType
  BY <1>1, InputAssumption
<1>2. in \in InputType => in.tests \in Seq({"run", "skip", "refused"})
  BY DEF InputType
<1>3. QED
  BY <1>1, <1>2, InputAssumption

\* Counters, positions and limits are numbers.
LEMMA NumberFacts ==
  RunTypeOK => /\ test \in Nat /\ tries \in Nat /\ polls \in Nat /\ run \in Nat
            /\ endedAt \in Nat /\ Len(in.tests) \in Nat /\ Limit \in Nat \ {0}
BY InputFacts DEF RunTypeOK, Numbers, Words

(***************************************************************************)
(* RunInv is inductive.                                                    *)
(***************************************************************************)
LEMMA InitRunInv == RunInit => RunInv
<1>1. SUFFICES ASSUME RunInit PROVE RunInv
  OBVIOUS
<1>2. in \in Inputs /\ Len(in.tests) \in Nat /\ Limit \in Nat \ {0}
  BY <1>1, InputFacts DEF RunInit
<1>3. Numbers
  BY <1>1, <1>2 DEF RunInit, Numbers, Never
<1>4. Words /\ Shared
  BY <1>1, <1>2 DEF RunInit, Words, Shared
<1>5. Returns /\ Alone /\ Emptied /\ Launched /\ InTime /\ Rerun /\ Noticed
      /\ Mine /\ OverTime
  BY <1>1 DEF RunInit, Returns, Alone, Idle, Emptied, Launched, Polling, InTime,
     Rerun, Noticed, Mine, OverTime
<1>6. QED
  BY <1>3, <1>4, <1>5 DEF RunInv, RunTypeOK

\* Every step keeps the invariant of a run.
LEMMA NextRunInv == RunInv /\ [RunNext]_runVars => RunInv'
<1>1. SUFFICES ASSUME RunInv, [RunNext]_runVars PROVE RunInv'
  OBVIOUS
<1>2. /\ test \in Nat /\ tries \in Nat /\ polls \in Nat /\ run \in Nat
      /\ endedAt \in Nat /\ Len(in.tests) \in Nat /\ Limit \in Nat \ {0}
  BY <1>1, NumberFacts DEF RunInv
<1>3. /\ Numbers /\ Words /\ Shared
      /\ Returns /\ Alone /\ Emptied /\ Launched /\ InTime /\ Rerun /\ Noticed
      /\ Mine /\ OverTime
  BY <1>1 DEF RunInv, RunTypeOK
<1>4. CASE OpenLog
  BY <1>2, <1>3, <1>4 DEF OpenLog, script, RunInv, RunTypeOK, Numbers, Words,
     Shared, Returns, Alone, Idle, Emptied, Launched, InTime, Polling, Rerun,
     NoOutput, Noticed, Mine, OverTime, Never, NoLog, Mark
<1>5. CASE Write
  <2>1. Numbers' /\ Words' /\ Shared'
    BY <1>2, <1>3, <1>5 DEF Write, script, Numbers, Launched, InTime,
       Polling, Never, Words, Returns, NoOutput, Shared, Alone, Emptied,
       Idle, Mark, NoLog
  <2>2. Returns' /\ Alone' /\ Emptied'
    BY <1>2, <1>3, <1>5 DEF Write, script, Returns, Alone, Idle, Shared,
       Emptied, Mark, NoLog
  <2>3. Launched' /\ InTime' /\ Rerun'
    BY <1>2, <1>3, <1>5 DEF Write, script, Launched, Numbers, InTime,
       Polling, Rerun, NoOutput, Alone, Idle, NoLog
  <2>4. Noticed' /\ Mine' /\ OverTime'
    BY <1>2, <1>3, <1>5 DEF Write, script, Mine, Idle, Mark, Noticed, Polling, Never, NoLog,
       Alone, InTime, Shared, OverTime
  <2>5. QED
    BY <2>1, <2>2, <2>3, <2>4 DEF RunInv, RunTypeOK
<1>6. CASE Exit
  BY <1>2, <1>3, <1>6 DEF Exit, script, RunInv, RunTypeOK, Numbers, Words,
     Shared, Returns, Alone, Idle, Emptied, Launched, InTime, Polling, Rerun,
     NoOutput, Noticed, Mine, OverTime, Never, NoLog, Mark
<1>7. CASE BeginRun
  <2>1. Numbers' /\ Words' /\ Shared'
    BY <1>2, <1>3, <1>7 DEF BeginRun, Begin, Numbers, Launched, InTime,
       Polling, Never, Words, Returns, NoOutput, Shared, Alone, Emptied,
       Idle, Mark, NoLog
  <2>2. Returns' /\ Alone' /\ Emptied'
    BY <1>2, <1>3, <1>7 DEF BeginRun, Begin, Returns, Alone, Idle, Shared,
       Emptied, Mark, NoLog
  <2>3. Launched' /\ InTime' /\ Rerun'
    BY <1>2, <1>3, <1>7 DEF BeginRun, Begin, Launched, Numbers, InTime,
       Polling, Rerun, NoOutput, Alone, Idle, NoLog
  <2>4. Noticed' /\ Mine' /\ OverTime'
    BY <1>2, <1>3, <1>7 DEF BeginRun, Begin, Noticed, Mine, Idle, Mark, Polling, Never, NoLog,
       Alone, InTime, Shared, OverTime
  <2>5. QED
    BY <2>1, <2>2, <2>3, <2>4 DEF RunInv, RunTypeOK
<1>8. CASE SkipTest
  BY <1>2, <1>3, <1>8 DEF SkipTest, Begin, system, RunInv, RunTypeOK, Numbers,
     Words, Shared, Returns, Alone, Idle, Emptied, Launched, InTime, Polling,
     Rerun, NoOutput, Noticed, Mine, OverTime, Never, NoLog, Mark
<1>9. CASE Refuse
  BY <1>2, <1>3, <1>9 DEF Refuse, Begin, system, RunInv, RunTypeOK, Numbers,
     Words, Shared, Returns, Alone, Idle, Emptied, Launched, InTime, Polling,
     Rerun, NoOutput, Noticed, Mine, OverTime, Never, NoLog, Mark
<1>10. CASE Finish
  BY <1>2, <1>3, <1>10 DEF Finish, script, system, RunInv, RunTypeOK, Numbers,
     Words, Shared, Returns, Alone, Idle, Emptied, Launched, InTime, Polling,
     Rerun, NoOutput, Noticed, Mine, OverTime, Never, NoLog, Mark
<1>11. CASE Launch
  <2>1. Numbers' /\ Words' /\ Shared'
    BY <1>2, <1>3, <1>11 DEF Launch, Numbers, Launched, InTime, Polling,
       Never, Words, Returns, NoOutput, Shared, Alone, Emptied, Idle, Mark,
       NoLog
  <2>2. Returns' /\ Alone' /\ Emptied'
    BY <1>2, <1>3, <1>11 DEF Launch, Returns, Alone, Idle, Shared, Emptied,
       Mark, NoLog
  <2>3. Launched' /\ InTime' /\ Rerun'
    BY <1>2, <1>3, <1>11 DEF Launch, Launched, Numbers, InTime, Polling,
       Rerun, NoOutput, Alone, Idle, NoLog
  <2>4. Noticed' /\ Mine' /\ OverTime'
    BY <1>2, <1>3, <1>11 DEF Launch, Noticed, Mine, Idle, Mark, Polling, Never, NoLog, Alone,
       InTime, Shared, OverTime
  <2>5. QED
    BY <2>1, <2>2, <2>3, <2>4 DEF RunInv, RunTypeOK
<1>12. CASE WaitDone
  BY <1>2, <1>3, <1>12 DEF WaitDone, script, system, RunInv, RunTypeOK, Numbers,
     Words, Shared, Returns, Alone, Idle, Emptied, Launched, InTime, Polling,
     Rerun, NoOutput, Noticed, Mine, OverTime, Never, NoLog, Mark
<1>13. CASE PollGone
  BY <1>2, <1>3, <1>13 DEF PollGone, system, RunInv, RunTypeOK, Numbers, Words,
     Shared, Returns, Alone, Idle, Emptied, Launched, InTime, Polling, Rerun,
     NoOutput, Noticed, Mine, OverTime, Never, NoLog, Mark
<1>14. CASE PollOverTime
  <2>1. Numbers' /\ Words' /\ Shared'
    BY <1>2, <1>3, <1>14 DEF PollOverTime, Kill, system, Numbers, Launched,
       InTime, Polling, Never, Words, Returns, NoOutput, Shared, Alone,
       Emptied, Idle, Mark, NoLog
  <2>2. Returns' /\ Alone' /\ Emptied'
    BY <1>2, <1>3, <1>14 DEF PollOverTime, Kill, system, Returns, Alone,
       Idle, Shared, Emptied, Mark, NoLog
  <2>3. Launched' /\ InTime' /\ Rerun'
    BY <1>2, <1>3, <1>14 DEF PollOverTime, Kill, system, Launched, Numbers,
       InTime, Polling, Rerun, NoOutput, Alone, Idle, NoLog
  <2>4. Noticed' /\ Mine' /\ OverTime'
    BY <1>2, <1>3, <1>14 DEF PollOverTime, Kill, system, Noticed, Mine, Idle, Mark, Polling,
       Never, NoLog, Alone, InTime, Shared, OverTime
  <2>5. QED
    BY <2>1, <2>2, <2>3, <2>4 DEF RunInv, RunTypeOK
<1>15. CASE PollRunning
  <2>1. Numbers' /\ Words' /\ Shared'
    BY <1>2, <1>3, <1>15 DEF PollRunning, system, Numbers, Launched, InTime,
       Polling, Never, Words, Returns, NoOutput, Shared, Alone, Emptied,
       Idle, Mark, NoLog
  <2>2. Returns' /\ Alone' /\ Emptied'
    BY <1>2, <1>3, <1>15 DEF PollRunning, system, Returns, Alone, Idle,
       Shared, Emptied, Mark, NoLog
  <2>3. Launched' /\ InTime' /\ Rerun'
    BY <1>2, <1>3, <1>15 DEF PollRunning, system, Launched, Numbers, InTime,
       Polling, Rerun, NoOutput, Alone, Idle, NoLog
  <2>4. Noticed' /\ Mine' /\ OverTime'
    BY <1>2, <1>3, <1>15 DEF PollRunning, system, Noticed, Mine, Idle, Mark, Polling, Never,
       NoLog, Alone, InTime, Shared, OverTime
  <2>5. QED
    BY <2>1, <2>2, <2>3, <2>4 DEF RunInv, RunTypeOK
<1>16. CASE CheckFaults
  BY <1>2, <1>3, <1>16 DEF CheckFaults, Kill, system, RunInv, RunTypeOK,
     Numbers, Words, Shared, Returns, Alone, Idle, Emptied, Launched, InTime,
     Polling, Rerun, NoOutput, Noticed, Mine, OverTime, Never, NoLog, Mark
<1>17. CASE CheckGeneric
  <2>1. Numbers' /\ Words' /\ Shared'
    BY <1>2, <1>3, <1>17 DEF CheckGeneric, Kill, system, Numbers, Launched,
       InTime, Polling, Never, Words, Returns, NoOutput, Shared, Alone,
       Emptied, Idle, Mark, NoLog
  <2>2. Returns' /\ Alone' /\ Emptied'
    BY <1>2, <1>3, <1>17 DEF CheckGeneric, Kill, system, Returns, Alone,
       Idle, Shared, Emptied, Mark, NoLog
  <2>3. Launched' /\ InTime' /\ Rerun'
    BY <1>2, <1>3, <1>17 DEF CheckGeneric, Kill, system, Launched, Numbers,
       InTime, Polling, Rerun, NoOutput, Alone, Idle, NoLog
  <2>4. Noticed' /\ Mine' /\ OverTime'
    BY <1>2, <1>3, <1>17 DEF CheckGeneric, Kill, system, Noticed, Mine, Idle, Mark, Polling,
       Never, NoLog, Alone, InTime, Shared, OverTime
  <2>5. QED
    BY <2>1, <2>2, <2>3, <2>4 DEF RunInv, RunTypeOK
<1>18. CASE Flush
  BY <1>2, <1>3, <1>18 DEF Flush, Kill, system, RunInv, RunTypeOK, Numbers,
     Words, Shared, Returns, Alone, Idle, Emptied, Launched, InTime, Polling,
     Rerun, NoOutput, Noticed, Mine, OverTime, Never, NoLog, Mark
<1>19. CASE Interrupt
  BY <1>2, <1>3, <1>19 DEF Interrupt, script, RunInv, RunTypeOK, Numbers, Words,
     Shared, Returns, Alone, Idle, Emptied, Launched, InTime, Polling, Rerun,
     NoOutput, Noticed, Mine, OverTime, Never, NoLog, Mark
<1>20. CASE Kill9
  BY <1>2, <1>3, <1>20 DEF Kill9, script, RunInv, RunTypeOK, Numbers, Words,
     Shared, Returns, Alone, Idle, Emptied, Launched, InTime, Polling, Rerun,
     NoOutput, Noticed, Mine, OverTime, Never, NoLog, Mark
<1>21. CASE Report
  BY <1>2, <1>3, <1>21 DEF Report, script, system, RunInv, RunTypeOK, Numbers,
     Words, Shared, Returns, Alone, Idle, Emptied, Launched, InTime, Polling,
     Rerun, NoOutput, Noticed, Mine, OverTime, Never, NoLog, Mark
<1>22. CASE Retry
  BY <1>2, <1>3, <1>22 DEF Retry, system, RunInv, RunTypeOK, Numbers, Words,
     Shared, Returns, Alone, Idle, Emptied, Launched, InTime, Polling, Rerun,
     NoOutput, Noticed, Mine, OverTime, Never, NoLog, Mark
<1>23. CASE EndRetries
  <2>1. NoOutput \in BOOLEAN
    BY DEF NoOutput
  <2>2. warned' \subseteq [test : Nat, empty : BOOLEAN]
    BY <1>2, <1>3, <1>23, <2>1 DEF EndRetries, Words
  <2>3. Words'
    BY <1>3, <1>23, <2>2 DEF EndRetries, system, Words
  <2>4. QED
    BY <1>2, <1>3, <1>23, <2>3 DEF EndRetries, system, RunInv, RunTypeOK,
       Numbers, Shared, Returns, Alone, Idle, Emptied, Launched, InTime,
       Polling, Rerun, Noticed, Mine, OverTime, Never, NoLog, Mark
<1>24. CASE UNCHANGED runVars
  BY <1>3, <1>24 DEF runVars, RunInv, RunTypeOK, Numbers, Words, Shared, Returns,
     Alone, Idle, Emptied, Launched, InTime, Polling, Rerun, NoOutput,
     Noticed, Mine, OverTime, Never, NoLog, Mark
<1>25. QED
  BY <1>1, <1>4, <1>5, <1>6, <1>7, <1>8, <1>9, <1>10, <1>11, <1>12, <1>13,
     <1>14, <1>15, <1>16, <1>17, <1>18, <1>19, <1>20, <1>21, <1>22, <1>23,
     <1>24 DEF RunNext, Script, Simulator

\* The invariant of a run holds throughout.
THEOREM RunInvariant == RunSpec => []RunInv
BY InitRunInv, NextRunInv, PTL DEF RunSpec

(***************************************************************************)
(* Type correctness: in particular no test is run more than three times,   *)
(* however the simulator behaves.                                          *)
(***************************************************************************)
THEOREM RunTypeCorrect == RunSpec => []RunTypeOK
<1>1. RunInv => RunTypeOK
  BY DEF RunInv
<1>2. QED
  BY <1>1, RunInvariant, PTL

(***************************************************************************)
(* Two simulators never run at once, and none when a run is judged.        *)
(***************************************************************************)
THEOREM SimulatorAlone == RunSpec => []OneSimulator
<1>1. ASSUME RunInv PROVE OneSimulator
  <2>1. alive \subseteq {run} /\ (at \in Idle => alive = {})
    BY <1>1 DEF RunInv, Alone
  <2>2. IsFiniteSet({run}) /\ Cardinality({run}) = 1
    BY FS_Singleton
  <2>3. IsFiniteSet(alive) /\ Cardinality(alive) <= 1
    BY <2>1, <2>2, FS_Subset
  <2>4. QED
    BY <2>1, <2>3 DEF OneSimulator, Idle
<1>2. QED
  BY <1>1, RunInvariant, PTL

(***************************************************************************)
(* A run is called over time only if its end message came in the last poll *)
(* before the limit, later, or never; and once it has opened its log, the  *)
(* messages it is judged by are its own.                                   *)
(***************************************************************************)
THEOREM VerdictFair == RunSpec => []VerdictHonest
<1>1. ASSUME RunInv PROVE VerdictHonest
  BY <1>1, NumberFacts DEF RunInv, OverTime, Mine, Polling, VerdictHonest
<1>2. QED
  BY <1>1, RunInvariant, PTL

(***************************************************************************)
(* Whatever a run printed is never overwritten by running the test again.  *)
(***************************************************************************)
THEOREM OutputPreserved == RunSpec => OutputKept
<1> DEFINE Kept == run' = run + 1 /\ tries > 1 => log \subseteq {"absent"}
<1>1. ASSUME RunInv, [RunNext]_runVars PROVE [Kept]_runVars
  <2>1. /\ run \in Nat /\ Rerun /\ (Launch => at = "launch")
    BY <1>1, NumberFacts DEF RunInv, Launch
  <2>2. run' = run + 1 => Launch
    BY <1>1, <2>1 DEF RunNext, Script, Simulator, OpenLog, Write, Exit, BeginRun, SkipTest,
       Refuse, Finish, WaitDone, PollGone, PollOverTime, PollRunning, CheckFaults,
       CheckGeneric, Flush, Interrupt, Kill9, Report, Retry, EndRetries, script,
       system, runVars
  <2>3. QED
    BY <2>1, <2>2 DEF Rerun, NoOutput, NoLog
<1>2. QED
  BY <1>1, RunInvariant, PTL DEF RunSpec, OutputKept
-----------------------------------------------------------------------------
(***************************************************************************)
(* The inductive invariant: what the directories hold between the steps,   *)
(* whichever invocation left it there.                                     *)
(***************************************************************************)
Exits  == {"exit0", "exit1"}
Covers == [of : Nat, by : Nat]
Dumps  == [of : Nat, by : Nat, cut : {"no", "objdump", "sed"}, stamp : Nat]
Confs  == {"core", "developmental"}

Archived == [name : [conf : Confs \cup {"out"}, at : Nat], conf : Confs, by : Nat,
             whole : BOOLEAN]

\* The files are files of their kinds.
Shapes ==
  /\ opt \in SUBSET Option
  /\ tests \in [Tests -> [link : BOOLEAN, of : Nat, stamp : Nat]]
  /\ cov \in [Tests -> Covers] /\ dmp \in [Tests -> Dumps]
  /\ tarballs \in SUBSET Archived /\ saved \in SUBSET Archived
  /\ pc \notin Exits => invocation > 0

\* A dump that FileIsNewer takes for current is current: what was disassembled
\* then is what the executable holds now.
Cached == \A t \in Tests : Readable(t) /\ ~FileIsNewer(t) => dmp[t].of = Exe(t).of

\* What covoar is about to read can be read.
Pending == pc = "covoar" => \A t \in todo : Readable(t) /\ cov[t].of # 0

\* Nothing is read before the reports are made.
Before == {"configure", "build", "copy", "run", "reports"}
Unread == pc \in Before => items = {}

\* What BSP-tests holds, it holds since it was emptied; coverage is of the
\* executable next to it unless that is a link rebuilt by a later invocation.
Recent ==
  /\ pc \in {"configure", "build", "copy"} /\ emptied = invocation =>
       \A t \in Tests : ~tests[t].link
  /\ \A t \in Tests : cov[t].of # 0 =>
       /\ emptied <= cov[t].by
       /\ Readable(t) => cov[t].of = Exe(t).of \/ (tests[t].link /\ emptied < invocation)
  /\ \A t \in Tests : dmp[t].stamp # 0 =>
       /\ emptied <= dmp[t].by
       /\ dmp[t].cut = "sed" => dmp[t].by < invocation \/ pc \in Exits

\* The archives of the configurations that are done, unless tar failed, and
\* every archive that is not whole accounted for.
Own(c) == [name |-> [conf |-> c, at |-> start], conf |-> c, by |-> invocation, whole |-> TRUE]
Tarred ==
  /\ \A x \in tarballs \cup saved : x.by = invocation => x.whole \/ x.conf \in tarFailed
  /\ "reports" \in opt /\ "out" \notin opt =>
       /\ pc \in {"symbols", "covoar", "publish"} =>
            \A c \in (opt \cap Confs) \ (toAnalyze \cup tarFailed) : Own(c) \in tarballs
       /\ pc = "publish" => toAnalyze = {}

PipelineInv == /\ TypeOK /\ Shapes /\ Cached /\ Pending /\ Unread /\ Recent /\ Tarred
               /\ DumpsCurrent /\ FreshReport /\ Delivered
-----------------------------------------------------------------------------
\* The invariant holds before the first stage.
LEMMA InitPipelineInv == Init => PipelineInv
<1>1. SUFFICES ASSUME Init PROVE PipelineInv
  OBVIOUS
<1>2. TypeOK
  <2>1. /\ built \in [Tests -> 0 .. now] /\ invocation \in 0 .. MaxInvocations
        /\ now \in Nat /\ start \in 0 .. now /\ emptied \in 0 .. invocation
    BY <1>1, BoundAssumption DEF Init
  <2>2. \A t \in Tests :
          /\ tests[t].of \in 0 .. now /\ tests[t].stamp \in tests[t].of .. now
          /\ tests[t].link => tests[t].of = 0
          /\ cov[t].of \in 0 .. now /\ cov[t].by \in 0 .. invocation
          /\ dmp[t].of <= dmp[t].stamp /\ dmp[t].stamp <= now /\ dmp[t].by \in 0 .. invocation
    <3>1. ASSUME NEW t \in Tests
          PROVE  tests[t] = NoExe /\ cov[t] = NoCov /\ dmp[t] = NoDump
      BY <1>1 DEF Init
    <3>2. now = 1 /\ invocation = 0
      BY <1>1 DEF Init
    <3>3. /\ NoExe.of = 0 /\ NoExe.stamp = 0 /\ NoExe.link = FALSE
          /\ NoCov.of = 0 /\ NoCov.by = 0 /\ NoDump.of = 0 /\ NoDump.stamp = 0
          /\ NoDump.by = 0
      BY DEF NoExe, NoCov, NoDump
    <3>4. ASSUME NEW t \in Tests
          PROVE  /\ tests[t].of \in 0 .. now /\ tests[t].stamp \in tests[t].of .. now
                 /\ tests[t].link => tests[t].of = 0
                 /\ cov[t].of \in 0 .. now /\ cov[t].by \in 0 .. invocation
                 /\ dmp[t].of <= dmp[t].stamp /\ dmp[t].stamp <= now
                 /\ dmp[t].by \in 0 .. invocation
      <4>1. /\ tests[t].of = 0 /\ tests[t].stamp = 0 /\ cov[t].of = 0 /\ cov[t].by = 0
            /\ dmp[t].of = 0 /\ dmp[t].stamp = 0 /\ dmp[t].by = 0
        BY <3>1, <3>3, <3>4
      <4>2. QED
        BY <3>2, <4>1
    <3>5. QED
      BY <3>4
  <2>3. QED
    BY <1>1, <2>1, <2>2 DEF Init, TypeOK
<1>3. Shapes
  BY <1>1 DEF Init, Shapes, NoExe, NoCov, NoDump, Covers, Dumps, Exits
<1>4. Cached /\ Pending /\ Unread /\ Recent /\ Tarred
  BY <1>1 DEF Init, Cached, Readable, FileIsNewer, NoDump, NoCov, Pending, Unread, Before,
     Recent, Tarred, Exits
<1>5. DumpsCurrent /\ FreshReport /\ Delivered
  BY <1>1 DEF Init, DumpsCurrent, FreshReport, Delivered
<1>6. QED
  BY <1>2, <1>3, <1>4, <1>5 DEF PipelineInv

(***************************************************************************)
(* The numbers in the state are numbers.                                   *)
(***************************************************************************)
LEMMA StateFacts ==
  ASSUME TypeOK, Shapes
  PROVE  /\ now \in Nat /\ invocation \in Nat /\ start \in Nat /\ start <= now
         /\ MaxInvocations \in Nat /\ invocation <= MaxInvocations
         /\ emptied \in Nat /\ emptied <= invocation
         /\ built \in [Tests -> Nat]
         /\ \A t \in Tests :
              /\ built[t] \in Nat /\ built[t] <= now
              /\ tests[t].link \in BOOLEAN
              /\ tests[t].of \in Nat /\ tests[t].stamp \in Nat
              /\ tests[t].of <= tests[t].stamp /\ tests[t].stamp <= now
              /\ cov[t].of \in Nat /\ cov[t].by \in Nat
              /\ cov[t].of <= now /\ cov[t].by <= invocation
              /\ dmp[t].of \in Nat /\ dmp[t].stamp \in Nat
              /\ dmp[t].by \in Nat /\ dmp[t].by <= invocation
              /\ dmp[t].of <= dmp[t].stamp /\ dmp[t].stamp <= now
              /\ Exe(t).of \in Nat /\ Exe(t).stamp \in Nat
              /\ Exe(t).of <= now /\ Exe(t).stamp <= now
<1>1. /\ now \in Nat /\ invocation \in Nat /\ start \in Nat /\ start <= now
      /\ MaxInvocations \in Nat /\ invocation <= MaxInvocations
      /\ emptied \in Nat /\ emptied <= invocation
      /\ built \in [Tests -> 0 .. now]
  BY BoundAssumption DEF TypeOK
<1>2. ASSUME NEW t \in Tests
      PROVE  /\ built[t] \in Nat /\ built[t] <= now
             /\ tests[t].link \in BOOLEAN
             /\ tests[t].of \in Nat /\ tests[t].stamp \in Nat
             /\ tests[t].of <= tests[t].stamp /\ tests[t].stamp <= now
  BY <1>1 DEF TypeOK, Shapes
<1>3. ASSUME NEW t \in Tests
      PROVE  /\ cov[t].of \in Nat /\ cov[t].by \in Nat
             /\ cov[t].of <= now /\ cov[t].by <= invocation
             /\ dmp[t].of \in Nat /\ dmp[t].stamp \in Nat
             /\ dmp[t].by \in Nat /\ dmp[t].by <= invocation
             /\ dmp[t].of <= dmp[t].stamp /\ dmp[t].stamp <= now
  BY <1>1 DEF TypeOK, Shapes, Covers, Dumps
<1>4. ASSUME NEW t \in Tests
      PROVE  /\ Exe(t).of \in Nat /\ Exe(t).stamp \in Nat
             /\ Exe(t).of <= now /\ Exe(t).stamp <= now
  BY <1>1, <1>2 DEF Exe
<1>5. built \in [Tests -> Nat]
  BY <1>1
<1>6. QED
  BY <1>1, <1>2, <1>3, <1>4, <1>5

(***************************************************************************)
(* The steps that leave the files, what covoar read and the options alone. *)
(***************************************************************************)
LEMMA QuietSteps ==
  ASSUME PipelineInv, UNCHANGED << now, thisRun, files, covoar, history >>
  PROVE  /\ Cached' /\ DumpsCurrent' /\ FreshReport'
         /\ \A t \in Tests : Exe(t)' = Exe(t) /\ (Readable(t) <=> Readable(t)')
<1>1. UNCHANGED << now, invocation, opt, start, configured, built, tests, cov, dmp,
                   tarballs, saved, todo, items, emptied, tarFailed >>
  BY DEF thisRun, files, covoar, history
<1>2. Cached /\ DumpsCurrent /\ FreshReport
  BY DEF PipelineInv
<1>3. QED
  BY <1>1, <1>2 DEF Cached, DumpsCurrent, FreshReport, Exe, Readable, FileIsNewer

\* Every step of the pipeline keeps it.
LEMMA NextPipelineInv == PipelineInv /\ [Next]_vars => PipelineInv'
<1>1. SUFFICES ASSUME PipelineInv, [Next]_vars PROVE PipelineInv'
  OBVIOUS
<1>2. /\ TypeOK /\ Shapes /\ Cached /\ Pending /\ Unread /\ Recent /\ Tarred
      /\ DumpsCurrent /\ FreshReport /\ Delivered
  BY <1>1 DEF PipelineInv
<1>3. /\ now \in Nat /\ invocation \in Nat /\ start \in Nat /\ start <= now
      /\ MaxInvocations \in Nat /\ invocation <= MaxInvocations
      /\ emptied \in Nat /\ emptied <= invocation
      /\ built \in [Tests -> Nat]
  BY <1>2, StateFacts
<1>4. \A t \in Tests :
        /\ built[t] \in Nat /\ built[t] <= now
        /\ tests[t].link \in BOOLEAN
        /\ tests[t].of \in Nat /\ tests[t].stamp \in Nat
        /\ tests[t].of <= tests[t].stamp /\ tests[t].stamp <= now
        /\ cov[t].of \in Nat /\ cov[t].by \in Nat
        /\ cov[t].of <= now /\ cov[t].by <= invocation
        /\ dmp[t].of \in Nat /\ dmp[t].stamp \in Nat
        /\ dmp[t].by \in Nat /\ dmp[t].by <= invocation
        /\ dmp[t].of <= dmp[t].stamp /\ dmp[t].stamp <= now
        /\ Exe(t).of \in Nat /\ Exe(t).stamp \in Nat
        /\ Exe(t).of <= now /\ Exe(t).stamp <= now
  BY <1>2, StateFacts
<1>5. \A x \in tarballs \cup saved :
        x.by \in Nat /\ x.name.at \in Nat /\ 1 <= x.by /\ x.by <= invocation /\ x.name.at <= start
  BY <1>2, <1>3 DEF TypeOK, Shapes, Archived
<1>6. opt \in CommandLines \cup {{}} /\ opt \in SUBSET Option
  BY <1>2 DEF TypeOK, Shapes
<1>start. CASE Start
  <2>1. /\ now' \in Nat /\ start' = now' /\ now <= now' /\ start <= now'
        /\ invocation' = invocation + 1 /\ invocation' <= MaxInvocations
        /\ opt' \in CommandLines /\ opt' \in SUBSET Option
        /\ tarFailed' = {} /\ toAnalyze' = {} /\ todo' = {} /\ items' = {}
        /\ pc \in Exits /\ pc' \in {"exit1", "configure"} /\ saved' = saved
    BY <1>3, <1>start, CommandLineAssumption DEF Start, files, Exits
  <2>2. CASE UNCHANGED << files, emptied >>
    <3>1. UNCHANGED << configured, built, tests, cov, dmp, tarballs, saved, emptied >>
      BY <2>2 DEF files
    <3>2. TypeOK'
      BY <1>2, <1>3, <1>4, <1>5, <2>1, <3>1 DEF TypeOK
    <3>3. Shapes'
      BY <1>2, <1>3, <2>1, <3>1 DEF Shapes
    <3>4. Cached'
      BY <1>2, <3>1 DEF Cached, Exe, Readable, FileIsNewer
    <3>5. Pending' /\ Unread' /\ DumpsCurrent' /\ FreshReport' /\ Delivered'
      BY <2>1 DEF Pending, Unread, DumpsCurrent, FreshReport, Delivered
    <3>6. Recent'
      <4>1. ASSUME NEW t \in Tests
            PROVE  Exe(t)' = Exe(t) /\ dmp[t].by < invocation' /\ emptied < invocation'
        BY <1>3, <1>4, <2>1, <3>1 DEF Exe
      <4>2. QED
        BY <1>2, <1>3, <2>1, <3>1, <4>1 DEF Recent, Readable
    <3>7. Tarred'
      BY <1>3, <1>5, <2>1, <3>1 DEF Tarred
    <3>8. QED
      BY <3>2, <3>3, <3>4, <3>5, <3>6, <3>7 DEF PipelineInv
  <2>3. CASE /\ configured' = FALSE /\ built' = [t \in Tests |-> 0]
             /\ tests' = [t \in Tests |-> NoExe]
             /\ cov' = [t \in Tests |-> NoCov] /\ dmp' = [t \in Tests |-> NoDump]
             /\ tarballs' = {} /\ emptied' = invocation'
    <3>1. /\ built' \in [Tests -> 0 .. now'] /\ invocation' \in 0 .. MaxInvocations
          /\ start' \in 0 .. now' /\ emptied' \in 0 .. invocation'
      BY <1>3, <2>1, <2>3
    <3>2. TypeOK'
      <4>1. \A t \in Tests :
              /\ tests'[t].of \in 0 .. now' /\ tests'[t].stamp \in tests'[t].of .. now'
              /\ tests'[t].link => tests'[t].of = 0
              /\ cov'[t].of \in 0 .. now' /\ cov'[t].by \in 0 .. invocation'
              /\ dmp'[t].of <= dmp'[t].stamp /\ dmp'[t].stamp <= now'
              /\ dmp'[t].by \in 0 .. invocation'
        BY <1>3, <2>1, <2>3 DEF NoExe, NoCov, NoDump
      <4>2. \A x \in tarballs' \cup saved' : x.by \in 1 .. invocation' /\ x.name.at <= start'
        BY <1>3, <1>5, <2>1, <2>3
      <4>3. QED
        BY <2>1, <2>3, <3>1, <4>1, <4>2 DEF TypeOK
    <3>3. Shapes'
      BY <1>2, <1>3, <2>1, <2>3 DEF Shapes, NoExe, NoCov, NoDump, Covers, Dumps
    <3>4. Cached'
      BY <2>3 DEF Cached, FileIsNewer, NoDump
    <3>5. Pending' /\ Unread' /\ DumpsCurrent' /\ FreshReport' /\ Delivered'
      BY <2>1 DEF Pending, Unread, DumpsCurrent, FreshReport, Delivered
    <3>6. Recent' /\ Tarred'
      BY <1>3, <1>5, <2>1, <2>3 DEF Recent, Tarred, NoExe, NoCov, NoDump
    <3>7. QED
      BY <3>2, <3>3, <3>4, <3>5, <3>6 DEF PipelineInv
  <2>4. QED
    BY <1>start, <2>2, <2>3 DEF Start
<1>skip. CASE Skip
  <2>1. UNCHANGED << now, thisRun, toAnalyze, files, covoar, history >>
    BY <1>skip DEF Skip
  <2>2. UNCHANGED << now, invocation, opt, start, toAnalyze, configured, built, tests, cov,
                     dmp, tarballs, saved, todo, items, emptied, tarFailed >>
    BY <2>1 DEF thisRun, files, covoar, history
  <2>3. \/ pc = "configure" /\ pc' = "build"
        \/ pc = "build" /\ pc' = "copy"
        \/ pc = "copy" /\ pc' = "run" /\ "copy" \notin opt
        \/ pc = "run" /\ pc' = "reports"
    BY <1>skip DEF Skip, Steps
  <2>4. Cached' /\ DumpsCurrent' /\ FreshReport'
    BY <1>1, <2>1, QuietSteps
  <2>5. TypeOK' /\ Shapes'
    BY <1>2, <2>2, <2>3 DEF TypeOK, Shapes, Exits
  <2>6. Pending' /\ Unread' /\ Tarred' /\ Delivered'
    BY <1>2, <2>2, <2>3 DEF Pending, Unread, Before, Tarred, Delivered
  <2>7. Recent'
    BY <1>2, <2>2, <2>3 DEF Recent, Readable, Exe, Exits
  <2>8. QED
    BY <2>4, <2>5, <2>6, <2>7 DEF PipelineInv
<1>configure. CASE Configure
  <2>1. /\ pc = "configure" /\ configured' \in BOOLEAN /\ built' = [t \in Tests |-> 0]
        /\ pc' \in {"build", "exit1"}
        /\ UNCHANGED << now, invocation, opt, start, toAnalyze, tests, cov, dmp, tarballs, saved,
                       todo, items, emptied, tarFailed >>
    BY <1>configure DEF Configure, thisRun, covoar, history
  <2>2. TypeOK'
    BY <1>2, <1>3, <2>1 DEF TypeOK
  <2>3. Shapes'
    BY <1>2, <2>1 DEF Shapes, Exits
  <2>4. Cached'
    BY <1>2, <2>1 DEF Cached, Exe, Readable, FileIsNewer
  <2>5. Pending' /\ Unread' /\ Tarred' /\ DumpsCurrent' /\ FreshReport' /\ Delivered'
    BY <1>2, <2>1 DEF Pending, Unread, Before, Tarred, DumpsCurrent, FreshReport, Delivered
  <2>6. Recent'
    BY <1>2, <2>1 DEF Recent, Readable, Exe, Exits
  <2>7. QED
    BY <2>2, <2>3, <2>4, <2>5, <2>6 DEF PipelineInv
<1>build. CASE Build
  <2>1. /\ pc = "build" /\ now' = now + 1
        /\ pc' \in {"copy", "exit1"}
        /\ UNCHANGED << invocation, opt, start, toAnalyze, configured, tests, cov, dmp,
                       tarballs, saved, todo, items, emptied, tarFailed >>
    BY <1>build DEF Build, thisRun, covoar, history
  <2>2. PICK made \in SUBSET Tests :
          built' = [t \in Tests |-> IF t \in made THEN now' ELSE built[t]]
    BY <1>build DEF Build
  <2>3. TypeOK'
    <3>1. built' \in [Tests -> 0 .. now']
      BY <1>3, <1>4, <2>1, <2>2
    <3>2. \A t \in Tests :
            /\ tests[t].of \in 0 .. now' /\ tests[t].stamp \in tests[t].of .. now'
            /\ cov[t].of \in 0 .. now' /\ cov[t].by \in 0 .. invocation
            /\ dmp[t].of <= dmp[t].stamp /\ dmp[t].stamp <= now'
            /\ dmp[t].by \in 0 .. invocation
      BY <1>3, <1>4, <2>1
    <3>3. QED
      BY <1>2, <1>3, <2>1, <3>1, <3>2 DEF TypeOK
  <2>4. Shapes'
    BY <1>2, <2>1 DEF Shapes, Exits
  <2>5. Cached'
    <3>1. SUFFICES ASSUME NEW t \in Tests, Readable(t)', ~FileIsNewer(t)'
                   PROVE  dmp'[t].of = Exe(t)'.of
      BY DEF Cached
    <3>2. CASE t \in made /\ tests[t].link
      BY <1>3, <1>4, <2>1, <2>2, <3>1, <3>2 DEF FileIsNewer, Exe
    <3>3. CASE ~(t \in made /\ tests[t].link)
      <4>1. Exe(t)' = Exe(t)
        BY <1>3, <2>1, <2>2, <3>3 DEF Exe
      <4>2. QED
        BY <1>2, <2>1, <3>1, <4>1 DEF Cached, Readable, FileIsNewer
    <3>4. QED
      BY <3>2, <3>3
  <2>6. Pending' /\ Unread' /\ Tarred' /\ DumpsCurrent' /\ FreshReport' /\ Delivered'
    BY <1>2, <2>1 DEF Pending, Unread, Before, Tarred, DumpsCurrent, FreshReport, Delivered
  <2>7. Recent'
    <3>1. ASSUME NEW t \in Tests
          PROVE  ~tests[t].link => Exe(t)' = Exe(t)
      BY <2>1 DEF Exe
    <3>2. emptied = invocation => \A t \in Tests : ~tests[t].link
      BY <1>2, <2>1 DEF Recent
    <3>3. QED
      BY <1>2, <1>3, <2>1, <3>1, <3>2 DEF Recent, Readable, Exits
  <2>8. QED
    BY <2>3, <2>4, <2>5, <2>6, <2>7 DEF PipelineInv
<1>copy. CASE Copy
  <2>1. /\ pc = "copy" /\ pc' = "run" /\ "copy" \in opt
        /\ cov' = [t \in Tests |-> NoCov] /\ dmp' = [t \in Tests |-> NoDump]
        /\ tarballs' = {} /\ emptied' = invocation
        /\ UNCHANGED << now, invocation, opt, start, toAnalyze, configured, built, saved,
                       todo, items, tarFailed >>
    BY <1>copy DEF Copy, thisRun, covoar
  <2>2. \A t \in Tests : /\ Found(t) \in [link : BOOLEAN, of : Nat, stamp : Nat]
                         /\ Found(t).of <= Found(t).stamp /\ Found(t).stamp <= now
                         /\ Found(t).link => Found(t).of = 0
    <3>1. SUFFICES ASSUME NEW t \in Tests
                   PROVE  /\ Found(t) \in [link : BOOLEAN, of : Nat, stamp : Nat]
                          /\ Found(t).of <= Found(t).stamp /\ Found(t).stamp <= now
                          /\ Found(t).link => Found(t).of = 0
      OBVIOUS
    <3>2. \/ Found(t) = [link |-> FALSE, of |-> 0, stamp |-> 0]
          \/ Found(t) = [link |-> TRUE, of |-> 0, stamp |-> 0]
          \/ Found(t) = [link |-> FALSE, of |-> built[t], stamp |-> now]
      BY DEF Found, NoExe
    <3>3. built[t] \in Nat /\ built[t] <= now
      BY <1>4
    <3>4. CASE Found(t) = [link |-> FALSE, of |-> 0, stamp |-> 0]
      BY <1>3, <3>4
    <3>5. CASE Found(t) = [link |-> TRUE, of |-> 0, stamp |-> 0]
      BY <1>3, <3>5
    <3>6. CASE Found(t) = [link |-> FALSE, of |-> built[t], stamp |-> now]
      <4>1. Found(t).of = built[t] /\ Found(t).stamp = now /\ ~Found(t).link
        BY <3>6
      <4>2. QED
        BY <1>3, <3>3, <3>6, <4>1
    <3>7. QED
      BY <3>2, <3>4, <3>5, <3>6
  <2>3. PICK got \in SUBSET Tests :
          tests' = [t \in Tests |-> IF t \in got THEN Found(t) ELSE NoExe]
    BY <1>copy DEF Copy
  <2>4. \A t \in Tests : /\ tests'[t] \in [link : BOOLEAN, of : Nat, stamp : Nat]
                         /\ tests'[t].of <= tests'[t].stamp /\ tests'[t].stamp <= now
                         /\ tests'[t].link => tests'[t].of = 0
    <3>1. /\ NoExe \in [link : BOOLEAN, of : Nat, stamp : Nat]
          /\ NoExe.of = 0 /\ NoExe.stamp = 0
      BY DEF NoExe
    <3>2. ASSUME NEW t \in Tests PROVE tests'[t] \in {Found(t), NoExe}
      BY <2>3
    <3>3. QED
      BY <1>3, <2>2, <3>1, <3>2
  <2>5. TypeOK'
    BY <1>2, <1>3, <2>1, <2>4 DEF TypeOK, NoCov, NoDump
  <2>6. Shapes'
    BY <1>2, <2>1, <2>3, <2>4 DEF Shapes, Exits, NoCov, NoDump, Covers, Dumps
  <2>7. Cached' /\ Recent'
    BY <2>1 DEF Cached, FileIsNewer, Recent, NoDump, NoCov
  <2>8. items' = {}
    BY <1>2, <2>1 DEF Unread, Before
  <2>9. Pending' /\ Unread' /\ Tarred' /\ DumpsCurrent' /\ FreshReport' /\ Delivered'
    BY <1>2, <2>1, <2>8 DEF Pending, Unread, Tarred, DumpsCurrent, FreshReport, Delivered
  <2>10. QED
    BY <2>5, <2>6, <2>7, <2>9 DEF PipelineInv
<1>clean. CASE CleanFails
  <2>1. /\ pc = "copy" /\ pc' = "exit1"
        /\ UNCHANGED << now, invocation, opt, start, toAnalyze, configured, built, tarballs,
                       saved, todo, items, emptied, tarFailed >>
    BY <1>clean DEF CleanFails, thisRun, covoar, history
  <2>2. PICK gone \in SUBSET Tests :
          /\ tests' = [t \in Tests |-> IF t \in gone THEN NoExe ELSE tests[t]]
          /\ cov' = [t \in Tests |-> IF t \in gone THEN NoCov ELSE cov[t]]
          /\ dmp' = [t \in Tests |-> IF t \in gone THEN NoDump ELSE dmp[t]]
    BY <1>clean DEF CleanFails
  <2>3. ASSUME NEW t \in Tests
        PROVE  \/ tests'[t] = NoExe /\ cov'[t] = NoCov /\ dmp'[t] = NoDump
               \/ /\ tests'[t] = tests[t] /\ cov'[t] = cov[t] /\ dmp'[t] = dmp[t]
                  /\ Exe(t)' = Exe(t)
    BY <2>1, <2>2 DEF Exe
  <2>4. /\ NoExe \in [link : BOOLEAN, of : Nat, stamp : Nat]
        /\ NoExe.of = 0 /\ NoExe.stamp = 0 /\ ~NoExe.link
        /\ NoCov \in Covers /\ NoCov.of = 0 /\ NoCov.by = 0
        /\ NoDump \in Dumps /\ NoDump.of = 0 /\ NoDump.stamp = 0 /\ NoDump.by = 0
    BY DEF NoExe, NoCov, NoDump, Covers, Dumps
  <2>5. TypeOK'
    <3>1. ASSUME NEW t \in Tests
          PROVE  /\ tests'[t].of \in 0 .. now /\ tests'[t].stamp \in tests'[t].of .. now
                 /\ tests'[t].link => tests'[t].of = 0
                 /\ cov'[t].of \in 0 .. now /\ cov'[t].by \in 0 .. invocation
                 /\ dmp'[t].of <= dmp'[t].stamp /\ dmp'[t].stamp <= now
                 /\ dmp'[t].by \in 0 .. invocation
      BY <1>2, <1>3, <1>4, <2>3, <2>4 DEF TypeOK
    <3>2. QED
      BY <1>2, <2>1, <3>1 DEF TypeOK
  <2>6. Shapes'
    <3>1. /\ tests' \in [Tests -> [link : BOOLEAN, of : Nat, stamp : Nat]]
          /\ cov' \in [Tests -> Covers] /\ dmp' \in [Tests -> Dumps]
      BY <1>2, <2>2, <2>4 DEF Shapes
    <3>2. QED
      BY <1>2, <2>1, <3>1 DEF Shapes, Exits
  <2>7. Cached'
    BY <1>2, <2>3, <2>4 DEF Cached, Readable, FileIsNewer
  <2>8. Recent'
    BY <1>2, <2>1, <2>3, <2>4 DEF Recent, Readable, Exits
  <2>9. items' = {}
    BY <1>2, <2>1 DEF Unread, Before
  <2>10. Pending' /\ Unread' /\ Tarred' /\ DumpsCurrent' /\ FreshReport' /\ Delivered'
    BY <1>2, <2>1, <2>9 DEF Pending, Unread, Tarred, DumpsCurrent, FreshReport, Delivered
  <2>11. QED
    BY <2>5, <2>6, <2>7, <2>8, <2>10 DEF PipelineInv
<1>run. CASE RunTests
  <2>1. /\ pc = "run" /\ pc' = "reports"
        /\ UNCHANGED << now, invocation, opt, start, toAnalyze, configured, built, tests, dmp,
                       tarballs, saved, todo, items, emptied, tarFailed >>
    BY <1>run DEF RunTests, thisRun, covoar, history
  <2>2. PICK started \in SUBSET {t \in Tests : Readable(t)}, failed \in SUBSET Tests :
          cov' = [t \in Tests |-> IF t \notin started THEN cov[t]
                                 ELSE IF t \in failed THEN NoCov
                                 ELSE [of |-> Exe(t).of, by |-> invocation]]
    BY <1>run DEF RunTests
  <2>3. \A t \in Tests : cov'[t] \in {cov[t], NoCov, [of |-> Exe(t).of, by |-> invocation]}
    BY <2>2
  <2>4. \A t \in Tests : Exe(t)' = Exe(t)
    BY <2>1 DEF Exe
  <2>5. TypeOK'
    <3>1. \A t \in Tests : cov'[t].of \in 0 .. now /\ cov'[t].by \in 0 .. invocation
      BY <1>3, <1>4, <2>3 DEF NoCov
    <3>2. QED
      BY <1>2, <1>3, <2>1, <3>1 DEF TypeOK
  <2>6. Shapes'
    <3>1. cov' \in [Tests -> Covers]
      BY <1>2, <1>3, <1>4, <2>2 DEF Shapes, Covers, NoCov
    <3>2. QED
      BY <1>2, <2>1, <3>1 DEF Shapes, Exits
  <2>7. Cached'
    BY <1>2, <2>1, <2>4 DEF Cached, Readable, FileIsNewer
  <2>8. Recent'
    BY <1>2, <1>3, <2>1, <2>3, <2>4 DEF Recent, Readable, NoCov, Exits
  <2>9. Pending' /\ Unread' /\ Tarred' /\ DumpsCurrent' /\ FreshReport' /\ Delivered'
    BY <1>2, <2>1 DEF Pending, Unread, Before, Tarred, DumpsCurrent, FreshReport, Delivered
  <2>10. QED
    BY <2>5, <2>6, <2>7, <2>8, <2>9 DEF PipelineInv
<1>begin. CASE BeginReports
  <2>1. UNCHANGED << now, thisRun, files, covoar, history >>
    BY <1>begin DEF BeginReports
  <2>2. UNCHANGED << now, invocation, opt, start, configured, built, tests, cov,
                     dmp, tarballs, saved, todo, items, emptied, tarFailed >>
    BY <2>1 DEF thisRun, files, covoar, history
  <2>3. /\ pc = "reports"
        /\ \/ pc' = "symbols" /\ toAnalyze' = opt \cap Confs
           \/ "reports" \notin opt /\ pc' = "publish" /\ UNCHANGED toAnalyze
    BY <1>begin DEF BeginReports, Confs
  <2>4. Cached' /\ DumpsCurrent' /\ FreshReport' /\ (\A t \in Tests : Exe(t)' = Exe(t))
    BY <1>1, <2>1, QuietSteps
  <2>5. TypeOK'
    BY <1>2, <2>2, <2>3 DEF TypeOK, Confs
  <2>6. Shapes'
    BY <1>2, <2>2, <2>3 DEF Shapes, Exits
  <2>7. Pending' /\ Unread' /\ Delivered'
    BY <2>3 DEF Pending, Unread, Before, Delivered
  <2>8. Tarred'
    BY <1>2, <2>2, <2>3 DEF Tarred
  <2>9. Recent'
    BY <1>2, <2>2, <2>3, <2>4 DEF Recent, Readable, Exits
  <2>10. QED
    BY <2>4, <2>5, <2>6, <2>7, <2>8, <2>9 DEF PipelineInv
<1>symbols. CASE GenerateSymbols
  <2>1. /\ pc = "symbols" /\ pc' \in {"exit1", "covoar"}
        /\ todo' = {t \in Tests : Readable(t) /\ cov[t].of # 0} /\ items' = {}
        /\ UNCHANGED << now, invocation, opt, start, toAnalyze, configured, built, tests, cov,
                       dmp, tarballs, saved, emptied, tarFailed >>
    BY <1>symbols DEF GenerateSymbols, thisRun, files, history
  <2>2. \A t \in Tests : Exe(t)' = Exe(t)
    BY <2>1 DEF Exe
  <2>3. TypeOK'
    BY <1>2, <2>1 DEF TypeOK
  <2>4. Shapes'
    BY <1>2, <2>1 DEF Shapes, Exits
  <2>5. Cached' /\ Pending' /\ Unread'
    BY <1>2, <2>1, <2>2 DEF Cached, Pending, Unread, Before, Readable, FileIsNewer
  <2>6. Recent'
    BY <1>2, <2>1, <2>2 DEF Recent, Readable, Exits
  <2>7. Tarred' /\ DumpsCurrent' /\ FreshReport' /\ Delivered'
    BY <1>2, <2>1 DEF Tarred, Own, DumpsCurrent, FreshReport, Delivered
  <2>8. QED
    BY <2>3, <2>4, <2>5, <2>6, <2>7 DEF PipelineInv
<1>disassemble. CASE Disassemble
  <2>1. /\ pc = "covoar"
        /\ UNCHANGED << now, invocation, opt, start, toAnalyze, configured, built, tests, cov,
                       tarballs, saved, emptied, tarFailed >>
    BY <1>disassemble DEF Disassemble, thisRun, history
  <2>2. \A t \in Tests : Exe(t)' = Exe(t)
    BY <2>1 DEF Exe
  <2>3. PICK t \in todo :
          \/ /\ ~FileIsNewer(t) /\ Reads(t, dmp[t])
             /\ UNCHANGED dmp
          \/ \E objdumpOK, sedOK \in BOOLEAN :
               LET d == Dump(t, objdumpOK, sedOK)
               IN  /\ dmp' = [dmp EXCEPT ![t] = d]
                   /\ IF sedOK THEN Reads(t, d) ELSE pc' = "exit1" /\ UNCHANGED covoar
    BY <1>disassemble DEF Disassemble
  <2>4. t \in Tests /\ Readable(t) /\ cov[t].of # 0
    BY <1>2, <2>1, <2>3 DEF TypeOK, Pending
  \* What covoar reads next to its executable is as recent as that is.
  <2>5. /\ cov[t].by \in emptied .. invocation
        /\ cov[t].of = Exe(t).of \/ (tests[t].link /\ emptied < invocation)
    BY <1>2, <1>3, <1>4, <2>4 DEF Recent
  <2>6. CASE /\ ~FileIsNewer(t) /\ Reads(t, dmp[t])
             /\ UNCHANGED dmp
    <3>1. /\ pc' = "covoar" /\ todo' = todo \ {t} /\ dmp' = dmp
          /\ items' = items \cup {[test |-> t, exe |-> Exe(t).of, dump |-> dmp[t],
                                   cov |-> cov[t]]}
      BY <2>6 DEF Reads
    <3>2. TypeOK' /\ Shapes'
      BY <1>2, <2>1, <3>1 DEF TypeOK, Shapes, Exits
    <3>3. Cached' /\ Recent'
      BY <1>2, <2>1, <2>2, <3>1 DEF Cached, Recent, Readable, FileIsNewer
    <3>4. Pending' /\ Unread'
      BY <1>2, <2>1, <2>2, <3>1 DEF Pending, Unread, Before, Readable, TypeOK
    <3>5. Tarred' /\ Delivered'
      BY <1>2, <2>1, <3>1 DEF Tarred, Own, Delivered
    <3>6. DumpsCurrent'
      BY <1>2, <2>4, <2>6, <3>1 DEF DumpsCurrent, Cached
    <3>7. FreshReport'
      <4>1. /\ dmp[t].by \in emptied .. invocation
            /\ dmp[t].cut = "sed" => dmp[t].by < invocation
        BY <1>2, <1>3, <1>4, <2>1, <2>4, <2>6 DEF FileIsNewer, Recent, Exits
      <4>2. QED
        BY <1>2, <2>1, <2>4, <2>5, <3>1, <4>1 DEF FreshReport
    <3>8. QED
      BY <3>2, <3>3, <3>4, <3>5, <3>6, <3>7 DEF PipelineInv
  <2>7. ASSUME NEW objdumpOK \in BOOLEAN, NEW sedOK \in BOOLEAN, NEW d,
               d = Dump(t, objdumpOK, sedOK),
               dmp' = [dmp EXCEPT ![t] = d],
               IF sedOK THEN Reads(t, d) ELSE pc' = "exit1" /\ UNCHANGED covoar
        PROVE  PipelineInv'
    <3>1. /\ d \in Dumps /\ d.of = Exe(t).of /\ d.stamp = now /\ d.of <= now
          /\ d.by = invocation /\ (d.cut = "sed" => ~sedOK)
      BY <1>3, <1>4, <2>4, <2>7 DEF Dump, Dumps
    <3>2. \A u \in Tests : dmp'[u] = IF u = t THEN d ELSE dmp[u]
      BY <1>2, <2>7 DEF Shapes
    <3>3. \/ /\ sedOK /\ pc' = "covoar" /\ todo' = todo \ {t}
             /\ items' = items \cup {[test |-> t, exe |-> Exe(t).of, dump |-> d,
                                      cov |-> cov[t]]}
          \/ pc' = "exit1" /\ todo' = todo /\ items' = items
      BY <2>7 DEF Reads, covoar
    <3>4. TypeOK'
      <4>1. \A u \in Tests : /\ dmp'[u].of <= dmp'[u].stamp /\ dmp'[u].stamp <= now
                             /\ dmp'[u].by \in 0 .. invocation
        BY <1>3, <1>4, <3>1, <3>2
      <4>2. QED
        BY <1>2, <2>1, <3>3, <4>1 DEF TypeOK
    <3>5. Shapes'
      BY <1>2, <2>1, <2>7, <3>1, <3>3 DEF Shapes, Exits
    <3>6. Cached'
      BY <1>2, <2>1, <2>2, <3>1, <3>2 DEF Cached, Readable, FileIsNewer
    <3>7. Recent'
      <4>1. \A u \in Tests : dmp'[u].stamp # 0 =>
              /\ emptied <= dmp'[u].by
              /\ dmp'[u].cut = "sed" => dmp'[u].by < invocation \/ pc' \in Exits
        BY <1>2, <1>3, <2>1, <3>1, <3>2, <3>3 DEF Recent, Exits
      <4>2. QED
        BY <1>2, <2>1, <2>2, <3>3, <4>1 DEF Recent, Readable
    <3>8. Pending' /\ Unread'
      BY <1>2, <2>1, <2>2, <3>3 DEF Pending, Unread, Before, Readable, TypeOK
    <3>9. Tarred' /\ Delivered'
      BY <1>2, <2>1, <3>3 DEF Tarred, Own, Delivered
    <3>10. DumpsCurrent'
      BY <1>2, <3>1, <3>3 DEF DumpsCurrent
    <3>11. FreshReport'
      BY <1>2, <1>3, <2>1, <2>5, <3>1, <3>3 DEF FreshReport
    <3>12. QED
      BY <3>4, <3>5, <3>6, <3>7, <3>8, <3>9, <3>10, <3>11 DEF PipelineInv
  <2>8. QED
    BY <2>3, <2>6, <2>7
<1>fails. CASE CovoarFails
  <2>1. UNCHANGED << now, thisRun, files, covoar, history >> /\ UNCHANGED toAnalyze /\ pc' = "exit1"
    BY <1>fails DEF CovoarFails
  <2>2. UNCHANGED << now, invocation, opt, start, toAnalyze, configured, built, tests, cov,
                     dmp, tarballs, saved, todo, items, emptied, tarFailed >>
    BY <2>1 DEF thisRun, files, covoar, history
  <2>3. Cached' /\ DumpsCurrent' /\ FreshReport'
    BY <1>1, <2>1, QuietSteps
  <2>4. TypeOK' /\ Shapes'
    BY <1>2, <2>1, <2>2 DEF TypeOK, Shapes, Exits
  <2>5. Pending' /\ Unread' /\ Tarred' /\ Delivered'
    BY <1>2, <2>1, <2>2 DEF Pending, Unread, Before, Tarred, Delivered
  <2>6. Recent'
    BY <1>2, <2>1, <2>2 DEF Recent, Readable, Exe, Exits
  <2>7. QED
    BY <2>3, <2>4, <2>5, <2>6 DEF PipelineInv
<1>archive. CASE Archive
  <2>1. /\ pc = "covoar" /\ todo = {} /\ pc' = "symbols" /\ toAnalyze' = toAnalyze \ {Conf}
        /\ UNCHANGED << now, invocation, opt, start, configured, built, tests, cov, dmp, saved,
                       todo, items, emptied >>
    BY <1>archive DEF Archive, thisRun, covoar
  <2>2. PICK w \in BOOLEAN : \/ /\ tarballs' = Overwrite(tarballs, {[name |-> Name(Conf),
                                       conf |-> Conf, by |-> invocation, whole |-> w]})
                              /\ IF w THEN tarFailed' = tarFailed
                                      ELSE tarFailed' = tarFailed \cup {Conf}
                           \/ /\ tarballs' = tarballs
                              /\ tarFailed' = tarFailed \cup {Conf}
    BY <1>archive DEF Archive
  <2> DEFINE new == [name |-> Name(Conf), conf |-> Conf, by |-> invocation, whole |-> w]
  <2>3. \/ tarballs' = Overwrite(tarballs, {new}) /\ w /\ tarFailed' = tarFailed
        \/ tarballs' = Overwrite(tarballs, {new}) /\ ~w /\ tarFailed' = tarFailed \cup {Conf}
        \/ tarballs' = tarballs /\ tarFailed' = tarFailed \cup {Conf}
    BY <2>2
  <2>4. /\ new \in Archived /\ new.by = invocation /\ invocation >= 1
        /\ new.name.at \in {0, start} /\ new.whole = w /\ new.conf = Conf
    BY <1>2, <1>3, <2>1 DEF Archived, Name, Conf, Confs, Shapes, Exits
  <2>5. tarballs' \subseteq tarballs \cup {new} /\ tarFailed \subseteq tarFailed'
    BY <2>3 DEF Overwrite
  <2>6. TypeOK'
    <3>1. \A x \in tarballs' \cup saved : x.by \in 1 .. invocation /\ x.name.at <= start
      BY <1>3, <1>5, <2>4, <2>5
    <3>2. QED
      BY <1>2, <2>1, <3>1 DEF TypeOK
  <2>7. Shapes'
    BY <1>2, <2>1, <2>4, <2>5 DEF Shapes, Exits
  <2>8. Cached' /\ Recent'
    BY <1>2, <2>1, <2>5 DEF Cached, Recent, Readable, FileIsNewer, Exe, Exits
  <2>9. Pending' /\ Unread' /\ DumpsCurrent' /\ FreshReport' /\ Delivered'
    BY <1>2, <2>1, <2>5 DEF Pending, Unread, Before, DumpsCurrent, FreshReport, Delivered
  <2>10. Tarred'
    <3>0. \A x \in tarballs' \cup saved' : x.by = invocation' => x.whole \/ x.conf \in tarFailed'
      <4>1. \A x \in tarballs \cup saved : x.by = invocation => x.whole \/ x.conf \in tarFailed
        BY <1>2 DEF Tarred
      <4>2. new \in tarballs' => new \in tarballs \/ w \/ Conf \in tarFailed'
        BY <2>3
      <4>3. QED
        BY <2>1, <2>4, <2>5, <4>1, <4>2
    <3>1. SUFFICES ASSUME "reports" \in opt, "out" \notin opt,
                          NEW c \in (opt \cap Confs) \ (toAnalyze' \cup tarFailed')
                   PROVE  Own(c) \in tarballs'
      BY <2>1, <3>0 DEF Tarred, Own
    <3>2. CASE c = Conf
      <4>1. tarballs' = Overwrite(tarballs, {new}) /\ w = TRUE
        BY <2>3, <3>1, <3>2
      <4>2. new = Own(c)
        BY <3>1, <3>2, <4>1 DEF Own, Name
      <4>3. QED
        BY <4>1, <4>2 DEF Overwrite
    <3>3. CASE c # Conf
      <4>1. Own(c) \in tarballs
        BY <1>2, <2>1, <2>5, <3>1, <3>3 DEF Tarred
      <4>2. Own(c).name # new.name
        BY <3>1, <3>3 DEF Own, Name
      <4>3. QED
        BY <2>3, <4>1, <4>2 DEF Overwrite
    <3>4. QED
      BY <3>2, <3>3
  <2>11. QED
    BY <2>6, <2>7, <2>8, <2>9, <2>10 DEF PipelineInv
<1>done. CASE ReportsDone
  <2>1. /\ UNCHANGED << now, thisRun, files, covoar, history >> /\ UNCHANGED toAnalyze
        /\ pc = "symbols" /\ toAnalyze = {} /\ pc' = "publish"
    BY <1>done DEF ReportsDone
  <2>2. UNCHANGED << now, invocation, opt, start, toAnalyze, configured, built, tests, cov,
                     dmp, tarballs, saved, todo, items, emptied, tarFailed >>
    BY <2>1 DEF thisRun, files, covoar, history
  <2>3. Cached' /\ DumpsCurrent' /\ FreshReport' /\ (\A t \in Tests : Exe(t)' = Exe(t))
    BY <1>1, <2>1, QuietSteps
  <2>4. TypeOK' /\ Shapes'
    BY <1>2, <2>1, <2>2 DEF TypeOK, Shapes, Exits
  <2>5. Pending' /\ Unread' /\ Delivered'
    BY <2>1 DEF Pending, Unread, Before, Delivered
  <2>6. Recent' /\ Tarred'
    BY <1>2, <2>1, <2>2, <2>3 DEF Recent, Tarred, Own, Readable, Exits
  <2>7. QED
    BY <2>3, <2>4, <2>5, <2>6 DEF PipelineInv
<1>publish. CASE Publish
  <2>1. /\ pc = "publish" /\ pc' \in Exits
        /\ UNCHANGED << now, invocation, opt, start, toAnalyze, configured, built, tests, cov,
                       dmp, tarballs, todo, items, emptied, tarFailed >>
    BY <1>publish DEF Publish, thisRun, covoar, history, Exits
  <2>2. \/ saved' = Overwrite(saved, Matching) /\ Matching # {}
        \/ saved' = saved /\ (pc' = "exit1" \/ opt \cap {"publish", "save"} = {})
    BY <1>publish DEF Publish
  <2>3. saved' \subseteq saved \cup tarballs
    BY <2>2 DEF Overwrite, Matching
  <2>4. TypeOK'
    BY <1>2, <2>1, <2>3 DEF TypeOK, Exits
  <2>5. Shapes'
    BY <1>2, <2>1, <2>3 DEF Shapes
  <2>6. Cached' /\ DumpsCurrent' /\ FreshReport'
    BY <1>2, <2>1 DEF Cached, DumpsCurrent, FreshReport, Exe, Readable, FileIsNewer
  <2>7. Pending' /\ Unread' /\ Recent' /\ Tarred'
    BY <1>2, <2>1, <2>3 DEF Pending, Unread, Before, Recent, Readable, Exe, Tarred, Exits
  <2>8. Delivered'
    <3>0. pc' = "exit0" /\ opt \cap {"publish", "save"} # {} =>
            /\ \E x \in saved' : x.name.at = start
            /\ \A x \in saved' : x.by = invocation => x.whole \/ x.conf \in tarFailed
      BY <1>2, <2>2, <2>3 DEF Overwrite, Matching, Tarred
    <3>1. SUFFICES ASSUME pc' = "exit0", "reports" \in opt, opt \cap {"publish", "save"} # {},
                          "out" \notin opt, NEW c \in (opt \cap Confs) \ tarFailed
                   PROVE  Own(c) \in saved'
      BY <2>1, <3>0 DEF Delivered, Confs, Own
    <3>2. Own(c) \in tarballs
      BY <1>2, <2>1, <3>1 DEF Tarred
    <3>3. Own(c) \in Matching
      BY <3>2 DEF Own, Matching
    <3>4. QED
      BY <2>2, <3>1, <3>3 DEF Overwrite
  <2>9. QED
    BY <2>4, <2>5, <2>6, <2>7, <2>8 DEF PipelineInv
<1>stutter. CASE UNCHANGED vars
  BY <1>2, <1>stutter DEF vars, thisRun, files, covoar, history, PipelineInv, TypeOK, Shapes, Cached, Pending,
     Unread, Recent, Tarred, Own, DumpsCurrent, FreshReport, Delivered, Exe, Readable, FileIsNewer
<1>qed. QED
  BY <1>1, <1>start, <1>skip, <1>configure, <1>build, <1>copy, <1>clean, <1>run, <1>begin, <1>symbols,
     <1>disassemble, <1>fails, <1>archive, <1>done, <1>publish, <1>stutter DEF Next

\* The invariant of the pipeline holds throughout.
THEOREM PipelineInvariant == Spec => []PipelineInv
BY InitPipelineInv, NextPipelineInv, PTL DEF Spec

(***************************************************************************)
(* The variables stay in their types, and a link has no content of its own.*)
(***************************************************************************)
THEOREM TypeCorrect == Spec => []TypeOK
<1>1. PipelineInv => TypeOK
  BY DEF PipelineInv
<1>2. QED
  BY <1>1, PipelineInvariant, PTL

(***************************************************************************)
(* The disassembly covoar reads is of the executable it analyzes:          *)
(* FileIsNewer and the rm of BSP-tests are enough, whatever is rebuilt in  *)
(* between.                                                                *)
(***************************************************************************)
THEOREM CacheCurrent == Spec => []DumpsCurrent
<1>1. PipelineInv => DumpsCurrent
  BY DEF PipelineInv
<1>2. QED
  BY <1>1, PipelineInvariant, PTL

(***************************************************************************)
(* What a report rests on was made since BSP-tests was last emptied, by    *)
(* this invocation if it copied the tests; coverage of another build comes *)
(* through rebuilt links only, and a dump sed left unfinished is never one *)
(* of this invocation.                                                     *)
(***************************************************************************)
THEOREM ReportFresh == Spec => []FreshReport
<1>1. PipelineInv => FreshReport
  BY DEF PipelineInv
<1>2. QED
  BY <1>1, PipelineInvariant, PTL

(***************************************************************************)
(* An invocation that ends well and saves or publishes has saved some      *)
(* archive of that minute, and its own whole archive of every              *)
(* configuration it was asked to report on, unless tar failed on that one  *)
(* or results went to a given directory; what it saved of its own and is   *)
(* not whole is what tar failed on.                                        *)
(***************************************************************************)
THEOREM ArchivesDelivered == Spec => []Delivered
<1>1. PipelineInv => Delivered
  BY DEF PipelineInv
<1>2. QED
  BY <1>1, PipelineInvariant, PTL
=============================================================================
