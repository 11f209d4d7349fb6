------------------------------- MODULE SimRun -------------------------------
(***************************************************************************)
(* sim-scripts/gdb-sim-run.in: the script that runs a list of test         *)
(* executables on a simulator.  It starts the simulator in the background, *)
(* looks every 50 ms whether it is gone, over time, or has written a       *)
(* message that ends the test, kills it, and runs a test again whose log   *)
(* is empty.  Script and simulator run concurrently and share the log      *)
(* file and the process table.  Operators named Slip... are wrong variants *)
(* of the definition that follows them; no specification uses them.        *)
(***************************************************************************)
EXTENDS Integers, Sequences, FiniteSets

CONSTANTS
  Inputs,   (* the command lines and BSP settings to consider: InputType    *)
  Limit     (* max_run_time in polls of 50 ms                               *)

\* A test is run, skipped because of its name, or refused (node 2 of an MP
\* test).  forever: interactive, without a limit.  trusted, failsRandomly:
\* bspSimTrustedToExit and bspRunsFailRandomly.
InputType == [tests : Seq({"run", "skip", "refused"}), coverage : BOOLEAN,
              forever : BOOLEAN, trusted : BOOLEAN, failsRandomly : BOOLEAN]

ASSUME InputAssumption == Inputs \subseteq InputType /\ Limit \in Nat \ {0}

VARIABLES
  in,        (* command line and BSP settings                               *)
  at,        (* where the script is                                         *)
  test,      (* number of tests begun                                       *)
  tries,     (* runs of this test                                           *)
  polls,     (* milliseconds / 50                                           *)
  why,       (* what the script said about the end of the run               *)
  back,      (* where killpid returns to                                    *)
  warned,    (* the WARNINGs printed: test, and whether its log was empty   *)
  run,       (* the simulators started; the last is $pid                    *)
  alive,     (* the simulators running                                      *)
  opened,    (* those that have opened, and thereby emptied, their log      *)
  log,       (* the marks in the log file of the test, or NoLog             *)
  endedAt,   (* history: polls when the current run wrote its end message   *)
  wrote      (* history: the marks the current run wrote                    *)

script == << test, tries, polls, why, back, warned >>
system == << run, alive, opened, log, endedAt, wrote >>
runVars == << in, at, test, tries, polls, why, back, warned,
              run, alive, opened, log, endedAt, wrote >>

\* Anything else a test prints; a clean end; a message checkBSPFaults or the
\* second list of checkGenericExits looks for.
Mark  == {"text", "end", "fault", "error"}
NoLog == {"absent"}
Never == Limit + 1

RunInit ==
  /\ in \in Inputs
  /\ at = "next" /\ test = 0 /\ tries = 0 /\ polls = 0 /\ why = "none" /\ back = "none"
  /\ warned = {}
  /\ run = 0 /\ alive = {} /\ opened = {} /\ log = NoLog /\ endedAt = Never
  /\ wrote = {}
-----------------------------------------------------------------------------
(***************************************************************************)
(* The simulator.  The subshell the script forks opens the log file before *)
(* it becomes the simulator; until then the log of an earlier run is seen. *)
(***************************************************************************)
SlipOpenLog ==
  /\ \E r \in alive \ opened : opened' = opened \cup {r}
  /\ log' = IF log = NoLog THEN {} ELSE log
  /\ UNCHANGED << in, at, script, run, alive, endedAt, wrote >>
OpenLog ==
  /\ \E r \in alive \ opened : opened' = opened \cup {r}
  /\ log' = IF in.forever THEN log ELSE {}
  /\ UNCHANGED << in, at, script, run, alive, endedAt, wrote >>

Write ==
  /\ ~in.forever /\ alive \cap opened # {}
  /\ \E mark \in Mark \ log :
       /\ log' = log \cup {mark, "text"}
       /\ endedAt' = IF mark = "end" /\ run \in opened THEN polls ELSE endedAt
       /\ wrote' = IF run \in opened THEN wrote \cup {mark, "text"} ELSE wrote
  /\ UNCHANGED << in, at, script, run, alive, opened >>

Exit ==
  /\ \E r \in alive \cap opened : alive' = alive \ {r}
  /\ UNCHANGED << in, at, script, run, opened, log, endedAt, wrote >>
-----------------------------------------------------------------------------
(***************************************************************************)
(* The loop over the tests.  The log directory may hold the log of an      *)
(* earlier invocation.                                                     *)
(***************************************************************************)
Begin(kind) ==
  /\ at = "next" /\ test < Len(in.tests)
  /\ IF in.forever THEN "run" = kind ELSE in.tests[test + 1] = kind
  /\ test' = test + 1

BeginRun ==
  /\ Begin("run")
  /\ tries' = 1
  /\ log' \in {NoLog, {"text", "end"}}
  /\ at' = "launch"
  /\ UNCHANGED << in, polls, why, back, warned, run, alive, opened, endedAt, wrote >>

SkipTest ==
  /\ Begin("skip")
  /\ UNCHANGED << in, at, tries, polls, why, back, warned, system >>

Refuse ==
  /\ Begin("refused")
  /\ at' = "exit"
  /\ UNCHANGED << in, tries, polls, why, back, warned, system >>

Finish ==
  /\ at = "next" /\ test = Len(in.tests)
  /\ at' = "exit"
  /\ UNCHANGED << in, script, system >>
-----------------------------------------------------------------------------
(***************************************************************************)
(* runtest.  In the foreground, when it has no limit or the simulator is   *)
(* trusted to exit, the script waits; else it polls.                       *)
(***************************************************************************)
Launch ==
  /\ at = "launch"
  /\ run' = run + 1 /\ alive' = alive \cup {run + 1}
  /\ polls' = 0 /\ why' = "none" /\ endedAt' = Never /\ wrote' = {}
  /\ at' = IF in.forever \/ in.trusted THEN "wait" ELSE "poll"
  /\ UNCHANGED << in, test, tries, back, warned, opened, log >>

WaitDone ==
  /\ at = "wait" /\ run \notin alive
  /\ at' = IF in.forever THEN "next" ELSE "report"
  /\ UNCHANGED << in, script, system >>

PollGone ==
  /\ at = "poll" /\ run \notin alive
  /\ polls' = polls + 1 /\ why' = "done" /\ at' = "report"
  /\ UNCHANGED << in, test, tries, back, warned, system >>

\* kill as the last thing runtest does about the simulator.
Kill(reason) == why' = reason /\ back' = "report" /\ at' = "interrupt"

SlipPollOverTime ==
  /\ at = "poll" /\ run \in alive /\ polls + 1 >= Limit
  /\ at' = IF log = NoLog THEN "poll" ELSE "faults"
  /\ UNCHANGED << in, test, tries, polls, why, back, warned, system >>
PollOverTime ==
  /\ at = "poll" /\ run \in alive /\ polls + 1 >= Limit
  /\ polls' = polls + 1
  /\ Kill("overTime")
  /\ UNCHANGED << in, test, tries, warned, system >>

\* Nothing to look at while there is no log.
PollRunning ==
  /\ at = "poll" /\ run \in alive /\ polls + 1 < Limit
  /\ polls' = polls + 1
  /\ at' = IF log = NoLog THEN "poll" ELSE "faults"
  /\ UNCHANGED << in, test, tries, why, back, warned, system >>

CheckFaults ==
  /\ at = "faults"
  /\ IF "fault" \in log THEN Kill("fault")
                        ELSE at' = "generic" /\ UNCHANGED << why, back >>
  /\ UNCHANGED << in, test, tries, polls, warned, system >>

\* With coverage, a clean end is followed by killing until it is gone.
CheckGeneric ==
  /\ at = "generic"
  /\ \/ "end" \in log /\ in.coverage /\ at' = "flush" /\ UNCHANGED << why, back >>
     \/ "end" \in log /\ ~in.coverage /\ Kill("genericExit")
     \/ "end" \notin log /\ "error" \in log /\ Kill("genericExit")
     \/ log \cap {"end", "error"} = {} /\ at' = "poll" /\ UNCHANGED << why, back >>
  /\ UNCHANGED << in, test, tries, polls, warned, system >>

Flush ==
  /\ at = "flush"
  /\ IF run \in alive THEN at' = "interrupt" /\ back' = "flush" /\ UNCHANGED why
                      ELSE Kill("genericExit")
  /\ UNCHANGED << in, test, tries, polls, warned, system >>

\* killpid: an interrupt, which the simulator may ignore or act on at once or
\* later, a pause, and a kill.
Interrupt ==
  /\ at = "interrupt"
  /\ alive' \in {alive, alive \ {run}}
  /\ at' = "kill"
  /\ UNCHANGED << in, script, run, opened, log, endedAt, wrote >>

SlipKill9 ==
  /\ at = "kill"
  /\ at' = back
  /\ UNCHANGED << in, script, system >>
Kill9 ==
  /\ at = "kill"
  /\ alive' = alive \ {run}
  /\ at' = back
  /\ UNCHANGED << in, script, run, opened, log, endedAt, wrote >>

Report ==
  /\ at = "report"
  /\ at' = IF in.failsRandomly THEN "retry" ELSE "next"
  /\ UNCHANGED << in, script, system >>
-----------------------------------------------------------------------------
(***************************************************************************)
(* A run whose log is empty is repeated, up to three runs in all.          *)
(***************************************************************************)
NoOutput == log \in {{}, NoLog}

SlipRetryBound ==
  /\ at = "retry" /\ NoOutput /\ tries <= 3
  /\ tries' = tries + 1
  /\ at' = "launch"
  /\ UNCHANGED << in, test, polls, why, back, warned, system >>
SlipRetry ==
  /\ at = "retry" /\ tries < 3
  /\ tries' = tries + 1
  /\ at' = "launch"
  /\ UNCHANGED << in, test, polls, why, back, warned, system >>
Retry ==
  /\ at = "retry" /\ NoOutput /\ tries < 3
  /\ tries' = tries + 1
  /\ at' = "launch"
  /\ UNCHANGED << in, test, polls, why, back, warned, system >>

EndRetries ==
  /\ at = "retry" /\ ~(NoOutput /\ tries < 3)
  /\ warned' = IF tries = 3 THEN warned \cup {[test |-> test, empty |-> NoOutput]}
                            ELSE warned
  /\ at' = "next"
  /\ UNCHANGED << in, test, tries, polls, why, back, system >>

Script == \/ BeginRun \/ SkipTest \/ Refuse \/ Finish
          \/ Launch \/ WaitDone \/ PollGone \/ PollOverTime \/ PollRunning
          \/ CheckFaults \/ CheckGeneric \/ Flush \/ Interrupt \/ Kill9 \/ Report
          \/ Retry \/ EndRetries
Simulator == OpenLog \/ Write \/ Exit
RunNext == Script \/ Simulator

\* The script is never stopped; the simulator owes nothing, it may hang.
RunSpec     == RunInit /\ [][RunNext]_runVars
FairRunSpec == RunSpec /\ WF_runVars(Script)
-----------------------------------------------------------------------------
Numbers ==
  /\ test \in 0 .. Len(in.tests) /\ tries \in 0 .. 3 /\ polls \in 0 .. Limit
  /\ run \in 0 .. 3 * Len(in.tests) /\ endedAt \in 0 .. Limit + 1
Words ==
  /\ in \in Inputs
  /\ at \in {"next", "launch", "wait", "poll", "faults", "generic", "flush",
             "interrupt", "kill", "report", "retry", "exit"}
  /\ why \in {"none", "done", "overTime", "fault", "genericExit"}
  /\ back \in {"none", "report", "flush"}
  /\ warned \subseteq [test : Nat, empty : BOOLEAN]
Shared ==
  /\ alive \subseteq 1 .. run /\ opened \subseteq 1 .. run
  /\ (log = NoLog \/ log \subseteq Mark) /\ wrote \subseteq Mark

(***************************************************************************)
(* The variables stay within their types; a test is run at most 3 times,   *)
(* and nobody writes to a log that does not exist.                         *)
(***************************************************************************)
RunTypeOK == Numbers /\ Words /\ Shared

(***************************************************************************)
(* Two simulators never run at once, so no test disturbs the next one or   *)
(* writes into the log of its own rerun; while the script reports a run or *)
(* looks whether to repeat it, none is left (runtest 303-388, killpid).    *)
(***************************************************************************)
OneSimulator ==
  /\ Cardinality(alive) <= 1
  /\ at \in {"launch", "report", "retry", "next", "exit"} => alive = {}

(***************************************************************************)
(* What the script says of the end of a run is true of that run.  A test   *)
(* that ended in time is not reported as over time: what the script can    *)
(* miss is an end message written in the last 50 ms before the limit (the  *)
(* order of the checks in 350-380).  And once the run has opened its log,  *)
(* the script sees nothing there but what this run wrote: a message left   *)
(* by an earlier run can end this one only before that (364-379).          *)
(***************************************************************************)
VerdictHonest ==
  /\ why = "overTime" => endedAt >= Limit - 1
  /\ at \in {"faults", "generic"} /\ run \in opened => log \subseteq wrote

(***************************************************************************)
(* A test that printed anything is not run again: its log, the evidence of *)
(* a failure, is never overwritten by a rerun (476-483).                   *)
(***************************************************************************)
OutputKept == [][run' = run + 1 /\ tries > 1 => log \subseteq {"absent"}]_runVars

(***************************************************************************)
(* However the simulator behaves, the script gets through its list unless  *)
(* it was told to wait for the simulator (346-385).                        *)
(***************************************************************************)
Finishes == in.forever \/ in.trusted \/ <>(at = "exit")

(***************************************************************************)
(* Line 485: "WARNING ${toRun} does not look like it had any output".      *)
(***************************************************************************)
WarningMeansNoOutput == \A w \in warned : w.empty
=============================================================================
