------------------------------ MODULE Scenario ------------------------------
(***************************************************************************)
(* The chaos-scenario framework (internal/validation): the process harness *)
(* that starts and stops the services of a scenario, the injectors, and    *)
(* ScenarioRunner.Run, whose deferred calls (Injector.Recover, then the    *)
(* teardown, then recover of a panic) run in every way out.  The           *)
(* observers, the validators and the recovery conditions are choices: what *)
(* they return is not the runner's.                                        *)
(***************************************************************************)
EXTENDS Integers, Sequences

CONSTANTS
  StartOrder,  \* the processes of the stack in the order they are started
  Targets,     \* the processes of the injector's target, in the harness's order
  Deadline     \* Metadata.Timeout > 0: the scoped context expires

ASSUME ScenarioAssumption ==
  /\ StartOrder \in Seq(STRING) /\ Targets \in Seq(STRING)
  /\ \A i \in 1..Len(Targets) : \E j \in 1..Len(StartOrder) : Targets[i] = StartOrder[j]
  /\ Deadline \in BOOLEAN

VARIABLES
  spc,       \* where Run is
  sNext,     \* the next process to start, signal, thaw or stop
  injector,  \* "crash", "freeze" or "compose" (an injector that only fails)
  os,        \* process -> "none", "up", "stopped" (SIGSTOP) or "dead"
  frozen,    \* ProcessFreeze.frozen: set by Inject
  deferred,  \* the deferred calls registered so far
  outcome,   \* report.Outcome; "" until it is set
  report     \* what Run returned: "none" before, "nil" after a panic

scenVars == <<spc, sNext, injector, os, frozen, deferred, outcome, report>>

Procs == {StartOrder[i] : i \in 1..Len(StartOrder)}
Outcomes == {"passed", "failed", "skipped", "timed_out", "error"}

ScenTypeOK ==
  /\ spc \in {"new", "setup", "require", "baseline", "inject", "wait", "post", "validate",
              "accept", "recover", "teardown", "done", "aborted"}
  /\ sNext \in 0..Len(StartOrder) + 1 \/ sNext \in 1..Len(Targets) + 1
  /\ injector \in {"crash", "freeze", "compose"}
  /\ os \in [Procs -> {"none", "up", "stopped", "dead"}]
  /\ frozen \in BOOLEAN
  /\ deferred \subseteq {"teardown", "recover"}
  /\ outcome \in Outcomes \cup {""}
  /\ report \in Outcomes \cup {"none", "nil"}

ScenInit ==
  /\ spc = "new"
  /\ sNext = 1
  /\ injector \in {"crash", "freeze", "compose"}
  /\ os = [p \in Procs |-> "none"]
  /\ frozen = FALSE
  /\ deferred = {}
  /\ outcome = ""
  /\ report = "none"

\* Where Run goes when it returns or panics: the deferred calls, last one first.
Unwinds(panic) ==
  /\ IF "recover" \in deferred
     THEN spc' = "recover" /\ sNext' = 1
     ELSE spc' = "teardown" /\ sNext' = Len(StartOrder)
  /\ report' = IF panic THEN "nil" ELSE outcome'

-----------------------------------------------------------------------------
(* Setup: StartStackForChaos. *)

RunCalled ==
  /\ spc = "new"
  /\ spc' = "setup"
  /\ UNCHANGED <<sNext, injector, os, frozen, deferred, outcome, report>>

StartProcess ==
  /\ spc = "setup"
  /\ sNext <= Len(StartOrder)
  /\ os' = [os EXCEPT ![StartOrder[sNext]] = "up"]
  /\ sNext' = sNext + 1
  /\ UNCHANGED <<spc, injector, frozen, deferred, outcome, report>>

\* require.NoError or t.Fatalf ends the goroutine before Setup has returned: the
\* teardown is not registered and what was started keeps running.
SetupAborts ==
  /\ spc = "setup"
  /\ spc' = "aborted"
  /\ UNCHANGED <<sNext, injector, os, frozen, deferred, outcome, report>>

SetupReturns ==
  /\ spc = "setup"
  /\ sNext = Len(StartOrder) + 1
  /\ spc' = "require"
  /\ deferred' = {"teardown"}
  /\ UNCHANGED <<sNext, injector, os, frozen, outcome, report>>

-----------------------------------------------------------------------------
(* The phases of Run. *)

\* CheckRequirements
RequirementsMet ==
  /\ spc = "require"
  /\ spc' = "baseline"
  /\ UNCHANGED <<sNext, injector, os, frozen, deferred, outcome, report>>

RequirementsUnmet ==
  /\ spc = "require"
  /\ outcome' = "skipped"
  /\ Unwinds(FALSE)
  /\ UNCHANGED <<injector, os, frozen, deferred>>

\* observeAll with the error of a required observer, in either phase.
ObserveFails ==
  /\ spc \in {"baseline", "post"}
  /\ outcome' = "error"
  /\ Unwinds(FALSE)
  /\ UNCHANGED <<injector, os, frozen, deferred>>

\* observeAll, and the deferred Recover that follows it.
BaselineObserved ==
  /\ spc = "baseline"
  /\ spc' = "inject"
  /\ sNext' = 1
  /\ deferred' = deferred \cup {"recover"}
  /\ UNCHANGED <<injector, os, frozen, outcome, report>>

\* One signal of ProcessCrash.Inject or ProcessFreeze.Inject.
InjectSignals ==
  /\ spc = "inject"
  /\ injector # "compose"
  /\ sNext <= Len(Targets)
  /\ os' = [os EXCEPT ![Targets[sNext]] =
              IF injector = "crash" \/ @ = "dead" THEN "dead" ELSE "stopped"]
  /\ frozen' = (injector = "freeze")
  /\ sNext' = sNext + 1
  /\ UNCHANGED <<spc, injector, deferred, outcome, report>>

\* A signal that is refused, or an injector that needs Docker Compose.
InjectFails ==
  /\ spc = "inject"
  /\ sNext <= Len(Targets)
  /\ frozen' = (injector = "freeze")
  /\ outcome' = "error"
  /\ Unwinds(FALSE)
  /\ UNCHANGED <<injector, os, deferred>>

Injected ==
  /\ spc = "inject"
  /\ injector # "compose"
  /\ sNext = Len(Targets) + 1
  /\ spc' = "wait"
  /\ UNCHANGED <<sNext, injector, os, frozen, deferred, outcome, report>>

\* CompositeWaiter.Wait: its conditions were met at a poll.
Recovered ==
  /\ spc = "wait"
  /\ spc' = "post"
  /\ UNCHANGED <<sNext, injector, os, frozen, deferred, outcome, report>>

\* Wait returns when the scoped context is done; Run goes on observing.
WaitEnds ==
  /\ spc = "wait"
  /\ Deadline
  /\ outcome' = "timed_out"
  /\ spc' = "post"
  /\ UNCHANGED <<sNext, injector, os, frozen, deferred, report>>

PostObserved ==
  /\ spc = "post"
  /\ spc' = "validate"
  /\ UNCHANGED <<sNext, injector, os, frozen, deferred, outcome, report>>

\* The validators decide only if nothing else has.
Verdict(ok) ==
  IF outcome # "" THEN outcome ELSE IF ok THEN "passed" ELSE "failed"

Validates(ok) ==
  /\ spc = "validate"
  /\ outcome' = Verdict(ok)
  /\ spc' = "accept"
  /\ UNCHANGED <<sNext, injector, os, frozen, deferred, report>>

\* evaluateAcceptance: a missed criterion with policy AcceptFail fails the run
\* whatever its outcome was.
Accepts(missed) ==
  /\ spc = "accept"
  /\ outcome' = IF missed THEN "failed" ELSE outcome
  /\ Unwinds(FALSE)
  /\ UNCHANGED <<injector, os, frozen, deferred>>

\* A panic in a phase: the outcome is set to error, but Run's result is not named.
Panics ==
  /\ spc \in {"require", "baseline", "inject", "wait", "post", "validate", "accept"}
  /\ outcome' = "error"
  /\ Unwinds(TRUE)
  /\ UNCHANGED <<injector, os, frozen, deferred>>

-----------------------------------------------------------------------------
(* The deferred calls. *)

RecoverEnds ==
  /\ spc' = "teardown"
  /\ sNext' = Len(StartOrder)

\* One SIGCONT of ProcessFreeze.Recover.
Thaws ==
  /\ spc = "recover"
  /\ frozen
  /\ sNext <= Len(Targets)
  /\ os' = [os EXCEPT ![Targets[sNext]] = IF @ = "stopped" THEN "up" ELSE @]
  /\ sNext' = sNext + 1
  /\ UNCHANGED <<spc, injector, frozen, deferred, outcome, report>>

\* Recover is done, or gives up at a signal that is refused.
RecoverReturns ==
  /\ spc = "recover"
  /\ RecoverEnds
  /\ UNCHANGED <<injector, os, frozen, deferred, outcome, report>>

\* Mutant: the process is asked to stop and not killed when it does not.
Terminated_Asked(state) == IF state = "stopped" THEN "stopped" ELSE "dead"

\* killProcess: SIGTERM, and after 10 s Kill; a stopped process needs the latter.
Terminated(state) == "dead"

\* One cleanup of the teardown, in the reverse order of the starts.
Cleanup ==
  /\ spc = "teardown"
  /\ sNext > 0
  /\ os' = [os EXCEPT ![StartOrder[sNext]] = Terminated(@)]
  /\ sNext' = sNext - 1
  /\ UNCHANGED <<spc, injector, frozen, deferred, outcome, report>>

RunReturns ==
  /\ spc = "teardown"
  /\ sNext = 0
  /\ spc' = "done"
  /\ UNCHANGED <<sNext, injector, os, frozen, deferred, outcome, report>>

\* A service ends by itself.
ProcessDies(p) ==
  /\ spc \notin {"done", "aborted"}
  /\ os[p] = "up"
  /\ os' = [os EXCEPT ![p] = "dead"]
  /\ UNCHANGED <<spc, sNext, injector, frozen, deferred, outcome, report>>

RunStep ==
  \/ StartProcess \/ SetupAborts \/ SetupReturns
  \/ RequirementsMet \/ RequirementsUnmet
  \/ ObserveFails \/ BaselineObserved \/ PostObserved
  \/ InjectSignals \/ InjectFails \/ Injected
  \/ Recovered \/ Panics
  \/ \E ok \in BOOLEAN : Validates(ok) \/ Accepts(ok)
  \/ Thaws \/ RecoverReturns \/ Cleanup \/ RunReturns

ScenNext == RunCalled \/ RunStep \/ WaitEnds \/ \E p \in Procs : ProcessDies(p)

ScenSpec == ScenInit /\ [][ScenNext]_scenVars

(* A run that got through its setup leaves no process behind, however it ended:
   by a failed phase, a panic, or a Recover that gave up with processes still
   stopped. *)
NothingLeftRunning ==
  spc = "done" => \A p \in Procs : os[p] \in {"none", "dead"}
=============================================================================
