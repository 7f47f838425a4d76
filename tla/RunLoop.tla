------------------------------ MODULE RunLoop ------------------------------
(***************************************************************************)
(* Runner.run (src/pe_sim/runtime.py) in step mode: one call negotiates    *)
(* capabilities, resets the adapters or restores them from a checkpoint,   *)
(* drives the plant window by window, and publishes exactly one package.   *)
(* Calls follow each other; a later call may resume an earlier run.        *)
(*                                                                         *)
(* Time is counted in ticks and the event tolerance is below one tick.     *)
(* The plant is deterministic: its state is the action it was given in     *)
(* every tick since its initial state.  The controller is an integrator:   *)
(* its state is the number of observations it has consumed, and the action *)
(* it returns is that number, so two trajectories are equal exactly when   *)
(* the same controller step drove the same tick.                           *)
(***************************************************************************)
EXTENDS Integers, Sequences

CONSTANTS
  Period, Duration,    \* timebase.control_period_s and duration_s, in ticks
  Offset,              \* timebase.sample_offset_s
  PlantStep,           \* timebase.plant_step_s (the period when it is unset)
  Delay,               \* how long after the sample the controller targets
  AllowTargetTime,     \* TimingPolicy.allow_target_time
  StartTime,           \* plant clock of the requested initial state
  CheckpointInterval,  \* checkpoint_interval_steps, 0 when unset
  Protocol,            \* controller_state_protocol
  Specs,               \* experiment specifications a caller may submit
  MaxRuns,             \* bound: calls of Runner.run
  Faults,              \* components that may raise or reject
  BoundaryStops,       \* interrupt_after_steps / cancel_after_steps in use
  AsyncStops,          \* exceptions raised between two steps of the loop
  Crashes              \* the process may die, or a handler may be interrupted

Protocols == {"snapshot_restore", "reset_serialized_state"}
FaultSites == {"capability", "plant", "controller", "check", "checkpoint",
               "qualification"}

ASSUME TimebaseAssumption ==
  /\ Period \in Nat \ {0} /\ Duration \in Nat \ {0} /\ PlantStep \in Nat \ {0}
  /\ Offset \in Nat /\ Delay \in Nat /\ StartTime \in Nat
ASSUME PolicyAssumption ==
  /\ CheckpointInterval \in Nat /\ MaxRuns \in Nat
  /\ Protocol \in Protocols /\ Faults \subseteq FaultSites
  /\ Specs # {} /\ AllowTargetTime \in BOOLEAN /\ BoundaryStops \in BOOLEAN
  /\ AsyncStops \subseteq {"interrupted", "cancelled"} /\ Crashes \in BOOLEAN

VARIABLES
  pc,        \* where the current call is
  run,       \* number of the current call; its run id is this number
  plant,     \* the plant adapter
  ctl,       \* the controller object: observations it has consumed
  loop,      \* the locals of Runner.run
  adv,       \* the pending _advance_segments call
  report,    \* the check reports of the call, as their passed flags
  machine,   \* LifecycleStateMachine.status
  failure,   \* the failure record
  files,     \* checkpoints/step-<next>.json in the writer's directory
  latest,    \* checkpoint.json: a set of one document, or of none
  cancelled, \* the client's cancel token
  store      \* what the output directory holds, by run
vars == <<pc, run, plant, ctl, loop, adv, report, machine, failure, files,
          latest, cancelled, store>>

Runs == 1..MaxRuns
Row == [index: Nat, time: Nat, action: Nat]
Plant == [origin: {"constructed", "initial"}, trace: Seq(Nat)]
Checkpoint == [next: Nat, time: Nat, start: Nat, lastAction: Nat,
               plant: Plant, controller: Nat, samples: Seq(Row), spec: Specs]
Categories == {"missing_capability", "runtime_error", "plant_advance_failure",
               "plant_execution_failure", "timing_violation", "check_failure",
               "action_invalid", "interrupted", "cancelled"}
Failure == [category: Categories \cup {"none"}, recoverable: BOOLEAN,
            checkpoint_available: BOOLEAN]
NoFailure == [category |-> "none", recoverable |-> FALSE,
              checkpoint_available |-> FALSE]

(***************************************************************************)
(* The lifecycle matrix, restricted to the states a core run can reach.    *)
(***************************************************************************)
Statuses == {"CREATED", "RUNNING", "RUN_OK", "QUALIFIED", "DISQUALIFIED",
             "RUN_FAILED", "INCOMPLETE"}
CanTransition(from, to) ==
  \/ from = "CREATED" /\ to \in {"RUNNING", "RUN_FAILED", "INCOMPLETE"}
  \/ from = "RUNNING" /\ to \in {"RUN_OK", "RUN_FAILED", "INCOMPLETE"}
  \/ from = "RUN_OK" /\ to \in {"QUALIFIED", "DISQUALIFIED"}

Clock(p) == (IF p.origin = "initial" THEN StartTime ELSE 0) + Len(p.trace)
Least(a, b) == IF a <= b THEN a ELSE b

\* n_steps: full windows, and a short one for what is left of the duration
Steps == (Duration + Period - 1) \div Period
WindowAt(t) == Least(Period, loop.start + Duration - t)
Endpoint == loop.cycle + WindowAt(loop.cycle)

FreshPlant == [origin |-> "constructed", trace |-> <<>>]
FreshLoop(s, source, step) ==
  [spec |-> s, source |-> source, step |-> step, index |-> 0, cycle |-> 0,
   time |-> 0, start |-> 0, lastAction |-> 0, action |-> 0, target |-> 0,
   cstate |-> 0, samples |-> <<>>]
Loop == [spec: Specs, source: 0..MaxRuns, step: Nat \cup {-1}, index: Nat,
         cycle: Nat, time: Nat, start: Nat, lastAction: Nat, action: Nat,
         target: Nat, cstate: Nat, samples: Seq(Row)]
Report == [safety: BOOLEAN, validity: BOOLEAN, applicability: BOOLEAN,
           qualification: BOOLEAN]
AllPassed == [safety |-> TRUE, validity |-> TRUE, applicability |-> TRUE,
              qualification |-> TRUE]
Advance == [action: Nat, end: Nat, left: Nat,
            then: {"sample", "drive", "endpoint"}]
NoAdvance == [action |-> 0, end |-> 0, left |-> 0, then |-> "drive"]

(***************************************************************************)
(* A run directory: "none", a hidden temporary directory left behind       *)
(* ("tmp"), or the published package.  manifest is the status recorded in  *)
(* manifest.json, "none" when the file is missing.                         *)
(***************************************************************************)
EmptyDir == [dir |-> "none", manifest |-> "none", samples |-> <<>>,
             passed |-> FALSE, failure |-> NoFailure, files |-> {},
             latest |-> {}, spec |-> CHOOSE s \in Specs : TRUE]
Package == [dir: {"none", "tmp", "published"},
            manifest: Statuses \cup {"none"}, samples: Seq(Row),
            passed: BOOLEAN, failure: Failure, files: SUBSET Checkpoint,
            latest: SUBSET Checkpoint, spec: Specs]

Init ==
  /\ pc = "idle" /\ run = 0 /\ plant = FreshPlant /\ ctl = 0
  /\ loop = FreshLoop(CHOOSE s \in Specs : TRUE, 0, 0)
  /\ adv = NoAdvance /\ report = AllPassed /\ machine = "CREATED"
  /\ failure = NoFailure /\ files = {} /\ latest = {}
  /\ cancelled = FALSE
  /\ store = [r \in Runs |-> EmptyDir]

(***************************************************************************)
(* The three ways out of the try block.                                    *)
(***************************************************************************)
\* except Exception: a RUN_FAILED record; a periodic checkpoint stays usable
Fail(category) ==
  /\ failure' = [category |-> category, recoverable |-> FALSE,
                 checkpoint_available |-> latest # {}]
  /\ machine' = "RUN_FAILED"
  /\ pc' = "publish"

\* the exception leaves Runner.run: nothing is published, the temporary
\* directory stays with whatever was written to it
Escape ==
  /\ store' = [store EXCEPT ![run] =
       [dir |-> "tmp", samples |-> <<>>, passed |-> FALSE,
        manifest |-> IF pc = "finalize" THEN machine ELSE "none",
        failure |-> NoFailure, files |-> files, latest |-> latest,
        spec |-> loop.spec]]
  /\ pc' = "idle"
  /\ UNCHANGED <<run, plant, ctl, loop, adv, report, machine, failure, files,
                 latest, cancelled>>

\* except KeyboardInterrupt / SimulationCancelledError
Stop(category) ==
  \/ /\ CanTransition(machine, "INCOMPLETE")
     /\ machine' = "INCOMPLETE"
     /\ failure' = [category |-> category, recoverable |-> TRUE,
                    checkpoint_available |-> TRUE]
     /\ pc' = "last_checkpoint"
     /\ UNCHANGED <<run, plant, ctl, loop, adv, report, files, latest,
                    cancelled, store>>
  \/ ~CanTransition(machine, "INCOMPLETE") /\ Escape

\* A check rejects: its report no longer passes and the run fails.
Rejects(kinds, category) ==
  /\ "check" \in Faults
  /\ \E kind \in kinds : report' = [report EXCEPT ![kind] = FALSE]
  /\ Fail(category)

(***************************************************************************)
(* Starting a call: a fresh run, or one that resumes from checkpoint k of  *)
(* an earlier run directory, published or abandoned; a caller who names    *)
(* the directory and no step (-1 here) gets its checkpoint.json.           *)
(***************************************************************************)
Begin(s, source, step) ==
  /\ pc = "idle" /\ run < MaxRuns
  /\ run' = run + 1
  /\ pc' = "negotiate" /\ machine' = "RUNNING"
  /\ loop' = FreshLoop(s, source, step)
  /\ plant' = FreshPlant /\ ctl' = 0 /\ adv' = NoAdvance
  /\ report' = AllPassed /\ failure' = NoFailure
  /\ files' = {} /\ latest' = {} /\ cancelled' = FALSE
  /\ UNCHANGED store

BeginFresh == \E s \in Specs : Begin(s, 0, 0)
BeginResume ==
  \E s \in Specs, source \in Runs :
    /\ source <= run /\ store[source].dir # "none"
    /\ \E step \in {c.next : c \in store[source].files} \cup {-1} :
         Begin(s, source, step)

Negotiate ==
  /\ pc = "negotiate"
  /\ \/ /\ "capability" \in Faults
        /\ Fail("missing_capability")
     \/ /\ pc' = IF loop.source = 0 THEN "reset" ELSE "load"
        /\ UNCHANGED <<machine, failure>>
  /\ UNCHANGED <<run, plant, ctl, loop, adv, report, files, latest, cancelled,
                 store>>

(***************************************************************************)
(* Resuming: _load_checkpoint and the identity checks, plant.restore,      *)
(* controller.restore (or reset from the serialized state), then the       *)
(* locals, in three assignments an interrupt can fall between.             *)
(***************************************************************************)
Source == store[loop.source]
ResumableStatus == {"none", "INCOMPLETE", "RUN_FAILED"}
\* checkpoint.json is written before any step file, so a directory without it
\* has no other checkpoint to fall back to
Named == IF loop.step = -1 THEN Source.latest
         ELSE {c \in Source.files : c.next = loop.step}
\* the document the caller named, when it exists and may be used
Loadable ==
  {c \in Named : /\ c.spec = loop.spec /\ Len(c.samples) <= c.next
                 /\ Source.manifest \in ResumableStatus}

LoadRejected ==
  /\ pc = "load" /\ Loadable = {}
  /\ Fail("runtime_error")
  /\ UNCHANGED <<run, plant, ctl, loop, adv, report, files, latest, cancelled,
                 store>>

RestorePlant ==
  /\ pc = "load"
  /\ \E c \in Loadable : plant' = c.plant
  /\ pc' = "restore"
  /\ UNCHANGED <<run, ctl, loop, adv, report, machine, failure, files, latest,
                 cancelled, store>>

RestoreController ==
  /\ pc = "restore"
  /\ \E c \in Loadable : /\ ctl' = c.controller
                         /\ loop' = [loop EXCEPT !.cstate = c.controller]
  /\ pc' = "resume"
  /\ UNCHANGED <<run, plant, adv, report, machine, failure, files, latest,
                 cancelled, store>>

\* Mutant of ResumeSamples: the samples of the source are not carried over.
ResumeWithoutSamples ==
  /\ pc = "resume"
  /\ pc' = "resume_locals"
  /\ UNCHANGED <<run, plant, ctl, loop, adv, report, machine, failure, files,
                 latest, cancelled, store>>

ResumeSamples ==
  /\ pc = "resume"
  /\ \E c \in Loadable : loop' = [loop EXCEPT !.samples = c.samples]
  /\ pc' = "resume_locals"
  /\ UNCHANGED <<run, plant, ctl, adv, report, machine, failure, files, latest,
                 cancelled, store>>

ResumeLocals ==
  /\ pc = "resume_locals"
  /\ \E c \in Loadable :
       loop' = [loop EXCEPT !.index = c.next, !.lastAction = c.lastAction,
                            !.time = c.time]
  /\ pc' = "resume_start"
  /\ UNCHANGED <<run, plant, ctl, adv, report, machine, failure, files, latest,
                 cancelled, store>>

\* Mutant of ResumeStart: the deadline is counted anew on every resume.
ResumeWithFreshDeadline ==
  /\ pc = "resume_start"
  /\ loop' = [loop EXCEPT !.start = loop.time]
  /\ pc' = "top"
  /\ UNCHANGED <<run, plant, ctl, adv, report, machine, failure, files, latest,
                 cancelled, store>>

ResumeStart ==
  /\ pc = "resume_start"
  /\ \E c \in Loadable : loop' = [loop EXCEPT !.start = c.start]
  /\ pc' = "top"
  /\ UNCHANGED <<run, plant, ctl, adv, report, machine, failure, files, latest,
                 cancelled, store>>

(***************************************************************************)
(* Starting afresh: reset (or restore a qualified snapshot), then the      *)
(* first observation discovers the plant clock.  Only when it has passed   *)
(* its checks does that clock become the start of the run.                 *)
(***************************************************************************)
ResetAdapters ==
  /\ pc = "reset"
  /\ plant' = [origin |-> "initial", trace |-> <<>>]
  /\ ctl' = 0
  /\ loop' = [loop EXCEPT !.cstate = 0]
  /\ pc' = "initial"
  /\ UNCHANGED <<run, adv, report, machine, failure, files, latest, cancelled,
                 store>>

InitialObservation ==
  /\ pc = "initial"
  /\ loop' = [loop EXCEPT !.time = Clock(plant)]
  /\ pc' = "initial_checks"
  /\ UNCHANGED <<run, plant, ctl, adv, report, machine, failure, files, latest,
                 cancelled, store>>

InitialChecks ==
  /\ pc = "initial_checks"
  /\ \/ /\ loop' = [loop EXCEPT !.start = loop.time]
        /\ pc' = "top"
        /\ UNCHANGED <<report, machine, failure>>
     \/ /\ Rejects({"validity", "applicability", "safety"}, "check_failure")
        /\ UNCHANGED loop
  /\ UNCHANGED <<run, plant, ctl, adv, files, latest, cancelled, store>>

(***************************************************************************)
(* _advance_segments: the action is constant, the plant is stepped by the  *)
(* quantum, and the clock of the last observation must be the expected end.*)
(***************************************************************************)
StartAdvance(action, end, then) ==
  /\ adv' = [action |-> action, end |-> end, then |-> then,
             left |-> end - loop.time]
  /\ pc' = "advance"

AdvancePlant ==
  /\ pc = "advance" /\ adv.left > 0
  /\ LET segment == Least(PlantStep, adv.left) IN
       /\ plant' = [plant EXCEPT !.trace =
                      @ \o [i \in 1..segment |-> adv.action]]
       /\ adv' = [adv EXCEPT !.left = @ - segment]
  /\ UNCHANGED <<pc, run, ctl, loop, report, machine, failure, files, latest,
                 cancelled, store>>

\* the loop takes over the reached time after the offset and after a hold,
\* not after the last segment of the window
AdvanceReturns ==
  /\ pc = "advance" /\ adv.left = 0
  /\ IF Clock(plant) # adv.end
     THEN Fail("plant_advance_failure") /\ UNCHANGED loop
     ELSE /\ pc' = adv.then
          /\ loop' = IF adv.then = "endpoint" THEN loop
                     ELSE [loop EXCEPT !.time = Clock(plant)]
          /\ UNCHANGED <<machine, failure>>
  /\ UNCHANGED <<run, plant, ctl, adv, report, files, latest, cancelled, store>>

\* an adapter call raises, be it on the way to the first window or in one
AdapterRaises ==
  /\ \/ /\ "plant" \in Faults /\ pc = "advance" /\ adv.left > 0
        /\ Fail("plant_advance_failure")
     \/ /\ "plant" \in Faults
        /\ \/ pc \in {"reset", "initial", "sample", "endpoint"}
           \/ pc = "load" /\ Loadable # {}
        /\ Fail("plant_execution_failure")
     \/ /\ "controller" \in Faults /\ pc \in {"restore", "reset", "control"}
        /\ Fail("runtime_error")
  /\ UNCHANGED <<run, plant, ctl, loop, adv, report, files, latest, cancelled,
                 store>>

(***************************************************************************)
(* One control window.                                                     *)
(***************************************************************************)
\* the client may ask to stop at any time; the token is read at the top
RequestCancel ==
  /\ pc # "idle" /\ ~cancelled
  /\ cancelled' = TRUE
  /\ UNCHANGED <<pc, run, plant, ctl, loop, adv, report, machine, failure,
                 files, latest, store>>

PollCancel ==
  /\ pc = "top" /\ loop.index < Steps /\ cancelled
  /\ Stop("cancelled")

WindowFits == Offset < WindowAt(loop.time)

OpenWindow ==
  /\ pc = "top" /\ loop.index < Steps /\ ~cancelled
  /\ loop' = [loop EXCEPT !.cycle = loop.time]
  /\ IF ~WindowFits
     THEN Fail("runtime_error") /\ UNCHANGED adv
     ELSE /\ IF Offset > 0
             THEN StartAdvance(loop.lastAction, loop.time + Offset, "sample")
             ELSE pc' = "sample" /\ UNCHANGED adv
          /\ UNCHANGED <<machine, failure>>
  /\ UNCHANGED <<run, plant, ctl, report, files, latest, cancelled, store>>

\* plant.observe and the checks; the default validity plugin rejects an
\* observation that is not stamped with the loop's own time
Observe ==
  /\ pc = "sample"
  /\ \/ /\ Clock(plant) = loop.time
        /\ pc' = "control"
        /\ UNCHANGED <<report, machine, failure>>
     \/ /\ Clock(plant) # loop.time
        /\ report' = [report EXCEPT !.validity = FALSE]
        /\ Fail("check_failure")
     \/ Rejects({"safety", "validity", "applicability"}, "check_failure")
  /\ UNCHANGED <<run, plant, ctl, loop, adv, files, latest, cancelled, store>>

\* controller.observe and the timestamps of its request
Control ==
  /\ pc = "control"
  /\ ctl' = ctl + 1
  /\ loop' = [loop EXCEPT !.cstate = ctl + 1, !.action = ctl + 1,
                          !.target = loop.time + Delay]
  /\ IF loop.time + Delay > Endpoint \/ (Delay > 0 /\ ~AllowTargetTime)
     THEN Fail("timing_violation")
     ELSE pc' = "act" /\ UNCHANGED <<machine, failure>>
  /\ UNCHANGED <<run, plant, adv, report, files, latest, cancelled, store>>

\* the action policy and the action checks, then the last action is held
\* until the target time
ProjectAction ==
  /\ pc = "act"
  /\ \/ /\ IF loop.target > loop.time
           THEN StartAdvance(loop.lastAction, loop.target, "drive")
           ELSE pc' = "drive" /\ UNCHANGED adv
        /\ UNCHANGED <<report, machine, failure>>
     \/ /\ Rejects({"safety", "applicability"}, "check_failure")
        /\ UNCHANGED adv
     \/ /\ "controller" \in Faults
        /\ Fail("action_invalid")
        /\ UNCHANGED <<report, adv>>
  /\ UNCHANGED <<run, plant, ctl, loop, files, latest, cancelled, store>>

Drive ==
  /\ pc = "drive"
  /\ IF Endpoint > loop.time
     THEN StartAdvance(loop.action, Endpoint, "endpoint")
     ELSE pc' = "endpoint" /\ UNCHANGED adv
  /\ UNCHANGED <<run, plant, ctl, loop, report, machine, failure, files, latest,
                 cancelled, store>>

\* the observation at the end of the window must be later than the loop's
\* time; only then is the row appended
CloseWindow ==
  /\ pc = "endpoint"
  /\ \/ /\ Clock(plant) = Endpoint /\ Clock(plant) > loop.time
        /\ loop' = [loop EXCEPT !.samples =
             Append(@, [index |-> loop.index, time |-> loop.time,
                        action |-> loop.action])]
        /\ pc' = "settle"
        /\ UNCHANGED <<report, machine, failure>>
     \/ /\ Clock(plant) # Endpoint
        /\ report' = [report EXCEPT !.validity = FALSE]
        /\ Fail("check_failure")
        /\ UNCHANGED loop
     \/ /\ Clock(plant) = Endpoint /\ Clock(plant) <= loop.time
        /\ Fail("plant_advance_failure")
        /\ UNCHANGED <<report, loop>>
     \/ Rejects({"validity"}, "check_failure") /\ UNCHANGED loop
  /\ UNCHANGED <<run, plant, ctl, adv, files, latest, cancelled, store>>

Settle ==
  /\ pc = "settle"
  /\ loop' = [loop EXCEPT !.time = Clock(plant), !.lastAction = loop.action]
  /\ pc' = "checkpoint"
  /\ UNCHANGED <<run, plant, ctl, adv, report, machine, failure, files, latest,
                 cancelled, store>>

(***************************************************************************)
(* _write_checkpoint: the plant snapshot, the controller snapshot (or the  *)
(* state it returned last), and the locals, written to checkpoint.json     *)
(* first and to the file of its step second.                               *)
(***************************************************************************)
CheckpointOf(next) ==
  [next |-> next, time |-> loop.time, start |-> loop.start,
   lastAction |-> loop.lastAction, plant |-> plant,
   controller |-> IF Protocol = "snapshot_restore" THEN ctl ELSE loop.cstate,
   samples |-> loop.samples, spec |-> loop.spec]
WriteCheckpoint(next) == latest' = {CheckpointOf(next)}
WriteStepFile ==
  files' = {c \in files : \A d \in latest : c.next # d.next} \cup latest

CheckpointDue == /\ CheckpointInterval > 0
                 /\ (loop.index + 1) % CheckpointInterval = 0

PeriodicCheckpoint ==
  /\ pc = "checkpoint"
  /\ IF CheckpointDue
     THEN \/ /\ WriteCheckpoint(loop.index + 1)
             /\ pc' = "step_file"
             /\ UNCHANGED <<machine, failure>>
          \/ /\ "checkpoint" \in Faults
             /\ Fail("runtime_error")
             /\ UNCHANGED latest
     ELSE /\ pc' = "hooks"
          /\ UNCHANGED <<latest, machine, failure>>
  /\ UNCHANGED <<run, plant, ctl, loop, adv, report, files, cancelled, store>>

PeriodicStepFile ==
  /\ pc = "step_file"
  /\ \/ /\ WriteStepFile
        /\ pc' = "hooks"
        /\ UNCHANGED <<machine, failure>>
     \/ /\ "checkpoint" \in Faults
        /\ Fail("runtime_error")
        /\ UNCHANGED files
  /\ UNCHANGED <<run, plant, ctl, loop, adv, report, latest, cancelled, store>>

NextWindow ==
  /\ pc = "hooks"
  /\ loop' = [loop EXCEPT !.index = @ + 1]
  /\ pc' = "top"
  /\ UNCHANGED <<run, plant, ctl, adv, report, machine, failure, files, latest,
                 cancelled, store>>

\* interrupt_after_steps and cancel_after_steps fire at the end of a window
BoundaryStop ==
  /\ BoundaryStops /\ pc = "hooks"
  /\ \E category \in {"interrupted", "cancelled"} : Stop(category)

(***************************************************************************)
(* After the last window: qualification, then the two transitions.         *)
(***************************************************************************)
Qualify ==
  /\ pc = "top" /\ loop.index >= Steps
  /\ \/ /\ \E passes \in IF "qualification" \in Faults THEN BOOLEAN ELSE {TRUE} :
             report' = [report EXCEPT !.qualification = passes]
        /\ machine' = "RUN_OK"
        /\ pc' = "graded"
        /\ UNCHANGED failure
     \/ /\ "qualification" \in Faults
        /\ Fail("runtime_error")
        /\ UNCHANGED report
  /\ UNCHANGED <<run, plant, ctl, loop, adv, files, latest, cancelled, store>>

Grade ==
  /\ pc = "graded"
  /\ machine' = IF report.qualification THEN "QUALIFIED" ELSE "DISQUALIFIED"
  /\ pc' = "publish"
  /\ UNCHANGED <<run, plant, ctl, loop, adv, report, failure, files, latest,
                 cancelled, store>>

(***************************************************************************)
(* The handlers' last checkpoint, the package, and what cuts a call short. *)
(***************************************************************************)
\* Mutant of CheckpointLost: a failed checkpoint is still announced.
LostCheckpointAnnounced ==
  "checkpoint" \in Faults /\ pc' = "publish" /\ UNCHANGED failure

\* the handler catches what _write_checkpoint raises and takes back its claim
CheckpointLost ==
  /\ "checkpoint" \in Faults
  /\ failure' = [failure EXCEPT !.checkpoint_available = FALSE]
  /\ pc' = "publish"

LastCheckpoint ==
  /\ pc = "last_checkpoint"
  /\ \/ /\ WriteCheckpoint(Len(loop.samples))
        /\ pc' = "last_step_file"
        /\ UNCHANGED failure
     \/ CheckpointLost /\ UNCHANGED latest
  /\ UNCHANGED <<run, plant, ctl, loop, adv, report, machine, files, cancelled,
                 store>>

LastStepFile ==
  /\ pc = "last_step_file"
  /\ \/ WriteStepFile /\ pc' = "publish" /\ UNCHANGED failure
     \/ CheckpointLost /\ UNCHANGED files
  /\ UNCHANGED <<run, plant, ctl, loop, adv, report, machine, latest, cancelled,
                 store>>

\* Mutant of SafetyPassed: the error is not consulted.
ChecksPassed == report.safety /\ report.validity /\ report.applicability

SafetyPassed == /\ failure.category = "none"
                /\ report.safety /\ report.validity /\ report.applicability

WriteManifest ==
  /\ pc = "publish"
  /\ pc' = "finalize"
  /\ UNCHANGED <<run, plant, ctl, loop, adv, report, machine, failure, files,
                 latest, cancelled, store>>

Finalize ==
  /\ pc = "finalize"
  /\ store' = [store EXCEPT ![run] =
       [dir |-> "published", manifest |-> machine, samples |-> loop.samples,
        passed |-> SafetyPassed, failure |-> failure, files |-> files,
        latest |-> latest, spec |-> loop.spec]]
  /\ pc' = "idle"
  /\ UNCHANGED <<run, plant, ctl, loop, adv, report, machine, failure, files,
                 latest, cancelled>>

AdapterCalls == {"load", "restore", "reset", "initial", "advance", "sample",
                 "control", "endpoint", "checkpoint"}
TryBlock == AdapterCalls \cup {"negotiate", "resume", "resume_locals",
                               "resume_start", "initial_checks", "top", "act",
                               "drive", "settle", "step_file", "hooks", "graded"}

\* KeyboardInterrupt may arrive between any two steps of the try block; an
\* adapter may raise SimulationCancelledError out of any call made to it
AsyncStop ==
  \/ "interrupted" \in AsyncStops /\ pc \in TryBlock /\ Stop("interrupted")
  \/ "cancelled" \in AsyncStops /\ pc \in AdapterCalls /\ Stop("cancelled")

\* the process dies, or a second interrupt arrives outside the try block
Crash == Crashes /\ pc # "idle" /\ Escape

Step ==
  \/ Negotiate \/ LoadRejected \/ RestorePlant \/ RestoreController
  \/ ResumeSamples \/ ResumeLocals \/ ResumeStart
  \/ ResetAdapters \/ InitialObservation \/ InitialChecks
  \/ PollCancel \/ OpenWindow \/ AdvancePlant \/ AdvanceReturns
  \/ AdapterRaises \/ Observe \/ Control \/ ProjectAction \/ Drive
  \/ CloseWindow \/ Settle \/ PeriodicCheckpoint \/ PeriodicStepFile
  \/ NextWindow \/ Qualify \/ Grade \/ LastCheckpoint \/ LastStepFile
  \/ WriteManifest \/ Finalize

Next == Step \/ BeginFresh \/ BeginResume \/ RequestCancel \/ BoundaryStop
        \/ AsyncStop \/ Crash

Spec == Init /\ [][Next]_vars
-----------------------------------------------------------------------------
(***************************************************************************)
(* What an uninterrupted run of the same experiment does: tick t is driven *)
(* by the action of its window once that action's target is reached, and   *)
(* by the previous window's action before.                                 *)
(***************************************************************************)
BaselineTrace(ticks) ==
  [t \in 1..ticks |->
     ((t - 1) \div Period)
       + (IF (t - 1) % Period < Offset + Delay THEN 0 ELSE 1)]
BaselineSamples(n) ==
  [k \in 1..n |-> [index |-> k - 1,
                   time |-> StartTime + (k - 1) * Period + Offset + Delay,
                   action |-> k]]
IsPrefixOfBaseline(samples) == samples = BaselineSamples(Len(samples))

PCs == TryBlock \cup {"idle", "last_checkpoint", "last_step_file", "publish",
                       "finalize"}

\* The variables hold the values the code gives them.
TypeOK ==
  /\ pc \in PCs /\ run \in 0..MaxRuns /\ plant \in Plant /\ ctl \in Nat
  /\ loop \in Loop
  /\ adv \in Advance /\ report \in Report
  /\ machine \in Statuses /\ failure \in Failure
  /\ files \in SUBSET Checkpoint /\ latest \in SUBSET Checkpoint
  /\ cancelled \in BOOLEAN /\ store \in [Runs -> Package]

\* A run that completed, however often it was stopped and resumed on the
\* way, drove the plant through the trajectory of an uninterrupted run and
\* recorded the same samples (test_stage15 S15-07; cancellation.py:21 says a
\* cancelled and an interrupted run are both recoverable).
CompletedRunIsBaseline ==
  machine \in {"RUN_OK", "QUALIFIED", "DISQUALIFIED"} =>
    /\ plant = [origin |-> "initial", trace |-> BaselineTrace(Duration)]
    /\ loop.samples = BaselineSamples(Steps)

\* Every package, also a failed or incomplete one, holds a prefix of the
\* samples of the uninterrupted run: a resumed run never publishes a gap, a
\* repeated window or a window of another trajectory.
PackagesHoldBaselinePrefix ==
  \A r \in Runs : store[r].dir = "published" =>
                    IsPrefixOfBaseline(store[r].samples)

\* Nothing that went wrong can look qualified: a package whose safety.json
\* passed completed its windows and has no failure, every other package
\* names a failure, and a package without a failure is a completed run.
FailureNeverLooksQualified ==
  \A r \in Runs : store[r].dir = "published" =>
    /\ store[r].manifest \in {"QUALIFIED", "DISQUALIFIED", "RUN_FAILED",
                              "INCOMPLETE"}
    /\ store[r].passed <=> store[r].manifest \in {"QUALIFIED", "DISQUALIFIED"}
    /\ store[r].passed <=> store[r].failure.category = "none"
    /\ store[r].passed => Len(store[r].samples) = Steps

\* The package tells the truth about recovery: a failure record that
\* announces a checkpoint comes with a checkpoint.json of the same
\* specification, and only an INCOMPLETE run calls itself recoverable.
CheckpointClaimIsHonest ==
  \A r \in Runs : store[r].dir = "published" =>
    /\ store[r].failure.checkpoint_available =>
         \E c \in store[r].latest : c.spec = store[r].spec
    /\ store[r].failure.recoverable <=> store[r].manifest = "INCOMPLETE"

\* A run that completed reached the deadline counted from the start of the
\* first run of its chain and drove the plant for the whole duration, no
\* matter where it was stopped on the way (the comment at runtime.py:646-648).
CompletedRunReachesDeadline ==
  machine \in {"RUN_OK", "QUALIFIED", "DISQUALIFIED"} =>
    /\ Clock(plant) = loop.start + Duration
    /\ Len(plant.trace) = Duration
=============================================================================
