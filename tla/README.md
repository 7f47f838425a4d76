# Verification of pe_sim

TLA+ models, model-checking configurations and machine-checked proofs about
`pe_sim` (`src/src/pe_sim`), an auditable simulation runtime for power
electronics, and about the tool that records its releases
(`src/scripts/release_record.py`). The program drives a plant and a controller
window by window, checks every observation and action, and publishes one
directory of evidence per run; other parts read, compare, attest and release
those directories. Its promise is honesty: what failed, was interrupted, was
never checked or was changed afterwards must not be mistaken for a complete,
qualified result. The models are about that promise: the order of steps, what
survives a failure at any point, and what each document says about the others.

1. Inventory, 2. How the modules fit together, 3. The modules, 4. The runs,
5. Bounds and fairness, 6. Proofs, 7. Findings and observations,
8. Not modelled.

## 1. Inventory

| Component | Source | State it keeps | Operations | Interacts with |
| --- | --- | --- | --- | --- |
| Run loop, step mode | `runtime.py`, `runner/`, `cancellation.py` | locals of `Runner.run` (samples, index, clock, start time, last action, reports, failure), lifecycle status, cancel token | negotiate, load checkpoint, reset/restore, one control window, checkpoint, stop, fail, qualify, publish | plant and controller adapters, checks, action policy, `ArtifactWriter`, the client through the token and the events |
| Package publication | `artifacts.py` | the output directory: hidden temporary directories, published directories, state markers | validate location, scan, write, index, finalize | other calls in other threads or processes, readers |
| Whole-run route | `whole_run_route.py`, `backends/whole_run_engine.py`, `time_model.py` | the request, the engine's result, the lifecycle | one engine call, check of the trace, qualification, publication | `ArtifactWriter`, checks, the client |
| Run events | `run_events.py` | sequence, delivered and dropped counts | emit | the client's sink |
| Solved plants, simulator subprocess | `backends/process.py`, `ngspice_plants.py`, `sync_buck.py`, `circuit_plant.py`, `wrdata.py` | work directory, child process, cached window, carrier phase | solve a window, step inside it, time out, kill, parse, snapshot, restore | the operating system, the run loop as a plant |
| Topology and netlists | `topology*.py`, `circuit_compile.py`, `circuit_devices.py`, `spice_import.py` | none; documents and graphs | construct, validate, compile a window, import | circuit plants |
| Controller-side protection | `protection.py` | normal/tripped/latched, hold timer, trip count, start-up mask | observe, reset, snapshot, restore | the inner controller, the run loop's checkpoints |
| Model envelope | `model_claim.py`, `applicability.py` | findings, counts, what was already told, the last external point | preflight, check observation, check action, summary | plants, the run loop, readers |
| Checks and qualification | `checks.py`, `qualification*.py` | none | merge reports, normalise, qualify | both routes |
| Study execution | `study.py`, `study_runner.py` | the plan and the records of its points | expand, run each point, classify, aggregate, report | the runner, published packages |
| Provenance | `provenance.py`, `dirty.py`, `identity.py` | what a run has read of git and of its sources | git queries, digests, pins, formal gates | people who edit and commit meanwhile |
| Package readers | `inspection.py`, `credibility.py`, `claim.py`, `compatibility.py`, `reproducibility.py`, `postprocess.py`, `evidence.py` | none | inspect, claim, compare, audit, summarise, classify | packages, the reader's checkout |
| Attestation and confirmation | `attestation.py`, `parameter_view.py`, `parameter_confirmation.py` | records, superseded records, an append-only index, git | attest, supersede, commit, verify; confirm, compare | packages, git |
| Release records | `scripts/release_record.py` | the record, gate evidence, wheel, inventory, tags | create, approve, verify, check identity | reviewers, builds, git |
| Plants, controllers, analysis, specification validation, command line | the rest of `src/pe_sim` | floating-point state, static tables | | all of the above |

### What is hard here

* **Stops at any point.** `KeyboardInterrupt` may arrive between any two
  bytecodes of `Runner.run`, an adapter may raise `SimulationCancelledError`,
  another thread may set the cancel token; the handler then takes a checkpoint
  of whatever state the objects are in.
* **Resume chains**, from published and from abandoned directories.
* **Failures everywhere**: adapters, checks, checkpoints, simulator children
  that lie, hang or die, sinks that raise, writes that fail half-way.
* **Shared files without a lock**: the output directory, the anchor index, the
  study directory, the release record, the sources of a running process.
* **Two opinions on one fact**: validator and compiler, claim and comparison,
  sample reader and metric reader, preflight and package, recorded and current
  review. Each pair must agree or fail on the safe side.
* **Timing edges**: durations that are no multiple of the period, sample
  offsets, a target time at the end of a window, dead time across windows,
  schedule entries within the tolerance of the grid.

## 2. How the modules fit together

| Run (MC module) | Component modules | Composition |
| --- | --- | --- |
| `MCRunLoop` | `RunLoop` | its `store` is the directory as one caller sees it |
| `MCPublication` | `Publication` implements `RunStore` | refines the one step by which `RunLoop!Finalize` publishes |
| `MCStudyRun` | `StudyRun` over `StudyPlan`, implements `StudyLedger` | what a run publishes is what `RunStore` promises: a run id is taken once, in one step |
| `MCProtection` | `WatchedRun` over `Protection` and `Envelope` | the protected run, its disturbances announced by the input schedule, watched by the envelope plugin |
| `MCSolvedPlant` | `SolvedPlant` over `SimulatorProcess` | a plant step starts and awaits one bounded child |
| `MCWholeRun` | `WholeRun` over `WholeRunEngine`, `Checks`, `TimeModel` | the route with the engine, the checks and the evidence cap |
| `MCCircuit` | `Circuit` over `TopologyDescriptor`, `CircuitDevices`, `TopologyValidation`, `CircuitCompile`, `SpiceImport` | one document, judged by the validator, the compiler and the importer |
| `MCRecords` | `Records` over `Attestation`, `ParameterView` | two kinds of record of one package |
| `MCReading` | `MetricEvidence` over `Reading`, `Provenance`, `TimeModel` | packages are made while sources change, and read by every reader of `Audience` under every policy of `Tolerances` |
| `MCRelease` | `Release` | the people, the files and the four commands |

Modules that only define operators (`StudyPlan`, `Envelope`, `Checks`,
`TimeModel`, `TopologyValidation`, `CircuitCompile`, ...) translate the pure
parts of the code; the modules above them have the variables and the actions.
No module declares a `RECURSIVE` operator: recursion is a recursive function or
a fold, so that theorems can be stated over every module.

## 3. The modules

### RunLoop

`Runner.run` in step mode, called up to `MaxRuns` times one after the other. A
call is fresh or resumes a checkpoint of an earlier run directory.

| TLA+ | Code |
| --- | --- |
| `pc` | the position in `Runner.run`; an action ends where a call that can raise, or an early exit, begins |
| `loop` | the locals: `samples`, `step_index`, `cycle_start`, `current_time`, `run_start_time`, `last_action`, the request's value and target, `controller_state` |
| `plant`, `ctl` | the adapters. The plant is deterministic: its state *is* the sequence of actions it was given, tick by tick. The controller is an integrator: its state is the number of observations it consumed and its action is that number. Two trajectories are then equal exactly when the same controller step drove the same tick, which is what a resumed run must reproduce |
| `adv` | the pending `_advance_segments` call |
| `machine`, `failure`, `report` | `LifecycleStateMachine.status`, the failure record, the check reports |
| `files`, `latest` | `checkpoints/step-*.json` and `checkpoint.json` of the writer |
| `store` | the run directories, published or abandoned |

Actions follow the code: `Negotiate`, then for a resume `LoadRejected` or
`RestorePlant`, `RestoreController`, `ResumeSamples`, `ResumeLocals`,
`ResumeStart`, one for each assignment an interrupt may come after (lines 738 to
751), and for a fresh run `ResetAdapters`, `InitialObservation` (line 782, the
clock), `InitialChecks` (up to line 827, the start of the run); per window
`PollCancel`, `OpenWindow`, `AdvancePlant`/`AdvanceReturns` (three uses of
`_advance_segments`), `Observe`, `Control`, `ProjectAction`, `Drive`,
`CloseWindow`, `Settle`, `PeriodicCheckpoint`/`PeriodicStepFile` (the two files of
a checkpoint), `NextWindow`; then `Qualify`, `Grade`, `WriteManifest`, `Finalize`.
The exits of the try block are `Fail`, `Stop` with `LastCheckpoint`/`LastStepFile`,
and `Escape` (the exception leaves the call). Adapters may raise in every call made
to them, also while they are reset or restored. Which component may fail is the
constant `Faults`; `BoundaryStops` enables the runner's own stops, `AsyncStops` the
exceptions at arbitrary points, `Crashes` the death of the process. Time is counted
in ticks; the event tolerance of the code is below one tick. Measurements are
abstracted to the verdicts of the checks, which may reject at any of their call
sites.

### Publication and RunStore

The transaction of `artifacts.py`, one action per file-system operation, by
several calls at once: the location check of `Runner.run` and again of
`ArtifactWriter` (target, then glob), the scan, the temporary directory, the
writes, the artifact index, the manifest, the checks of `finalize`, the rename,
and the two halves of the final marker's atomic write. `WriteFails` raises out
of a write, `Crash` kills the process, `CleanUp` is the operator of `docs/18`.
`Shadows` is the relation of the glob `.<run_id>.*`: run ids may contain dots.
Digests are abstracted to the equality they check (`Whole`). `RunStore` is what
the directory promises: an id is free or holds one whole package, put there in
one step, owned by one call for ever.

### Protection, Envelope, WatchedRun

`Protection` is `ProtectedController` in the run loop: the four fields of the
wrapper are variables, `observe` is split into the actions of its branches,
`TakeSnapshot` is the checkpoint of a window and `Restore` a new wrapper that
takes a snapshot over. The converter is a caricature: it rises while it is
driven, falls while it is tripped, is shorted or pushed up by a disturbance that
`Init` chose, so that a resumed run meets the same ones.

`Envelope` translates the declarations of `model_claim.py` (ranges with open or
closed bounds, limits, static parameters, their normalisation and status) and
the plugin of `applicability.py`: every offence it can report, the
deduplication by key, the counts, the blocking, the summary. `WatchedRun` asks
the plugin where `runtime.py` does: before the run, at the first observation, at
every sample and for every action of the protected run; an offence that blocks
ends the run before the plant is driven. A resumed run has a new plugin. The input
schedule that the preflight looks at has one item for every sample.

### StudyPlan, StudyRun, StudyLedger

`StudyPlan` expands a study document (sweeps of one or several axes,
Monte-Carlo draws with their seeds, longer and longer periodicity runs) into the
documents of its points. An experiment document is a function from paths to
leaves, so that what one point changes and what points share can be told apart.

`StudyRun` is `pe-sim study` by several invocations over one directory:
`config` is `points/pNN/config.json`, `package` the run directories with owner
and the document the run really read, `report` the report. `pc` is the position
in the loop; `executed`, `records`, `flags` are the locals of `run_study`,
`hand` what `_execute_experiment` has read. `WriteConfig` and `ConfigFails`,
`ReadConfig`, `RunRaises`, `RunPublishes` and `RunLeavesNothing`, `NoRunDir` and
`Examine`, `WriteReport` and `ReportFails` are the steps and their exits;
`Interrupt` may come anywhere. The aggregate (`Claimed`, `Ceiling`, the
reasons of `aggregate_study` why nothing is claimed) is computed from the records
as the code does. `Products` is the set of packages a run may leave. `StudyLedger`
is the promise to the caller: points in order and each once, a fate is final, the
verdict is "pass" only if no attempted point failed.

### SimulatorProcess, SolvedPlant

`SimulatorProcess` is one bounded call of ngspice: directory, start, a child
that ends, fails, floods its pipes, hangs or leaves less than it should, the
timeout, the classification and the evidence, the removal. `SolvedPlant` is a
plant over it (`Kinds`: the ngspice bucks and the compiled circuits): it solves
to the end of the control window and answers later steps from the kept table,
with the cache invalidated by a new duty or input, the carrier phase, snapshots
and restores. The state is the list of drives the circuit has seen, each with the
phase of the carrier, so two states are equal only if the circuit was driven
alike. The other list, `driven`, is what the caller asked for: its inputs come from
`asked`, the external input that was handed over last, and not from the plant, which
may have lost it or kept it too long. `Reset` is `reset()`: the time, the state and
the cache start again, the input stays as it was; `NewPlant` is a new object with
the declared input. A directory that `rmtree` could not delete (it ignores its
errors) counts as removed: `dirs` is what the call has made and not given up.

### WholeRun, WholeRunEngine, TimeModel, Checks

`WholeRun` has one action per exit of `whole_run_route.py`: a refused request, a
directory that cannot be opened, a cancel before the engine is called or while
it runs, an engine that raises or returns any trace, the sort, the check of the
trace contract, the chains of checks, qualification, publication, an interrupt.
The event emitter is part of it, with sinks that raise. `WholeRunEngine` is the
time grid of the reference engine. `TimeModel` has the trace contract and the
derivation of the evidence level with its caps, `Checks` the reports: merging,
normalisation, plugins that raise or contradict themselves, the qualification.

### Circuit and the modules below it

A document is nets and components with ports, parameters and a control
declaration; `CircuitDevices` has the closed vocabulary, `TopologyDescriptor`
the constructors, `TopologyValidation` every finding of the validator with its
code and the part it points at, `CircuitCompile` the compiler from a document
and a commanded duty to the cards of one window (pulses with phase, dead time,
tails of a pulse that began before), `SpiceImport` the importer from cards to a
document. A text is a list of cards, a name is a model value: the characters are
left out. `Circuit` lets an author import and edit a document, validates it, and
compiles one window after the other.

### Attestation, ParameterView, Records

`Attestation` is `attest_run` with every file it touches (document, superseded
documents, index), the commits people make of all or of one of the files, and
both verifications; the process may die, and a write may be torn, at every step. A
torn line of the index is a part of a record, or a whole one without its newline.
`ParameterView` builds the groups, rows, units and bounds of a manifest, the
digest over them and the list of differences between two. `Records` has packages
that are replaced or edited, the confirmation a reviewer writes over what was on
the screen, and the verdict when it is read. What a list of differences is measured
against is stated apart from the view, over manifests: `StatedValues` (every value
of the plant, of the controller as it was configured, of the timebase, the policy and
the solvers, with its unit) and `StatedLimits`.

### Provenance, Reading, MetricEvidence

`Provenance`: a run imports its sources, asks git for the head and then for the
status, passes the gates, and takes the digests again when it publishes; a
person edits, commits and checks out in between. Adapters are honest, boasting
(state a review they do not have), foreign (a class from outside the solve path)
or pretending (third-party code under statements of its own). `Reading`
translates the thirteen credibility factors, the claim, the compatibility of
schemas, the comparison of two packages under a tolerance policy, the audit of
several and the evidence matrix across machines. `MetricEvidence` is the other
reader: its own gate, the metric registry, the metric comparison, the report and
its classification. Readers keep no state: they are operators that the
invariants apply to every published package in every state.

### Release

`create`, `approve`, `verify` and `check-identity` of
`scripts/release_record.py`, step by step: what they read, what they check, what
they hash again, and the one file they write. Between any two steps somebody may
build, commit, run a gate, tag, or edit the record; two reviewers may approve at
the same time. A hash is the value it is the hash of.

## 4. The runs

| Run | Instance | Properties and what they show |
| --- | --- | --- |
| `runloop_chain` | three calls that resume one another, period 4 and duration 7, an offset and a delay of one tick, plant steps of one, a plant clock that starts at 1, a controller restored by `reset()`, every fault, cancels, boundary stops, deaths | `CompletedRunIsBaseline`: a completed run, also a resume of a resume from an abandoned directory, has the uninterrupted trajectory; `PackagesHoldBaselinePrefix`: any other package a prefix of it |
| `runloop_async` | two calls of either of two specifications, period 4, duration 11, a plant clock that starts at 0, interrupts and adapter cancellations between any two steps, every fault, deaths | `CompletedRunReachesDeadline`: the deadline of the first run of a chain is kept wherever it was stopped; `CheckpointClaimIsHonest`, `FailureNeverLooksQualified`: a package says of its checkpoint and of its outcome what happened, with stops inside a window, a resume or a checkpoint |
| `runloop_async_resume` (violation) | an interrupt inside a window, then a resume | finding of section 7 |
| `publication` | two calls for one id, or for two of which one shadows the other, an optional artifact, write errors, deaths, clean-up | `StoreSpec`: the directory implements `RunStore`; `MarkerMeansVerified`; `EvidenceIsKept`; `SomeoneWins`: unless a write raises or a process dies, one competitor publishes |
| `protection` | four policies, shorts and load dumps at samples 1, 2, 4, 5 of nine, snapshots every other sample, resume at any time, six watches (declaration, policy, mode) | `HoldIsNeverCut`, `FaultIsDrivenForOneWindowAtMost`, `RecoversInTime`, `ReplayAgrees`: holds, latency, recovery and resumed runs; `EnvelopeIsHonest`: every point outside the declaration was judged, the counts are complete, an enforced run stays inside |
| `study` | two invocations of two-point studies over one directory: a retry, two plans under one id, two study ids; one may be interrupted | `OkIsOwnRun`, `ExitZeroIsWhole`, `AggregateIsHonest`: a point, an exit code, a claim rest on packages the invocation had made; `PointsAreAsPlanned`: the documents are those of the plan and no two alike; `LedgerSpec` |
| `backend` | ngspice and circuit plants, steps of one or two ticks in windows of three with a carrier of two, eight kinds of child, interrupts, snapshots, resets, new objects | `TrajectoryIsTrue`: the state is the one that the actions and inputs handed over lead to; `EvidenceOutlivesTheDirectory`; `EveryStepEnds` |
| `wholerun` | a foreign engine with eleven traces, the reference engine on every schedule of at most two entries, six results of the check chains, sinks that fail, cancels and interrupts | `ReportsAreTrue`: no package claims more than its trace and reports earn, and the events add up; `ReferenceKeepsItsContract`; `CancelIsHonoured` |
| `circuit` | five small converters, every document one mistake away, windows of 3 and 8 ticks with changing duties; three netlists with more than a thousand mistakes | `GraphVerdictsAreTrue`: the verdicts of the validator against reference definitions on graphs; `ValidatorAndCompilerAgree`; `GateFollowsTheCycle`: pulses and dead time over several windows; `ImportKeepsTheCircuit`: import, order of the cards, and the way back |
| `records` | two directories of one run and one of another, two attesters, six contents with five manifests, deaths and torn writes, commits of all or of one file | `AnchoredMeansRecorded`, `AttestationsAreKept`, `AnchorLasts`; `CurrentMeansSeen`: a current confirmation is of what the reviewer saw, whole, and covers every group; `StaleNamesTheChange`: a stale one lists exactly the values, units and limits that are stated otherwise now |
| `reading` | two runs of reviewed, boasting, foreign, pretending and plain adapters, edits, commits and checkouts at every point, ten readers | `EligibleIsSound`: what may be compared formally was earned, compares, and the two readers agree; `MatchMeansSameCode`: what an audit matches, or finds ready for a trial across machines, ran one code; `ContradictionMeansChange` |
| `release` | two versions, two reviewers, two creates; builds, commits, gates, tags, edits between any two steps | `ApprovedIsReviewed`, `ReleaseIsWhole`, `UntouchedVerifies` (no false alarm) |

Several properties are conjunctions of named parts, so that one run answers one
question about a component. For every property `PROJECT.json` names at least one
mutant: a plausible mistake in the code (a guard dropped, a field left out of an
identity, an off-by-one) under which the same run violates it.

## 5. Bounds and fairness

**Bounds.** No bound is built into an action without a name.

* `RunLoop`: the chain has a full and a short window, in both of which offset and
  target fit, so that its runs do complete, and plant steps of one tick, so that one
  segment takes several; `MaxRuns` = 3 is the resume of a resume. The asynchronous run has two full windows and a
  short one, and two calls. `StartTime` = 1 makes the clock of the plant differ from
  the time the runner starts with; the asynchronous run has 0, because with 1
  the deadline is not kept (section 7).
* `Publication`: two calls, because a race for an id has one winner and one
  loser; the proofs cover any number.
* `Protection`: nine samples hold a start-up, a trip, a complete hold, a retry
  and a second trip; disturbances come early enough that the longest hold after
  the last one still ends inside the run.
* `StudyRun`: two points, so that one can fail or converge before another;
  `Products` has one package for each way to be counted or refused, on two
  routes.
* `SolvedPlant`: `MaxTime` = 4 is more than one control window of three ticks,
  which is no multiple of the carrier's period; two calls of the simulator allow
  a stale table to meet a new one.
* `WholeRun`: duration 9 and 10 with a cadence of 4, so that the last window is
  short; schedule entries on, beside and within `Eps` of the grid.
* `Circuit`: `MaxEdits` = 1 mistake per document; `MaxTicks` several windows, none
  of which ends where a cycle ends.
* `Records`: `MaxActs` = 3 attestations and confirmations, `MaxCommits` = 2, the
  least with a commit between and after two records. The manifests differ in
  types, units, configuration, timebase, limits, solvers, or in what they have at
  all, so that every group and every side of a difference occurs.
* `Provenance`: `MaxChanges` = 2 by the person, enough for there and back;
  `MaxOpen` = 1: runs share nothing but the checkout, so they follow each other.
* `Release`: `MaxChanges` = 3, `MaxCreates` = 2, `MaxReviews` = 2.

Symmetry is used over runs and over reviewers, which occur in no ordered
expression; no run with symmetry checks a liveness property. Deadlock is not
checked: a finite number of calls, samples or changes ends, and the system then
really stops.

**Fairness.** `Publication`: weak fairness of each call's own steps, since calls run
in threads of their own and hold no locks. `SolvedPlant`: the steps of the program
and of the clock (`Timeout`) are fair, nothing is assumed of the child, so the
timeout alone ends a child that hangs. `WholeRun`: the steps of the route and the
return of the engine, which has no deadline; the client and the interrupt are not
fair. Starting, stopping, crashing, editing and reviewing are never fair.

`RecoversInTime` is stated for policies without an under-voltage threshold: with
one it fails for a slow converter, which the observations below describe.

## 6. Proofs

TLAPS checks the theorems below for every value of the constants that satisfies
the named assumptions. `TLC` checked each inductive invariant first.

`RunLoop_proofs` (`TimebaseAssumption`, `PolicyAssumption`): `TypeCorrect`,
`PackagesNeverLookQualified`, `CheckpointClaimsAreHonest`. Both properties speak
of published packages, and what is published is decided long before, so neither
is inductive. `PackageInv` follows a call: `CountOK` relates the number of samples
to the loop index at every position, `StatusOK` ties status, failure record and
reports together at every exit, `FilesOK` says that every checkpoint holds
exactly the samples up to the window it continues with, and `StoreOK` carries
this over to the directories, from where a resume reads it back. The interrupts
at arbitrary points are included.

`DeadlineIsKept` is about chains of runs, with interrupts anywhere too. It assumes
`StartsAtZero`, that is that the clock of the plant starts at zero (the time the
runner starts with) or that stops come at window boundaries: otherwise an interrupt
between lines 782 and 827 refutes it (section 7). An interrupt inside a window saves
a plant that is ahead of the saved time, so no equation between the two is
invariant. `CourseInv` says what is: the time is never ahead of the plant; where
they agree the plant is at least as far as the closed windows reach; and a run that
has closed all its windows is at the deadline, also when its time was not saved any
more. `SavesOK` says the same of every checkpoint, and that a directory has one
checkpoint per step number, so that the plant, the controller and the locals of a
resumed run come from the same one.

`CompletedRunsAreBaseline` and `PackagesArePrefixes` state the equality with the
uninterrupted run. They assume `StopsAtBoundaries` (`AsyncStops = {}`: a stop is a
cancel polled at the top of a window, an `interrupt_after_steps` or
`cancel_after_steps`, a fault, or the death of the process), because with an
interrupt inside a window the statement is false (section 7). In `BaselineInv`,
`PathOK` says at each position where plant, controller, time and last action are:
at a boundary they are functions of the number of closed windows (`Boundary`,
which `SavedPathOK` carries into the checkpoints), inside a window what is still
pending of a segment is what the baseline drives in those ticks (`PendingOK`).
`WindowTicks` is the arithmetic behind it.

`Publication_proofs` (`ArtifactAssumption`, `CallAssumption`): `DirectoryIsAStore`
is the refinement `Spec => StoreSpec`; `MarkersAreTrue`, `EvidenceStays` and
`TypeCorrect` follow from the same invariant. `PublicationInv` says of each call
what it has done from where it is (`CallOK`), that a temporary directory belongs
to its call (`TempOK`), and that a visible directory is a whole package of a call
that was given that id (`VisibleOK`). `OthersStay` shows that a step of one call
leaves what is known of the others.

`Protection_proofs` (`PolicyAssumption`, `ConverterAssumption`):
`SnapshotsAreComplete` (what a sample does is a function, `Answer`, of the state
before it, and every state is the one the log gives for its sample), `HoldsAreKept`
(the timer is the number of samples since the trip), `LatchesAreKept`,
`LatencyIsOneWindow`, `TypeCorrect`. `RecoveryIsInTime` is bounded progress, and depends on the numbers:
it assumes `Recoverable(d, wait, climb)`, that is disturbances up to sample d, holds
of at most `wait` samples, `climb` driven windows from zero to the nominal level,
limits that normal operation does not exceed, and a run of at least
`d + wait + climb` samples (in the instance 5 + 3 + 1 = 9, exactly its length).
`Recovering` measures how far a state has come since sample d: a hold by its timer,
a driven output by its level. A discharged output may trip once more, at sample
d + 1, and a run that was driven since then cannot trip again.

These are about `Protection` alone. `WatchedIsProtected` shows that a watched run
implements it (the plugin can end a run and changes nothing else of it), so that
`WatchedGuarantees` and `WatchedRecovery` state the same under the envelope, as the
run checks them. `EnvelopeKept` (`WatchAssumption`: policies are those that
`ApplicabilityPolicy` accepts, loads are numbers, records have the fields of
`ParameterRecord`) is `EnvelopeIsHonest` for any declarations, policies, modes, loads,
disturbances and resumes. What a plugin holds is what is left after a fold over the
offences of every phase, so the proof first says what a fold over any offences does
to counts, keys and findings (`Grew`, `Gained`), and then what each phase can find
(`ObservationPasses`, `ActionPasses`, `LoadsOut`). `WatchedInv` is the account
(`Account`) that a plugin gives of its process: the load rule was counted once for
each item of the schedule, each sample and the first observation that left the
range; for each sample outside there is a finding that still stands for its point
(`Stands`: the point has not changed since); a key that suppresses a finding has
one that stands for the present point, which is what the dropped keys of
`check_observation` are needed for. With `Told` for the duties that were driven,
`Inside` for what an enforced policy let through, and the fact that a run is
stopped exactly if a finding blocks, the three parts of the property follow.

`StudyRun_proofs` (`StudyAssumption`): `OwnRunsOnly`, `ExitCodeIsHonest`,
`ErrorsStay`, `AggregateOfPackages`, `TypeCorrect`, and the refinement
`LedgerKept`. An exit code sums up a history, so `StudyInv` follows it record by
record: `RecordsOK`, `FlagsOK`, `PlanOK`, `CodeOK`; `StudyFrame` carries what is
known of one invocation over the steps of the others, because a published package
never changes. `AggregateInv` says of the report on disk that its records hold
evidence and that level and reasons were computed from them.

`Release_proofs` (`ReleaseAssumption`: the two marks for a missing and for a torn
file are no values of their own): `ApprovalsAreOfTheRecord`,
`VerifiedReleaseIsWhole`, `NoFalseAlarm`, `TypeCorrect`. In `ReleaseInv`, `MadeOK`
keeps the body that `create` wrote through every later command, as long as no
editor touched it; `CreatorOK` carries the gate that held over the steps between
the look and the write; `WheelsOK` says that no two wheels are the same bytes, so
that an inventory which fits the wheel of a version names that version; and
`DecisionsOK` finds for every decision on disk the review it came from.

`SolvedPlant_proofs` (`SimulatorAssumption`, `PlantAssumption`):
`NoStaleSegment`, `EvidenceIsKept`, `TypeCorrect`. A cached table is used long
after the solve that made it, so `PlantInv` says what it is at every moment: it ends
with the drives of its own duty and input over its own segment (`CacheOK`), a step
that reads it has the same duty and input and ends within it (`ReadOK`), the state
of the plant is the table up to where the plant is (`TrackOK`), and a snapshot is
what had been driven when it was taken (`SavedOK`). `CallOK` and `DirectoryOK`
tie evidence and directory to the stage of the call. That the plant has the input the
caller gave last (`plant.input = asked`) is a conjunct of the invariant and not of the
model: it is where an input that a reset, a snapshot or a restore lost would show.
`EvidenceIsKept` is for
adapters that remove their directories (`KeepArtifacts = FALSE`, the default).

Also there: `GatesFollowTheCycle` (`CompileAssumption`, `CircuitAssumption`, by
which a window replaces no carrier's frequency: `CircuitPlant._parameter_overrides`
gives a source voltage and a load). It speaks of a document that is `Typed`: its
lists are lists and its numbers are integers, as ticks are; `MCCircuit` has TLC
check that of every document it can reach (`DocumentsAreTyped`). `CircuitInv` says that
the window at hand was compiled from the document at hand without a refusal, with the
carrier where the window began; an edit discards the window. The rest is about
the compiler. The refusals are what makes a window well formed: every gate has
one carrier, all carriers have one period, both dead times fit in it
(`AcceptedGates`, one lemma for each mode), so that the period the executor reads
off the first carrier is that of every gate (`OneCycle`). A source with its first
edge and a tail is then the interval of the cycle from wherever the window begins
(`PulseIsOn`), and the phase that is handed over continues the run (`WindowCycle`).

`ValidatorAgrees`, under the same assumptions, is about two readings of one document. From
what the compiler did not refuse (`DescriptorAccepted`, `CardsAccepted`) and what
the constructors accept, it follows that the graph of the validator is the
document: every net is read under an id of its own (`AllIsRead`, `GraphNets`), and
every component has exactly the ports of its kind, each on the net the compiler
reads (`GraphPorts`). What drives a control net is then a carrier
(`DriversAreCarriers`), so no net has two; when none is left undriven, the control nets
are the gates the compiler renders (`ControlNetsAreGates`), of which a declaration
counts as many as it has phases, or twice as many as it has pairs
(`DeclarationFitsGates`). An error of each kind that may remain is named
(`IssuesOfCompiled`), and `ReportInv` ties the report to the document at hand.

`GraphVerdictsHold` needs no more of a document than that it is `Typed`: it need
not be one that can be compiled. Islands: each round of the walk touches a
component more or nothing more is reached, so as many rounds as there are
components reach everything (`WalkEnds`). Loops: two nets stand in one group when
some of the sources joined so far lead from one to the other, and a source that
was joined had its ends in two groups (`GroupsAreJoined`). A source that closes a
loop therefore completes a cycle (`LoopIsCycle`). The other way round, the last
source of a cycle has its ends in one group: otherwise the nets of one of its ends,
taken together, would have a border that the cycle crosses exactly once
(`CycleIsLoop`), but a cycle crosses every border an even number of times
(`CutIsEven`). Nothing else in a report has one of the two codes
(`VerdictsOfGraph`).

`Evidence_proofs` is about the whole-run route and about the packages readers see.

- `ReportsTrue` has no assumption on calls, engines, plugins or sinks. `PhaseOK` says
  what exists at which position of the route, `ClaimsOK` that only an accepted
  trace without a blocking report gets as far as a claim, `EmitterOK` how the
  counters relate to what the sink got, and `AttemptsOK` how many events a call
  has attempted where it is.
- `ReferenceKept` (`EpsAssumption`, `ReferenceCallsAssumption`: what
  `WholeRunBuckPlant` accepts, with a trace tolerance that is not below its own
  1e-12 s; the default of the contract is 1e-9). `ReferenceOK` says that a trace of the
  reference engine is the one it computes for the call. The rest is about that
  function: the grid reaches the duration (`MultiplesAreFound`), its times rise by at
  least the cadence but for the last (`AxisRises`), an accepted schedule is in
  strict order (`ScheduleInOrder`), and the row at a time has the value of the last entry
  not after it (`EntryReached`). They speak of sequences of any length; where an
  induction would be used, the proof takes the least counterexample instead.
- `ChangesAreSeen`, `EligibleSound`, `MatchesRanOneCode` (`MarkersAreDistinct`,
  `HistoriesAreTyped`, `JobsAreTyped`, `SamplesAreNumbers`, `AudienceAreReaders`,
  `TolerancesAreAccepted`, `MetricTolerancesAreNumbers`). `ProvenanceInv` says of
  every run what its process loaded (`CodeOK`), what the gates it has passed
  found true when they looked (`GateOK`), and that a package was made of the files as they
  were at some moment of that run (`PackageOK`). That runs two readers accept are
  comparable and agree is then a statement about two records, without a state
  (`ComparableInv`, `RunsAreSymmetric`, `MetricMatches`).

`Records_proofs`: `AttestationsLast`, `AnchorsLast` (an action property),
`AnchorsAreRecorded`, `TypeCorrect` (`AttestationAssumption`: a document is not
the mark for a missing one, and there are three ways to add files to a commit)
and `CurrentIsSeen`, `StaleIsNamed` (`ManifestAssumption`: a manifest has one
backend of a name, and the group ids of solvers, `"solver:"` and the name, differ
from one another and from the fixed ids). `KeptInv` says what
a call knows of the files between two of its steps. Nobody keeps a second
attester out, and with two the statement is false (the hazard at
`attestation.py:1029`), so `AttestationsLast` assumes `OneAttesterPerRun`, which
holds in the instance of the run. `ConfOK` says that an
unedited confirmation is of what its reviewer had on screen; that the list of differences
is what changed is then a statement about two manifests: each states a value or
a limit once for a key (`StatedOnce`), the view has the same values under the same keys
(`GroupsMatch`, `ViewMatches`), and the keys that are listed are those under which the two
differ (`RowKeys`, `LimitKeys`, `ChangesNamed`).

**Only model-checked**: of `Circuit`, the import (`ImportKeepsTheCircuit`), a round
trip of whole netlists through two folds over their cards, which compares letters,
order and connections (not values and initial conditions) as `_signature` of
`tests/test_spice_import.py` does; `PointsAreAsPlanned`, which is stated over the
grids of its MC module; and the liveness properties `SomeoneWins`, `EveryStepEnds`,
`CancelIsHonoured`. Liveness under fairness is beyond the prover, and so is a
general statement of induction: what is proved of a sequence of any length is proved
from a least counterexample, one statement at a time.

## 7. Findings and observations

**Finding.** An interrupt inside a window stores the locals of the last closed
window together with a plant and a controller that are further. The resumed run
observes the same instant with a controller that has already consumed it and is
published as `QUALIFIED` with another trajectory. `cancellation.py:21` calls both
kinds of stop recoverable; `docs/23` S15-07 requires equality with the
uninterrupted baseline (`runloop_async_resume`).

The following were met while modelling and reproduced with the program, or follow
from one line. The models follow the code in each of them, and the properties are
stated so that they hold with it, or under an assumption that is named.

*Run and publication.* The clock of the first observation becomes `current_time` at
`runtime.py:782` and `run_start_time` only at `:827`, after the checks, although the
comment at `:646` promises that a resumed run retains the same final deadline. An
interrupt in between writes a checkpoint whose start is 0.0 and whose time is that
of the plant, so a run resumed from it completes too early when the plant's clock
does not begin at zero, and is published as `QUALIFIED`: with `StartTime = 1` and
`Delay = 0` in the constants of `runloop_async`, TLC reports
`CompletedRunReachesDeadline` violated. A target equal to the end of the window is
accepted (`runtime.py:924`) and then fails the run (`:998`; `docs/06` 3.5 allows
it). `scan_abandoned_runs` reports the directory of a call that is still running
(`artifacts.py:238`). The final marker is written next to the renamed package, so
the digest does not verify in that moment, or for ever if the process dies there
(`:161`). A call for `a` is refused while `a.b` is being written. A report with
level "failed" and no findings gives QUALIFIED with `qualification.passed` false.

*Protection and envelope.* A retry starts from the discharged output with the
under-voltage protection armed; a converter that needs more than one period trips
again for ever. With a non-zero tolerance an exclusive bound admits the bound
itself (`model_claim.py:122`): a boost at duty 1, or a load of 0, counts as
inside. The plugin is in no checkpoint, so the summary of a resumed run does not
include its prefix. Findings of the preflight use up the deduplication key, so the
first violation in the run is only counted.

*Study.* `study_runner.py:158` overwrites the document of a point that was
published before (`docs/adr/0005:112` calls it the reproducible input); a package
may come from a document that a concurrent invocation put there, if study id and
plant agree; a point that fails for another reason but whose samples repeat still
ends a periodicity study.

*Plants and engine.* `reset()` of the solved plants does not bring back the
declared input (`ngspice_plants.py:205`, `circuit_plant.py:375`): two runs of one object
after a load step start from different circuits, and `identity()` reports the input
driven last. `CircuitPlant.restore` leaves the values of `observe()` stale
(`circuit_plant.py:525`); a table that ends within 1e-12 s of the horizon passes
one check and fails another (`:828`, `wrdata.py:96`); a table that is too short
raises without evidence; an interrupt between the assignments of `advance` tears
the state (`:501`). The buck plants refuse on the next solve the negative inductor
current they have reported themselves. `WholeRunBuckPlant` accepts two equal
off-grid schedule times (`:890`) and then fails (`:1003`).

*Circuits.* A net issue's pointer counts accepted nets only
(`topology_validation.py:952`); an illegal port direction validates although the
descriptor cannot be built, and so does a null dead time that the compiler
refuses; a net with id "0" that is not the reference is shorted to ground
(`circuit_compile.py:327`); edges of 1 ns lie outside the pulse width, so a dead
time below one edge lets both switches conduct; a duty that changes inside a cycle
loses the dead time across the window. The importer compares node names with
their case, keeps `gnd` as a net, drops the delay of a PULSE (an interleaved
netlist comes back in phase), takes the last of two equal `.model` keys silently
(the message at `spice_import.py:966` is unreachable), and reads a gate that
never turns on as a voltage source.

*Records.* Attest v1, supersede it by v2, commit, attest v1 again and commit: v1
stays `attestation_missing_from_commit` for ever (`attestation.py:498`, `:650`).
The printed next step commits the attestation without its index. Superseding the
same hash twice overwrites the first superseded document. A line glued to another
attester's torn line is lost although ATTESTED is returned (the file is opened for
appending, but the newline was decided before). A confirmation whose
package differs only in the plant's component id, or in the spelling 1.0 for 1, is
`stale` with an empty list of differences (`docs/54:180` says it names which
value changed). So is one whose run was repeated with the same parameters:
`docs/54:223` describes that, and the comments at `parameter_confirmation.py:19`
("the recorded parameter set differs") and `:452` (a republished package "becomes a
different package") say otherwise. `docs/54:185` says that a scope covers every group; when one is
written only `plant` is required, and the confirmation is `invalid` when read. A file
edited without new hashes is `unknown`, where the comment at
`parameter_confirmation.py:28` calls it the case for `stale`. Backends are told apart
by name, version and settings (`provenance.py:392`), so two adapters of one name and
other settings give two groups with one id, of which a difference compares one;
the adapters of this repository have one of a name (`ManifestAssumption`).

*Reading.* `collect_git_provenance` reads the head, then the status
(`provenance.py:202`, `:208`): a commit between them lets an exploratory package
name the old commit as clean; formal runs are saved by the gate on the work tree
before it, which is why `MatchMeansSameCode` asks for that verdict. A pin added
while a run is running makes its package reviewed although no commit has the pin;
pins that cannot be read at publication lose the package (`runtime.py:1134`). The
digest is taken from the disk, not of the loaded code: `codeSteady` in the
properties. `_aggregate` lets worse evidence raise a claim (an `unknown` that
becomes `limited`). A relative tolerance is of the left run
(`reproducibility.py:122`), so that comparison and audit depend on the order of
their arguments; with absolute limits they do not, which is part of
`MatchMeansSameCode`. A solver that is `known` without a version is credible but
not comparable. A metric report looks at neither commit nor environment nor the
packages' own evidence level: two runs of different code on different machines, or
two whole-run packages capped at `limited`, are classified `comparable` when
their metrics match (`evidence.py:199`; `docs/22` names "shared data/provenance
contracts").

*Release.* RG-2 of `docs/53` (an earlier approval survives a new `create`) is not
what `create` does, which writes an empty history. `verify` is said to recompute
every hash; it does not look at the release notes, the scope document, or the
commit against the gate evidence. `approve` does not check the digest it replaces,
so a record edited by hand becomes valid by approving it again; two concurrent
approvals lose one decision. The wheel is not bound to the commit of the gate.

## 8. Not modelled

* **Numbers.** Differential equations, control laws, frequency-domain analysis,
  statistics: floating-point arithmetic. A plant is a device whose next state is a
  function of its state and its drive; tolerances are integers of one tick or one
  hundredth. The event schedule of `model_control_buck.py` belongs here too,
  because every event is the root of such an equation.
* **Text.** Wording, formatting and the characters of netlists and documents;
  names are model values, and their equality is that of the code.
* **Validation without state.** `spec_validation.py`, the registries,
  `model_capabilities.py` and `contracts.py` check one field after the other; what
  a run needs of them is an assumption on a constant.
* **Command line and HTTP service.** Parsing and read-only output over the parts
  above; the study command and the exit codes of a study are in `StudyRun`.
* **Signatures, shallow clones, a missing git** (`attestation.py`), the discovery
  of executables and the environment lock (`provenance.py`), the catalogues and
  exports of the other readers, the rule pack of the example plants, the action
  policies' clamping of real numbers.
* Within `RunLoop`: the gates before the writer exists (they are in `Provenance`
  and `WatchedRun`) and the rate limit of progress events.
* `TrajectoryIsTrue` does not hold after an interrupt between two assignments of
  `advance`; the model keeps that state (`torn`) and the property excludes it.
* `CancelIsHonoured` assumes that a client does not withdraw a cancel.
* Seeds of a study are modelled up to the integers of the model checker.
