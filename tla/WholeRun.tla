------------------------------ MODULE WholeRun ------------------------------
(***************************************************************************)
(* One call of the whole-run route (whole_run_route.py): an engine that    *)
(* owns the clock is called once, and everything the package claims is     *)
(* judged afterwards.  The client may cancel from another thread at any    *)
(* time, its event sink may fail, plugins may raise or contradict          *)
(* themselves, and the process may be interrupted.                         *)
(***************************************************************************)
EXTENDS Checks, TimeModel, WholeRunEngine

CONSTANTS Calls,          \* the calls a client may make
          Traces,         \* what a foreign engine may return
          ChainResults,   \* what the plugins of one chain may return
          LegacyResults   \* what the legacy qualification checker may return

\* The reference engine is given a positive cadence and duration, and the contract
\* it declares tolerates more than its clock does.
ASSUME ReferenceCallsAssumption ==
  \A c \in Calls : c.engine = "reference" =>
    /\ c.schedule \in Seq([time : Int])
    /\ {c.duration, c.cadence} \subseteq Nat \ {0}
    /\ c.tolerance \in Nat /\ Eps <= c.tolerance

VARIABLES call,       \* the arguments of the call
          pc,         \* where the call is
          disk,       \* what the run's location holds
          status,     \* the lifecycle state
          cancelled,  \* the client's cancel token
          observed,   \* whether the route has seen the token set
          trace,      \* what the engine returned
          safety, validity, qualification,   \* the reports
          document,   \* the qualification document
          emitter,    \* the event emitter: attempts, deliveries, drops
          got,        \* the sequence numbers the client's sink accepted
          manifest,   \* the claims of the published package
          outcome     \* how the call ended

vars == <<call, pc, disk, status, cancelled, observed, trace, safety, validity,
          qualification, document, emitter, got, manifest, outcome>>
judgement == <<safety, validity, qualification>>

NoTrace == [typed |-> FALSE, absent |-> TRUE]
NoManifest == [absent |-> TRUE]
NotRun == FailedDocument

Route == [time_model |-> "whole_run", control_location |-> call.control,
          event_granularity |-> call.events]

Init ==
  /\ call \in Calls
  /\ pc = "called"
  /\ disk = IF call.taken THEN "foreign" ELSE "nothing"
  /\ status = "CREATED"
  /\ cancelled = FALSE /\ observed = FALSE
  /\ trace = NoTrace
  /\ safety = ReportOk /\ validity = ReportOk /\ qualification = ReportOk
  /\ document = NotRun
  /\ emitter = [sequence |-> 0, delivered |-> 0, dropped |-> 0]
  /\ got = {}
  /\ manifest = NoManifest
  /\ outcome = "none"

\* RunEventEmitter.emit: an attempt takes a sequence number whatever the sink
\* does with it, and without a sink there is no attempt.
\* (Mutant: the number is taken only when the sink accepted the event.)
NumbersOfAcceptance(accepted) == IF accepted THEN 1 ELSE 0
NumbersOfAttempt(accepted) == 1
Emit ==
  IF call.sink = "none" THEN UNCHANGED <<emitter, got>>
  ELSE \E accepted \in IF call.sink = "flaky" THEN BOOLEAN ELSE {TRUE} :
         /\ emitter' = [sequence |-> emitter.sequence + NumbersOfAttempt(accepted),
                        delivered |-> emitter.delivered + IF accepted THEN 1 ELSE 0,
                        dropped |-> emitter.dropped + IF accepted THEN 0 ELSE 1]
         /\ got' = got \cup IF accepted THEN {emitter.sequence} ELSE {}

-----------------------------------------------------------------------------
\* Everything that is refused before a writer exists.
Refused ==
  \/ Route \notin RouteCapabilities
  \/ ~FormalComparisonAllowed("whole_run") /\ call.mode = "formal_comparison"
  \/ call.recovery
  \/ call.applicability = "enforce"
  \/ call.contract # "declared"
  \/ ~call.runnable
  \/ call.taken
  \/ ~call.registered

Refuse ==
  /\ pc = "called" /\ Refused
  /\ pc' = "done" /\ outcome' = "refused"
  /\ UNCHANGED <<call, disk, status, cancelled, observed, trace, judgement, document, emitter,
                 got, manifest>>

Open ==
  /\ pc = "called" /\ ~Refused
  /\ disk' = "temporary"
  /\ status' = "RUNNING"
  /\ Emit
  /\ pc' = "started"
  /\ UNCHANGED <<call, cancelled, observed, trace, judgement, document, manifest, outcome>>

\* The client's thread.
Cancel ==
  /\ pc # "done" /\ ~cancelled /\ call.cancellable
  /\ cancelled' = TRUE
  /\ UNCHANGED <<call, pc, disk, status, observed, trace, judgement, document, emitter, got,
                 manifest, outcome>>

\* A run that ends in target without having qualified.
Conclude(target) ==
  /\ status' = target
  /\ document' = FailedDocument
  /\ pc' = "publishing"

CancelBeforeEngine ==
  /\ pc = "started" /\ cancelled
  /\ observed' = TRUE
  /\ Conclude("INCOMPLETE")
  /\ UNCHANGED <<call, disk, cancelled, trace, judgement, emitter, got, manifest, outcome>>

Begin ==
  /\ pc = "started" /\ ~cancelled
  /\ Emit
  /\ \/ /\ pc' = "in_engine" /\ UNCHANGED <<status, document>>
     \/ Conclude("RUN_FAILED")       \* the capabilities do not match
  /\ UNCHANGED <<call, disk, cancelled, observed, trace, judgement, manifest, outcome>>

Contract == [cadence |-> call.cadence, tolerance |-> call.tolerance]
Problems(t) == TraceProblems(t, Contract, call.duration)

\* The only call of run_whole; the token is read once more when it returns.
\* (Mutant: the answer it gave before the call is used again.)
CancelledBefore == observed
CancelledAfter == cancelled
EngineReturns ==
  /\ pc = "in_engine"
  /\ \/ /\ call.engine = "foreign"
        /\ trace' \in Traces
     \/ /\ call.engine = "reference"
        /\ ~EngineRaises(call.schedule, call.duration, call.cadence)
        /\ trace' = EngineTrace(call.schedule, call.duration, call.cadence)
  /\ observed' = CancelledAfter
  /\ Emit
  /\ pc' = "returned"
  /\ UNCHANGED <<call, disk, status, cancelled, judgement, document, manifest, outcome>>

EngineFails ==
  /\ pc = "in_engine"
  /\ call.engine = "foreign" \/ EngineRaises(call.schedule, call.duration, call.cadence)
  /\ Conclude("RUN_FAILED")
  /\ UNCHANGED <<call, disk, cancelled, observed, trace, judgement, emitter, got, manifest, outcome>>

\* A cancel request wins over everything the trace is worth, and a trace that
\* breaks its contract is not looked at further.
Sort ==
  /\ pc = "returned"
  /\ \/ observed /\ Conclude("INCOMPLETE")
     \/ ~observed /\ Problems(trace) # {} /\ Conclude("RUN_FAILED")
     \/ /\ ~observed /\ Problems(trace) = {}
        /\ pc' = "judging" /\ UNCHANGED <<status, document>>
  /\ UNCHANGED <<call, disk, cancelled, observed, trace, judgement, emitter, got, manifest, outcome>>

\* The safety and the validity chain, both over all samples; a report that
\* contradicts itself ends the run like any other exception.
\* (Mutant: only the safety chain can stop the run.)
BlockedBySafety(s, v) == Blocking(s)
Blocked(s, v) == Blocking(s) \/ Blocking(v)

Judge ==
  /\ pc = "judging"
  /\ \E s, v \in ChainResults :
       IF ChainRaises(s)
       THEN Conclude("RUN_FAILED") /\ UNCHANGED judgement
       ELSE /\ safety' = RunPlugins(s)
            /\ IF ChainRaises(v)
               THEN Conclude("RUN_FAILED") /\ UNCHANGED <<validity, qualification>>
               ELSE /\ validity' = RunPlugins(v)
                    /\ UNCHANGED qualification
                    /\ IF Blocked(safety', validity') THEN Conclude("RUN_FAILED")
                       ELSE pc' = "qualifying" /\ UNCHANGED <<status, document>>
  /\ UNCHANGED <<call, disk, cancelled, observed, trace, emitter, got, manifest, outcome>>

\* The legacy checker, then the basic plugin and the configured ones.  The run is
\* RUN_OK only for an instant: qualified or disqualified within the same step.
Qualify ==
  /\ pc = "qualifying"
  /\ \E legacy \in LegacyResults, q \in ChainResults :
       LET plugins == {BasicQualification("finite")} \cup q
           report == Merged({qualification, legacy, RunPlugins(plugins)})
       IN IF legacy = Raised \/ ChainRaises({legacy})
          THEN Conclude("RUN_FAILED") /\ UNCHANGED qualification
          ELSE IF ChainRaises(plugins)
          THEN Conclude("RUN_FAILED") /\ qualification' = Merged({qualification, legacy})
          ELSE /\ qualification' = report
               /\ document' = QualificationDocument(report)
               /\ status' = IF report.passed THEN "QUALIFIED" ELSE "DISQUALIFIED"
               /\ pc' = "publishing"
  /\ UNCHANGED <<call, disk, cancelled, observed, trace, safety, validity, emitter, got,
                 manifest, outcome>>

\* The package: its claims, then the move to its final name.
Publish ==
  /\ pc = "publishing"
  /\ \E facts \in Facts :
       manifest' = [status |-> status, document |-> document,
                    evidence |-> DeriveEvidenceLevel(status, call.mode, facts, document.level, Route),
                    limitations |-> RouteLimitations(Route),
                    safe |-> status \in {"QUALIFIED", "DISQUALIFIED"} /\ safety.passed /\ validity.passed,
                    events |-> emitter]
  /\ disk' = "published"
  /\ pc' = "published"
  /\ UNCHANGED <<call, status, cancelled, observed, trace, judgement, document, emitter, got, outcome>>

\* run_finished comes after the package is there, and is not in its counts.
Finish ==
  /\ pc = "published"
  /\ Emit
  /\ pc' = "done" /\ outcome' = "published"
  /\ UNCHANGED <<call, disk, status, cancelled, observed, trace, judgement, document, manifest>>

\* A KeyboardInterrupt, which no handler catches, or a write that fails: the
\* temporary directory stays behind and nothing is published.
Abort ==
  /\ pc \in {"started", "in_engine", "returned", "judging", "qualifying", "publishing"}
  /\ pc' = "done" /\ outcome' = "raised"
  /\ UNCHANGED <<call, disk, status, cancelled, observed, trace, judgement, document, emitter,
                 got, manifest>>

Next ==
  \/ Refuse \/ Open \/ Cancel \/ CancelBeforeEngine \/ Begin \/ EngineReturns \/ EngineFails
  \/ Sort \/ Judge \/ Qualify \/ Publish \/ Finish \/ Abort

\* The client need not cancel and nobody need interrupt; the route goes on as long
\* as the engine, which has no deadline, returns or raises.
Fairness ==
  /\ WF_vars(Refuse) /\ WF_vars(Open) /\ WF_vars(CancelBeforeEngine) /\ WF_vars(Begin)
  /\ WF_vars(EngineReturns \/ EngineFails) /\ WF_vars(Sort) /\ WF_vars(Judge)
  /\ WF_vars(Qualify) /\ WF_vars(Publish) /\ WF_vars(Finish)
Spec == Init /\ [][Next]_vars
FairSpec == Spec /\ Fairness
-----------------------------------------------------------------------------
ReportsOf == [passed : BOOLEAN, findings : SUBSET Finding, level : CheckLevels \cup {"none"}]
TypeOK ==
  /\ call \in Calls
  /\ pc \in {"called", "started", "in_engine", "returned", "judging", "qualifying",
             "publishing", "published", "done"}
  /\ disk \in {"nothing", "foreign", "temporary", "published"}
  /\ status \in {"CREATED", "RUNNING", "RUN_FAILED", "INCOMPLETE", "QUALIFIED", "DISQUALIFIED"}
  /\ cancelled \in BOOLEAN /\ observed \in BOOLEAN
  /\ trace = NoTrace \/ trace \in Traces \/ trace.typed
  /\ safety \in ReportsOf /\ validity \in ReportsOf /\ qualification \in ReportsOf
  /\ document \in [level : CheckLevels, passed : BOOLEAN]
  /\ emitter \in [sequence : 0 .. 4, delivered : 0 .. 4, dropped : 0 .. 4]
  /\ got \subseteq 0 .. 3
  /\ manifest = NoManifest \/ manifest.evidence \in EvidenceLevels
  /\ outcome \in {"none", "refused", "raised", "published"}

\* A package that claims more than diagnostic_only has a trace without problems,
\* was not cancelled before the engine returned, nothing in any of its three
\* reports blocks, and it never claims more than the route allows.
EvidenceIsEarned ==
  manifest # NoManifest =>
    /\ EvidenceRank(manifest.evidence) <= EvidenceRank("limited")
    /\ manifest.evidence # "diagnostic_only" =>
         /\ trace # NoTrace /\ Problems(trace) = {}
         /\ ~observed
         /\ ~Blocking(safety) /\ ~Blocking(validity) /\ ~Blocking(qualification)

\* However the client's sink behaves, every attempt is counted once, what the sink
\* got are the numbers of the delivered ones, a lost event leaves a gap in them, and
\* a call whose engine returned makes four attempts in all.
EventsAddUp ==
  /\ emitter.sequence = emitter.delivered + emitter.dropped
  /\ Cardinality(got) = emitter.delivered
  /\ got \subseteq 0 .. emitter.sequence - 1
  /\ outcome = "published" /\ trace # NoTrace /\ call.sink # "none" => emitter.sequence = 4

\* What a call leaves behind is true: the level its package claims is earned, and the
\* counters of its events say what the client got.
ReportsAreTrue == EvidenceIsEarned /\ EventsAddUp

\* The reference engine keeps the contract it declared on every legal schedule, and
\* acts on every entry inside the run at some instant within Eps of it, never sooner.
ReferenceKeepsItsContract ==
  call.engine = "reference" /\ trace # NoTrace =>
    LET instants == ControlTimes(call.schedule, call.duration, call.cadence)
    IN /\ Problems(trace) = {}
       /\ \A i \in 1 .. Len(call.schedule) :
            LET due == call.schedule[i].time
            IN /\ 0 < due /\ due < call.duration =>
                    \E t \in instants : /\ EntryAt(call.schedule, t) >= i
                                        /\ t - due <= Eps
               /\ \A t \in instants : EntryAt(call.schedule, t) >= i => due - t <= Eps

\* A client that cancels before the engine has returned never gets a run that
\* completed: it is incomplete, or it failed or was interrupted before that.
CancelIsHonoured ==
  cancelled /\ pc \in {"started", "in_engine"}
    ~> \/ status \in {"INCOMPLETE", "RUN_FAILED"} /\ outcome = "published"
       \/ outcome = "raised"
=============================================================================
