--------------------------- MODULE Evidence_proofs ---------------------------
(***************************************************************************)
(* Proofs about what a package may claim: of a whole-run call, for engines, *)
(* plugins and legacy checkers that return whatever they like (WholeRun),   *)
(* and to its readers, for any adapters, histories and edits (Provenance,   *)
(* Reading, MetricEvidence).                                               *)
(***************************************************************************)
EXTENDS WholeRun, MetricEvidence, FiniteSetTheorems, SequenceTheorems, WellFoundedInduction, TLAPS

-----------------------------------------------------------------------------
(* What every reachable state looks like. *)

PhaseOK ==
  /\ pc \in {"called", "started", "in_engine", "returned", "judging", "qualifying",
             "publishing", "published", "done"}
  /\ pc # "done" => outcome = "none"
  /\ pc \in {"called", "started", "in_engine"} => trace = NoTrace
  /\ manifest # NoManifest => pc \in {"published", "done"}
  /\ status \in {"CREATED", "RUNNING", "RUN_FAILED", "INCOMPLETE", "QUALIFIED", "DISQUALIFIED"}
  /\ status = "QUALIFIED" => pc \in {"publishing", "published", "done"}

\* The trace is one that may be judged.
Accepted == Problems(trace) = {} /\ ~observed

\* Only a run whose trace was accepted, and that nothing in its reports blocks,
\* is ever qualified, and only a qualified one claims anything.
ClaimsOK ==
  /\ pc \in {"judging", "qualifying"} => Accepted
  /\ pc = "qualifying" => ~Blocking(safety) /\ ~Blocking(validity)
  /\ status = "QUALIFIED" =>
       Accepted /\ ~Blocking(safety) /\ ~Blocking(validity) /\ ~Blocking(qualification)
  /\ manifest # NoManifest =>
       /\ EvidenceRank(manifest.evidence) <= EvidenceRank("limited")
       /\ manifest.evidence # "diagnostic_only" => status = "QUALIFIED"

EmitterOK ==
  /\ emitter \in [sequence : Nat, delivered : Nat, dropped : Nat]
  /\ emitter.sequence = emitter.delivered + emitter.dropped
  /\ IsFiniteSet(got) /\ Cardinality(got) = emitter.delivered
  /\ got \subseteq 0 .. emitter.sequence - 1

\* How many attempts a call with a sink has made where it is.
AttemptsOK ==
  call.sink # "none" =>
    /\ pc = "called" => emitter.sequence = 0
    /\ pc = "started" => emitter.sequence = 1
    /\ pc = "in_engine" => emitter.sequence = 2
    /\ pc \in {"returned", "judging", "qualifying"} => emitter.sequence = 3
    /\ pc \in {"publishing", "published"} /\ trace # NoTrace => emitter.sequence = 3
    /\ outcome = "published" /\ trace # NoTrace => emitter.sequence = 4

WholeRunInv == PhaseOK /\ ClaimsOK /\ EmitterOK /\ AttemptsOK

-----------------------------------------------------------------------------
(* Lemmas about the operators. *)

LEMMA Ranks ==
  /\ EvidenceRank("diagnostic_only") = 1 /\ EvidenceRank("functional") = 2
  /\ EvidenceRank("limited") = 3 /\ EvidenceRank("comparable") = 4
<1>1. EvidenceRank("diagnostic_only") = 1
  BY DEF EvidenceRank, RUNTIME_EVIDENCE_LEVELS
<1>2. EvidenceRank("functional") = 2
  BY DEF EvidenceRank, RUNTIME_EVIDENCE_LEVELS
<1>3. EvidenceRank("limited") = 3
  BY DEF EvidenceRank, RUNTIME_EVIDENCE_LEVELS
<1>4. EvidenceRank("comparable") = 4
  BY DEF EvidenceRank, RUNTIME_EVIDENCE_LEVELS
<1> QED BY <1>1, <1>2, <1>3, <1>4

\* _derive_evidence_level on this route: at most limited, and more than
\* diagnostic_only only for a run that is RUN_OK or qualified.
LEMMA LevelOnThisRoute ==
  ASSUME NEW s, NEW mode, NEW facts, NEW level, NEW r, r.time_model = "whole_run"
  PROVE  LET claimed == DeriveEvidenceLevel(s, mode, facts, level, r)
         IN /\ EvidenceRank(claimed) <= EvidenceRank("limited")
            /\ claimed # "diagnostic_only" => s \in {"RUN_OK", "QUALIFIED"}
<1>1. EvidenceCap(r) = "limited"
  BY DEF EvidenceCap
<1>2. /\ CapEvidenceLevel("functional", r) = "functional"
      /\ CapEvidenceLevel("limited", r) = "limited"
      /\ CapEvidenceLevel("comparable", r) = "limited"
  BY <1>1, Ranks DEF CapEvidenceLevel
<1>3. CASE s \notin {"RUN_OK", "QUALIFIED"}
  <2>1. DeriveEvidenceLevel(s, mode, facts, level, r) = "diagnostic_only"
    BY <1>3 DEF DeriveEvidenceLevel
  <2> QED BY <2>1, Ranks
<1>4. CASE s \in {"RUN_OK", "QUALIFIED"}
  <2>1. DeriveEvidenceLevel(s, mode, facts, level, r)
          \in {"diagnostic_only", "functional", "limited"}
    BY <1>2, <1>4 DEF DeriveEvidenceLevel
  <2> QED BY <1>4, <2>1, Ranks
<1> QED BY <1>3, <1>4

\* A merged report passes exactly when nothing in it blocks.
LEMMA MergedPasses ==
  ASSUME NEW reports
  PROVE  Merged(reports).passed => ~Blocking(Merged(reports))
BY DEF Merged, Blocking

\* One attempt, or none when there is no sink.
LEMMA EmitCounts ==
  ASSUME EmitterOK, Emit
  PROVE  /\ EmitterOK'
         /\ call.sink # "none" => emitter'.sequence = emitter.sequence + 1
<1>1. CASE call.sink = "none"
  BY <1>1 DEF Emit, EmitterOK
<1>2. CASE call.sink # "none"
  <2>1. PICK accepted \in BOOLEAN :
          /\ emitter' = [sequence |-> emitter.sequence + 1,
                         delivered |-> emitter.delivered + IF accepted THEN 1 ELSE 0,
                         dropped |-> emitter.dropped + IF accepted THEN 0 ELSE 1]
          /\ got' = got \cup IF accepted THEN {emitter.sequence} ELSE {}
    BY <1>2 DEF Emit, NumbersOfAttempt
  <2>2. PICK s \in Nat, d \in Nat, l \in Nat :
          emitter = [sequence |-> s, delivered |-> d, dropped |-> l] /\ s = d + l
    BY DEF EmitterOK
  <2>3. IsFiniteSet(got) /\ Cardinality(got) = d /\ got \subseteq 0 .. s - 1 /\ s \notin got
    BY <2>2 DEF EmitterOK
  <2>4. CASE accepted
    <3>1. emitter' = [sequence |-> s + 1, delivered |-> d + 1, dropped |-> l] /\ got' = got \cup {s}
      BY <2>1, <2>2, <2>4
    <3>2. IsFiniteSet(got') /\ Cardinality(got') = d + 1
      BY <2>3, <3>1, FS_AddElement
    <3>3. got' \subseteq 0 .. s + 1 - 1
      BY <2>2, <2>3, <3>1
    <3> QED BY <2>2, <3>1, <3>2, <3>3 DEF EmitterOK
  <2>5. CASE ~accepted
    <3>1. emitter' = [sequence |-> s + 1, delivered |-> d, dropped |-> l + 1] /\ got' = got
      BY <2>1, <2>2, <2>5
    <3>2. got' \subseteq 0 .. s + 1 - 1
      BY <2>2, <2>3, <3>1
    <3> QED BY <2>2, <2>3, <3>1, <3>2 DEF EmitterOK
  <2> QED BY <2>4, <2>5
<1> QED BY <1>1, <1>2

\* A trace that the engine has not returned breaks its contract.
LEMMA NoTraceIsNotAccepted == Problems(NoTrace) # {}
BY DEF Problems, TraceProblems, NoTrace

-----------------------------------------------------------------------------
(* The invariant holds at the start, and every action keeps it. *)

LEMMA InvInit == Init => WholeRunInv
<1> SUFFICES ASSUME Init PROVE WholeRunInv
  OBVIOUS
<1>1. PhaseOK
  BY DEF Init, PhaseOK
<1>2. ClaimsOK
  BY DEF Init, ClaimsOK
<1>3. EmitterOK
  <2>1. IsFiniteSet({}) /\ Cardinality({}) = 0
    BY FS_EmptySet
  <2> QED BY <2>1 DEF Init, EmitterOK
<1>4. AttemptsOK
  BY DEF Init, AttemptsOK
<1> QED BY <1>1, <1>2, <1>3, <1>4 DEF WholeRunInv

\* A run that ends without having qualified, with the package still to come.
LEMMA ConcludeStep ==
  ASSUME WholeRunInv, NEW target \in {"RUN_FAILED", "INCOMPLETE"}, Conclude(target),
         pc \in {"started", "in_engine", "returned", "judging", "qualifying"},
         pc = "started" \/ pc = "in_engine" => trace' = NoTrace,
         UNCHANGED <<call, trace, emitter, got, manifest, outcome>>
  PROVE  WholeRunInv'
<1> USE DEF WholeRunInv, Conclude
<1>1. PhaseOK'
  BY DEF PhaseOK
<1>2. ClaimsOK'
  BY DEF PhaseOK, ClaimsOK
<1>3. EmitterOK'
  BY DEF EmitterOK
<1>4. AttemptsOK'
  BY DEF PhaseOK, AttemptsOK
<1> QED BY <1>1, <1>2, <1>3, <1>4

LEMMA RefuseStep ==
  ASSUME WholeRunInv, Refuse
  PROVE  WholeRunInv'
<1> USE DEF WholeRunInv, Refuse, judgement
<1>1. PhaseOK'
  BY DEF PhaseOK
<1>2. ClaimsOK'
  BY DEF PhaseOK, ClaimsOK, Accepted, Problems, Contract
<1>3. EmitterOK'
  BY DEF EmitterOK
<1>4. AttemptsOK'
  BY DEF PhaseOK, AttemptsOK
<1> QED BY <1>1, <1>2, <1>3, <1>4

LEMMA OpenStep ==
  ASSUME WholeRunInv, Open
  PROVE  WholeRunInv'
<1> USE DEF WholeRunInv, Open, judgement
<1>1. PhaseOK'
  BY DEF PhaseOK
<1>2. ClaimsOK'
  BY DEF PhaseOK, ClaimsOK
<1>3. EmitterOK' /\ (call.sink # "none" => emitter'.sequence = emitter.sequence + 1)
  BY EmitCounts
<1>4. AttemptsOK'
  BY <1>3 DEF PhaseOK, AttemptsOK
<1> QED BY <1>1, <1>2, <1>3, <1>4

LEMMA CancelStep ==
  ASSUME WholeRunInv, Cancel
  PROVE  WholeRunInv'
<1> USE DEF WholeRunInv, Cancel, judgement
<1>1. PhaseOK'
  BY DEF PhaseOK
<1>2. ClaimsOK'
  BY DEF ClaimsOK, Accepted, Problems, Contract
<1>3. EmitterOK'
  BY DEF EmitterOK
<1>4. AttemptsOK'
  BY DEF AttemptsOK
<1> QED BY <1>1, <1>2, <1>3, <1>4

LEMMA BeginStep ==
  ASSUME WholeRunInv, Begin
  PROVE  WholeRunInv'
<1> USE DEF WholeRunInv, Begin, judgement, Conclude
<1>1. PhaseOK'
  BY DEF PhaseOK
<1>2. ClaimsOK'
  BY DEF PhaseOK, ClaimsOK
<1>3. EmitterOK' /\ (call.sink # "none" => emitter'.sequence = emitter.sequence + 1)
  BY EmitCounts
<1>4. AttemptsOK'
  BY <1>3 DEF PhaseOK, AttemptsOK
<1> QED BY <1>1, <1>2, <1>3, <1>4

LEMMA EngineReturnsStep ==
  ASSUME WholeRunInv, EngineReturns
  PROVE  WholeRunInv'
<1> USE DEF WholeRunInv
<1>1. /\ pc = "in_engine" /\ pc' = "returned" /\ Emit
      /\ UNCHANGED <<call, status, manifest, outcome>>
  BY DEF EngineReturns
<1>2. PhaseOK'
  BY <1>1 DEF PhaseOK
<1>3. ClaimsOK'
  BY <1>1 DEF PhaseOK, ClaimsOK
<1>4. EmitterOK' /\ (call.sink # "none" => emitter'.sequence = emitter.sequence + 1)
  BY <1>1, EmitCounts
<1>5. AttemptsOK'
  BY <1>1, <1>4 DEF PhaseOK, AttemptsOK
<1> QED BY <1>2, <1>3, <1>4, <1>5

\* A trace goes to the chains only when it was accepted.
LEMMA SortStep ==
  ASSUME WholeRunInv, Sort
  PROVE  WholeRunInv'
<1> USE DEF WholeRunInv
<1>1. pc = "returned" /\ UNCHANGED <<call, observed, trace, judgement, emitter, got, manifest, outcome>>
  BY DEF Sort
<1>2. CASE Conclude("INCOMPLETE") \/ Conclude("RUN_FAILED")
  BY <1>1, <1>2, ConcludeStep
<1>3. CASE ~observed /\ Problems(trace) = {} /\ pc' = "judging" /\ UNCHANGED status
  <2>1. PhaseOK'
    BY <1>1, <1>3 DEF PhaseOK
  <2>2. ClaimsOK'
    BY <1>1, <1>3 DEF PhaseOK, ClaimsOK, Accepted, Problems, Contract
  <2>3. EmitterOK' /\ AttemptsOK'
    BY <1>1, <1>3 DEF PhaseOK, EmitterOK, AttemptsOK
  <2> QED BY <2>1, <2>2, <2>3
<1> QED BY <1>2, <1>3 DEF Sort

LEMMA JudgeStep ==
  ASSUME WholeRunInv, Judge
  PROVE  WholeRunInv'
<1> USE DEF WholeRunInv
<1>1. pc = "judging" /\ UNCHANGED <<call, observed, trace, emitter, got, manifest, outcome>>
  BY DEF Judge
<1>2. CASE Conclude("RUN_FAILED")
  BY <1>1, <1>2, ConcludeStep
<1>3. CASE ~Blocked(safety', validity') /\ pc' = "qualifying" /\ UNCHANGED status
  <2>1. PhaseOK'
    BY <1>1, <1>3 DEF PhaseOK
  <2>2. ClaimsOK'
    BY <1>1, <1>3 DEF PhaseOK, ClaimsOK, Accepted, Problems, Contract, Blocked
  <2>3. EmitterOK' /\ AttemptsOK'
    BY <1>1, <1>3 DEF PhaseOK, EmitterOK, AttemptsOK
  <2> QED BY <2>1, <2>2, <2>3
<1> QED BY <1>2, <1>3 DEF Judge

\* A run qualifies only with a report that passes, and a merged report that
\* passes does not block.
LEMMA QualifyStep ==
  ASSUME WholeRunInv, Qualify
  PROVE  WholeRunInv'
<1> USE DEF WholeRunInv
<1>1. /\ pc = "qualifying"
      /\ UNCHANGED <<call, observed, trace, safety, validity, emitter, got, manifest, outcome>>
  BY DEF Qualify
<1>2. CASE Conclude("RUN_FAILED")
  BY <1>1, <1>2, ConcludeStep
<1>3. CASE ~Conclude("RUN_FAILED")
  <2>1. PICK reports :
          /\ qualification' = Merged(reports) /\ pc' = "publishing"
          /\ status' = IF Merged(reports).passed THEN "QUALIFIED" ELSE "DISQUALIFIED"
    BY <1>3 DEF Qualify
  <2>2. status' = "QUALIFIED" => ~Blocking(qualification')
    BY <2>1, MergedPasses
  <2>3. PhaseOK'
    BY <1>1, <2>1 DEF PhaseOK
  <2>4. ClaimsOK'
    BY <1>1, <2>1, <2>2 DEF PhaseOK, ClaimsOK, Accepted, Problems, Contract
  <2>5. EmitterOK' /\ AttemptsOK'
    BY <1>1, <2>1 DEF PhaseOK, EmitterOK, AttemptsOK
  <2> QED BY <2>3, <2>4, <2>5
<1> QED BY <1>2, <1>3

LEMMA PublishStep ==
  ASSUME WholeRunInv, Publish
  PROVE  WholeRunInv'
<1> USE DEF WholeRunInv
<1>1. /\ pc = "publishing" /\ pc' = "published"
      /\ UNCHANGED <<call, status, observed, trace, judgement, emitter, got, outcome>>
  BY DEF Publish
<1>2. PICK facts : manifest'.evidence =
        DeriveEvidenceLevel(status, call.mode, facts, document.level, Route)
  BY DEF Publish
<1>3. Route.time_model = "whole_run"
  BY DEF Route
<1>4. /\ EvidenceRank(manifest'.evidence) <= EvidenceRank("limited")
      /\ manifest'.evidence # "diagnostic_only" => status \in {"RUN_OK", "QUALIFIED"}
  BY <1>2, <1>3, LevelOnThisRoute
<1>5. PhaseOK'
  BY <1>1 DEF PhaseOK
<1>6. ClaimsOK'
  BY <1>1, <1>4 DEF PhaseOK, ClaimsOK, Accepted, Problems, Contract, judgement
<1>7. EmitterOK' /\ AttemptsOK'
  BY <1>1 DEF PhaseOK, EmitterOK, AttemptsOK
<1> QED BY <1>5, <1>6, <1>7

LEMMA FinishStep ==
  ASSUME WholeRunInv, Finish
  PROVE  WholeRunInv'
<1> USE DEF WholeRunInv
<1>1. /\ pc = "published" /\ pc' = "done" /\ outcome' = "published" /\ Emit
      /\ UNCHANGED <<call, status, observed, trace, judgement, manifest>>
  BY DEF Finish
<1>2. PhaseOK'
  BY <1>1 DEF PhaseOK
<1>3. ClaimsOK'
  BY <1>1 DEF ClaimsOK, Accepted, Problems, Contract, judgement
<1>4. EmitterOK' /\ (call.sink # "none" => emitter'.sequence = emitter.sequence + 1)
  BY <1>1, EmitCounts
<1>5. AttemptsOK'
  BY <1>1, <1>4 DEF PhaseOK, AttemptsOK
<1> QED BY <1>2, <1>3, <1>4, <1>5

LEMMA AbortStep ==
  ASSUME WholeRunInv, Abort
  PROVE  WholeRunInv'
<1> USE DEF WholeRunInv
<1>1. /\ pc' = "done" /\ outcome' = "raised" /\ pc # "published" /\ pc # "done"
      /\ UNCHANGED <<call, status, observed, trace, judgement, emitter, got, manifest>>
  BY DEF Abort
<1>2. PhaseOK'
  BY <1>1 DEF PhaseOK
<1>3. ClaimsOK'
  BY <1>1 DEF PhaseOK, ClaimsOK, Accepted, Problems, Contract, judgement
<1>4. EmitterOK' /\ AttemptsOK'
  BY <1>1 DEF EmitterOK, AttemptsOK
<1> QED BY <1>2, <1>3, <1>4

LEMMA InvStep == WholeRunInv /\ [Next]_vars => WholeRunInv'
<1> SUFFICES ASSUME WholeRunInv, [Next]_vars PROVE WholeRunInv'
  OBVIOUS
<1>1. CASE CancelBeforeEngine
  BY <1>1, ConcludeStep DEF CancelBeforeEngine, WholeRunInv, PhaseOK
<1>2. CASE EngineFails
  BY <1>2, ConcludeStep DEF EngineFails, WholeRunInv, PhaseOK
<1>3. CASE UNCHANGED vars
  BY <1>3 DEF vars, WholeRunInv, PhaseOK, ClaimsOK, EmitterOK, AttemptsOK, Accepted, Problems, Contract
<1> QED BY <1>1, <1>2, <1>3, RefuseStep, OpenStep, CancelStep, BeginStep, EngineReturnsStep,
           SortStep, JudgeStep, QualifyStep, PublishStep, FinishStep, AbortStep DEF Next

LEMMA InvAlways == Spec => []WholeRunInv
BY InvInit, InvStep, PTL DEF Spec

-----------------------------------------------------------------------------
(* Theorems. *)

\* whole_run_route.py: however the client cancels, whatever the engine and the
\* plugins return, and whatever the sink does with its events, the level that a
\* package claims is earned and the counters of the events are what the client got.
THEOREM ReportsTrue == Spec => []ReportsAreTrue
<1>1. WholeRunInv => EvidenceIsEarned
  <2> SUFFICES ASSUME WholeRunInv, manifest # NoManifest
               PROVE  /\ EvidenceRank(manifest.evidence) <= EvidenceRank("limited")
                      /\ manifest.evidence # "diagnostic_only" =>
                           /\ trace # NoTrace /\ Problems(trace) = {}
                           /\ ~observed
                           /\ ~Blocking(safety) /\ ~Blocking(validity) /\ ~Blocking(qualification)
    BY DEF EvidenceIsEarned
  <2> QED BY NoTraceIsNotAccepted DEF WholeRunInv, ClaimsOK, Accepted
<1>2. WholeRunInv => EventsAddUp
  BY DEF WholeRunInv, EmitterOK, AttemptsOK, EventsAddUp
<1> QED BY <1>1, <1>2, InvAlways, PTL DEF ReportsAreTrue

-----------------------------------------------------------------------------
(* The reference engine. *)

\* The loop of _sample_times ends: some index is the first whose multiple is too
\* close to the end.
LEMMA MultiplesAreFound ==
  ASSUME NEW duration \in Nat \ {0}, NEW cadence \in Nat \ {0}
  PROVE  LET n == Multiples(duration, cadence)
         IN /\ n \in 0 .. duration
            /\ (n + 1) * cadence >= duration - Eps
            /\ \A k \in 1 .. n : k * cadence < duration - Eps
<1> DEFINE Over == {n \in Nat : (n + 1) * cadence >= duration - Eps}
<1>1. duration \in Over
  <2>1. (duration + 1) * cadence = duration * cadence + cadence
    OBVIOUS
  <2>2. duration * cadence >= duration
    <3>1. duration * cadence = duration * (cadence - 1) + duration
      OBVIOUS
    <3>2. duration * (cadence - 1) \in Nat
      OBVIOUS
    <3> QED BY <3>1, <3>2
  <2> QED BY <2>1, <2>2, EpsAssumption
<1>2. PICK n \in Over : \A k \in Over : ~(k < n)
  <2>1. IsWellFoundedOn(OpToRel(<, Nat), Nat)
    BY NatLessThanWellFounded
  <2>2. PICK n \in Over : \A k \in Over : <<k, n>> \notin OpToRel(<, Nat)
    BY <1>1, <2>1, WFMin
  <2>3. Over \subseteq Nat
    OBVIOUS
  <2> HIDE DEF Over
  <2>4. \A k \in Over : ~(k < n)
    BY <2>2, <2>3 DEF OpToRel
  <2> QED BY <2>4
<1>3. n \in Nat /\ (n + 1) * cadence >= duration - Eps
  OBVIOUS
<1>4. n <= duration
  BY <1>1, <1>2
<1>5. ASSUME NEW k \in 1 .. n PROVE k * cadence < duration - Eps
  <2>1. k - 1 \in Nat /\ k - 1 < n
    BY <1>3
  <2>2. k - 1 \notin Over
    BY <1>2, <2>1
  <2>3. ((k - 1) + 1) * cadence < duration - Eps
    <3> DEFINE m == ((k - 1) + 1) * cadence
    <3>1. m \in Int /\ ~(m >= duration - Eps)
      BY <2>1, <2>2
    <3> QED BY <3>1, EpsAssumption
  <2>4. (k - 1) + 1 = k
    OBVIOUS
  <2> QED BY <2>3, <2>4
<1> DEFINE Ends(m) == /\ (m + 1) * cadence >= duration - Eps
                      /\ \A k \in 1 .. m : k * cadence < duration - Eps
<1>6. n \in 0 .. duration /\ Ends(n)
  BY <1>3, <1>4, <1>5
<1>7. Multiples(duration, cadence) = CHOOSE m \in 0 .. duration : Ends(m)
  BY DEF Multiples
<1> HIDE DEF Ends
<1>8. Multiples(duration, cadence) \in 0 .. duration /\ Ends(Multiples(duration, cadence))
  BY <1>6, <1>7
<1> QED BY <1>8 DEF Ends

\* The axis: it starts at 0, ends at the end, rises, and leaves no gap.
LEMMA AxisRises ==
  ASSUME NEW duration \in Nat \ {0}, NEW cadence \in Nat \ {0}
  PROVE  LET times == SampleTimes(duration, cadence)
         IN /\ times \in Seq(Nat) /\ Len(times) >= 2
            /\ times[1] = 0 /\ times[Len(times)] = duration
            /\ \A i \in 2 .. Len(times) :
                 /\ times[i - 1] < times[i]
                 /\ times[i] - times[i - 1] <= cadence + Eps
<1> DEFINE n == Multiples(duration, cadence)
           times == SampleTimes(duration, cadence)
<1>1. /\ n \in 0 .. duration
      /\ (n + 1) * cadence >= duration - Eps
      /\ \A k \in 1 .. n : k * cadence < duration - Eps
  BY MultiplesAreFound
<1>2. times = [i \in 1 .. n + 2 |-> IF i = n + 2 THEN duration ELSE (i - 1) * cadence]
  BY DEF SampleTimes
<1> HIDE DEF n, times
<1>3. n \in Nat /\ n + 2 \in Nat
  BY <1>1
<1>4. Len(times) = n + 2 /\ times \in Seq(Nat)
  <2>1. \A i \in 1 .. n + 2 : (IF i = n + 2 THEN duration ELSE (i - 1) * cadence) \in Nat
    <3> SUFFICES ASSUME NEW i \in 1 .. n + 2 PROVE (i - 1) * cadence \in Nat
      OBVIOUS
    <3>1. i - 1 \in Nat
      BY <1>3
    <3> QED BY <3>1
  <2>2. times \in [1 .. n + 2 -> Nat]
    BY <1>2, <2>1
  <2> QED BY <1>3, <2>2
<1>5. times[1] = 0 /\ times[n + 2] = duration
  BY <1>2, <1>3
<1>6. ASSUME NEW i \in 2 .. n + 2
      PROVE  /\ times[i - 1] < times[i]
             /\ times[i] - times[i - 1] <= cadence + Eps
  <2> DEFINE before == (i - 2) * cadence
  <2>1. i - 1 \in 1 .. n + 2 /\ i - 1 # n + 2 /\ i - 2 \in Nat /\ i - 1 \in Nat
    BY <1>3
  <2>2. times[i - 1] = before
    BY <1>2, <2>1
  <2>3. before \in Nat /\ (i - 1) * cadence = before + cadence
    <3>1. i - 1 = (i - 2) + 1
      OBVIOUS
    <3> HIDE DEF before
    <3>2. ((i - 2) + 1) * cadence = (i - 2) * cadence + cadence
      BY <2>1
    <3>3. (i - 2) * cadence \in Nat
      BY <2>1
    <3> QED BY <3>1, <3>2, <3>3 DEF before
  <2>4. CASE i # n + 2
    <3>1. times[i] = (i - 1) * cadence
      BY <1>2, <2>4
    <3> HIDE DEF before
    <3> QED BY <2>2, <2>3, <2>4, <3>1, EpsAssumption
  <2>5. CASE i = n + 2
    <3>1. times[i] = duration /\ before = n * cadence
      BY <1>5, <2>5, <1>3
    <3>2. before < duration
      <4>1. CASE n = 0
        BY <1>3, <3>1, <4>1
      <4>2. CASE n # 0
        <5>1. n * cadence < duration - Eps
          BY <1>1, <1>3, <4>2
        <5> HIDE DEF before
        <5> QED BY <2>3, <3>1, <5>1, EpsAssumption
      <4> QED BY <4>1, <4>2
    <3>3. before + cadence >= duration - Eps
      <4>1. (n + 1) * cadence = n * cadence + cadence
        BY <1>3
      <4> HIDE DEF before
      <4> QED BY <1>1, <3>1, <4>1
    <3> HIDE DEF before
    <3> QED BY <2>2, <2>3, <3>1, <3>2, <3>3, EpsAssumption
  <2> QED BY <2>4, <2>5
<1> QED BY <1>3, <1>4, <1>5, <1>6 DEF times

LEMMA EngineTraceIsSound ==
  ASSUME NEW schedule, NEW duration \in Nat \ {0}, NEW cadence \in Nat \ {0},
         NEW tolerance \in Nat, Eps <= tolerance
  PROVE  TraceProblems(EngineTrace(schedule, duration, cadence),
                       [cadence |-> cadence, tolerance |-> tolerance], duration) = {}
<1> DEFINE times == SampleTimes(duration, cadence)
           contract == [cadence |-> cadence, tolerance |-> tolerance]
           t == EngineTrace(schedule, duration, cadence)
<1>1. /\ times \in Seq(Nat) /\ Len(times) >= 2
      /\ times[1] = 0 /\ times[Len(times)] = duration
      /\ \A i \in 2 .. Len(times) : /\ times[i - 1] < times[i]
                                    /\ times[i] - times[i - 1] <= cadence + Eps
  BY AxisRises
<1> HIDE DEF times
<1>2. Len(times) \in Nat /\ \A i \in 1 .. Len(times) : times[i] \in Nat
  BY <1>1, LenProperties, ElementOfSeq
<1>3. ASSUME NEW i \in 2 .. Len(times)
      PROVE  /\ ~(times[i] <= times[i - 1])
             /\ ~(times[i] - times[i - 1] > contract.cadence + contract.tolerance)
  <2>1. i \in 1 .. Len(times) /\ i - 1 \in 1 .. Len(times)
    BY <1>2
  <2>2. times[i] \in Nat /\ times[i - 1] \in Nat
    BY <1>2, <2>1
  <2>3. times[i - 1] < times[i] /\ times[i] - times[i - 1] <= cadence + Eps
    BY <1>1
  <2> QED BY <2>2, <2>3, EpsAssumption
<1>4. AxisProblems(times, contract, duration) = {}
  <2>1. /\ ~(times[1] < -contract.tolerance) /\ ~(times[1] > contract.tolerance)
        /\ ~(times[Len(times)] < duration - contract.tolerance)
        /\ ~(times[Len(times)] > duration + contract.tolerance)
    BY <1>1
  <2> HIDE DEF contract
  <2>2. /\ {j \in 2 .. Len(times) : times[j] <= times[j - 1]} = {}
        /\ {j \in 2 .. Len(times) :
              times[j] - times[j - 1] > contract.cadence + contract.tolerance} = {}
    BY <1>3
  <2> QED BY <2>1, <2>2 DEF AxisProblems
<1>5. t.typed /\ t.finite /\ t.times = times /\ t.lengths = {Len(times)}
  BY DEF EngineTrace, times
<1> HIDE DEF t, contract
<1>6. Len(times) # 0 /\ {Len(times)} # {} /\ {Len(times)} \ {Len(times)} = {}
  BY <1>1, <1>2
<1> QED BY <1>4, <1>5, <1>6 DEF TraceProblems, t, contract

-----------------------------------------------------------------------------
LEMMA TimesAreNumbers ==
  ASSUME NEW schedule \in Seq([time : Int])
  PROVE  \A k \in 1 .. Len(schedule) : schedule[k].time \in Int
<1> SUFFICES ASSUME NEW k \in 1 .. Len(schedule) PROVE schedule[k].time \in Int
  OBVIOUS
<1>1. schedule[k] \in [time : Int]
  BY ElementOfSeq
<1> QED BY <1>1

\* A schedule that never goes back from one entry to the next never goes back.
LEMMA ScheduleInOrder ==
  ASSUME NEW schedule \in Seq([time : Int]), LegalSchedule(schedule),
         NEW i \in 1 .. Len(schedule), NEW j \in 1 .. Len(schedule), i <= j
  PROVE  schedule[i].time <= schedule[j].time
<1> DEFINE Earlier == {k \in Nat : /\ k \in 1 .. Len(schedule) /\ i <= k
                                   /\ ~(schedule[i].time <= schedule[k].time)}
<1>1. Earlier = {}
  <2> SUFFICES ASSUME Earlier # {} PROVE FALSE
    OBVIOUS
  <2>1. PICK k \in Earlier : \A l \in Earlier : ~(l < k)
    <3>1. IsWellFoundedOn(OpToRel(<, Nat), Nat)
      BY NatLessThanWellFounded
    <3>2. Earlier \subseteq Nat
      OBVIOUS
    <3>3. PICK k \in Earlier : \A l \in Earlier : <<l, k>> \notin OpToRel(<, Nat)
      BY <3>1, <3>2, WFMin
    <3> HIDE DEF Earlier
    <3>4. \A l \in Earlier : ~(l < k)
      BY <3>2, <3>3 DEF OpToRel
    <3> QED BY <3>4
  <2>2. \A l \in 1 .. Len(schedule) : schedule[l].time \in Int
    BY TimesAreNumbers
  <2>3. k \in 1 .. Len(schedule) /\ i < k /\ ~(schedule[i].time <= schedule[k].time)
    BY <2>1, <2>2
  <2>4. k - 1 \in 1 .. Len(schedule) /\ i <= k - 1 /\ k > 1 /\ k - 1 < k /\ k - 1 \in Nat
    BY <2>3, LenProperties
  <2>5. schedule[i].time <= schedule[k - 1].time
    <3>1. k - 1 \notin Earlier
      BY <2>1, <2>4
    <3> QED BY <2>4, <3>1
  <2>6. schedule[k - 1].time <= schedule[k].time
    BY <2>3, <2>4 DEF LegalSchedule
  <2>7. /\ schedule[i].time \in Int /\ schedule[k].time \in Int
        /\ schedule[k - 1].time \in Int
    BY <2>2, <2>3, <2>4
  <2> DEFINE a == schedule[i].time
             b == schedule[k - 1].time
             c == schedule[k].time
  <2>8. a \in Int /\ b \in Int /\ c \in Int /\ a <= b /\ b <= c /\ ~(a <= c)
    BY <2>3, <2>5, <2>6, <2>7
  <2> HIDE DEF a, b, c
  <2> QED BY <2>8
<1> QED BY <1>1

\* In such a schedule an entry is reached exactly if it is not after now + Eps.
LEMMA EntryReached ==
  ASSUME NEW schedule \in Seq([time : Int]), LegalSchedule(schedule),
         NEW i \in 1 .. Len(schedule), NEW t \in Int
  PROVE  EntryAt(schedule, t) >= i <=> schedule[i].time <= t + Eps
<1> DEFINE Reached == {k \in 1 .. Len(schedule) : schedule[k].time <= t + Eps}
<1>1. /\ Len(schedule) \in Nat /\ i \in Nat
      /\ \A k \in 1 .. Len(schedule) : schedule[k].time \in Int
  BY LenProperties, TimesAreNumbers
<1>2. IsFiniteSet(1 .. Len(schedule)) /\ IsFiniteSet(Reached)
  <2>1. IsFiniteSet(1 .. Len(schedule))
    BY <1>1, FS_Interval
  <2>2. Reached \subseteq 1 .. Len(schedule)
    OBVIOUS
  <2> QED BY <2>1, <2>2, FS_Subset
<1>3. CASE schedule[i].time <= t + Eps
  <2>1. 1 .. i \subseteq Reached
    <3> SUFFICES ASSUME NEW k \in 1 .. i PROVE k \in Reached
      OBVIOUS
    <3>1. k \in 1 .. Len(schedule) /\ k <= i
      BY <1>1
    <3>2. schedule[k].time <= schedule[i].time
      BY <3>1, ScheduleInOrder
    <3> QED BY <1>1, <1>3, <3>1, <3>2, EpsAssumption
  <2>2. Cardinality(1 .. i) <= Cardinality(Reached)
    BY <1>2, <2>1, FS_Subset
  <2>3. Cardinality(1 .. i) = i
    BY <1>1, FS_Interval
  <2>4. Cardinality(Reached) \in Nat
    BY <1>2, FS_CardinalityType
  <2> QED BY <1>1, <1>3, <2>2, <2>3, <2>4 DEF EntryAt
<1>4. CASE ~(schedule[i].time <= t + Eps)
  <2>1. Reached \subseteq 1 .. i - 1
    <3> SUFFICES ASSUME NEW k \in Reached PROVE k \in 1 .. i - 1
      OBVIOUS
    <3>1. k \in 1 .. Len(schedule) /\ schedule[k].time <= t + Eps
      OBVIOUS
    <3>2. ~(i <= k)
      <4> SUFFICES ASSUME i <= k PROVE FALSE
        OBVIOUS
      <4>1. schedule[i].time <= schedule[k].time
        BY <3>1, ScheduleInOrder
      <4> QED BY <1>1, <1>4, <3>1, <4>1, EpsAssumption
    <3> QED BY <1>1, <3>1, <3>2
  <2>2. IsFiniteSet(1 .. i - 1) /\ Cardinality(1 .. i - 1) = i - 1
    <3>1. i - 1 \in Int /\ (1 > i - 1 => i - 1 = 0) /\ i - 1 - 1 + 1 = i - 1
      BY <1>1
    <3> QED BY <3>1, FS_Interval
  <2>3. Cardinality(Reached) <= i - 1 /\ Cardinality(Reached) \in Nat
    BY <1>2, <2>1, <2>2, FS_Subset, FS_CardinalityType
  <2> QED BY <1>1, <1>4, <2>3 DEF EntryAt
<1> QED BY <1>3, <1>4

\* Every entry inside the run has an instant within Eps of it, and no instant
\* reaches an entry sooner.
LEMMA EntriesAreFollowed ==
  ASSUME NEW schedule \in Seq([time : Int]), LegalSchedule(schedule),
         NEW duration \in Nat \ {0}, NEW cadence \in Nat \ {0},
         NEW i \in 1 .. Len(schedule)
  PROVE  LET due == schedule[i].time
             instants == ControlTimes(schedule, duration, cadence)
         IN /\ 0 < due /\ due < duration =>
                 \E t \in instants : EntryAt(schedule, t) >= i /\ t - due <= Eps
            /\ \A t \in instants : EntryAt(schedule, t) >= i => due - t <= Eps
<1> DEFINE due == schedule[i].time
           samples == Samples(duration, cadence)
           off == OffGrid(schedule, duration, cadence)
           instants == ControlTimes(schedule, duration, cadence)
<1>1. \A k \in 1 .. Len(schedule) : schedule[k].time \in Int
  BY TimesAreNumbers
<1>2. samples \subseteq Int
  <2>1. SampleTimes(duration, cadence) \in Seq(Nat)
    BY AxisRises
  <2>2. \A k \in DOMAIN SampleTimes(duration, cadence) : SampleTimes(duration, cadence)[k] \in Nat
    BY <2>1
  <2> QED BY <2>2 DEF Samples, Range
<1>3. instants = samples \cup {schedule[k].time : k \in off}
  BY DEF ControlTimes
<1>4. off \subseteq 1 .. Len(schedule)
  BY DEF OffGrid
<1>5. instants \subseteq Int
  BY <1>1, <1>2, <1>3, <1>4
<1>6. ASSUME 0 < due, due < duration
      PROVE  \E t \in instants : EntryAt(schedule, t) >= i /\ t - due <= Eps
  <2>1. CASE i \in off
    <3>1. due \in instants /\ due \in Int
      BY <1>1, <1>3, <2>1
    <3>2. due <= due + Eps /\ due - due <= Eps
      BY <3>1, EpsAssumption
    <3>3. EntryAt(schedule, due) >= i
      BY <3>1, <3>2, EntryReached
    <3> QED BY <3>1, <3>2, <3>3
  <2>2. CASE i \notin off
    <3>1. PICK s \in samples : ~(due > s + Eps \/ due < s - Eps)
      BY <1>6, <2>2 DEF OffGrid
    <3>2. s \in Int /\ s \in instants /\ due \in Int
      BY <1>1, <1>2, <1>3
    <3>3. due <= s + Eps /\ s - due <= Eps
      BY <3>1, <3>2, EpsAssumption
    <3>4. EntryAt(schedule, s) >= i
      BY <3>2, <3>3, EntryReached
    <3> QED BY <3>2, <3>3, <3>4
  <2> QED BY <2>1, <2>2
<1>7. ASSUME NEW t \in instants, EntryAt(schedule, t) >= i
      PROVE  due - t <= Eps
  <2>1. t \in Int /\ due \in Int
    BY <1>1, <1>5
  <2>2. due <= t + Eps
    BY <1>7, <2>1, EntryReached
  <2> QED BY <2>1, <2>2, EpsAssumption
<1> QED BY <1>6, <1>7

-----------------------------------------------------------------------------
\* What the reference engine returned is its trace of a legal schedule.
ReferenceOK ==
  /\ call \in Calls
  /\ call.engine = "reference" /\ trace # NoTrace =>
       /\ LegalSchedule(call.schedule)
       /\ trace = EngineTrace(call.schedule, call.duration, call.cadence)

LEMMA ReferenceInit == Init => ReferenceOK
BY DEF Init, ReferenceOK

LEMMA ReferenceStep == ReferenceOK /\ [Next]_vars => ReferenceOK'
<1> SUFFICES ASSUME ReferenceOK, [Next]_vars PROVE ReferenceOK'
  OBVIOUS
<1>1. CASE EngineReturns
  BY <1>1 DEF EngineReturns, EngineRaises, ReferenceOK
<1>2. CASE call' = call /\ trace' = trace
  BY <1>2 DEF ReferenceOK
<1>3. [Next]_vars => EngineReturns \/ (call' = call /\ trace' = trace)
  BY DEF vars, Next, Refuse, Open, Cancel, CancelBeforeEngine, Begin, EngineFails, Sort, Judge,
         Qualify, Publish, Finish, Abort
<1> QED BY <1>1, <1>2, <1>3

\* The trace of the reference engine satisfies the contract it declares, and it
\* follows every entry of its schedule in time, never sooner
\* (whole_run_engine.py:963-1015, time_model.py:160-230).
THEOREM ReferenceKept == Spec => []ReferenceKeepsItsContract
<1>1. ReferenceOK => ReferenceKeepsItsContract
  <2> SUFFICES ASSUME ReferenceOK, call.engine = "reference", trace # NoTrace
               PROVE  ReferenceKeepsItsContract
    BY DEF ReferenceKeepsItsContract
  <2>1. /\ call.schedule \in Seq([time : Int])
        /\ call.duration \in Nat \ {0} /\ call.cadence \in Nat \ {0}
        /\ call.tolerance \in Nat /\ Eps <= call.tolerance
    BY ReferenceCallsAssumption DEF ReferenceOK
  <2>2. LegalSchedule(call.schedule) /\ trace = EngineTrace(call.schedule, call.duration, call.cadence)
    BY DEF ReferenceOK
  <2>3. Problems(trace) = {}
    BY <2>1, <2>2, EngineTraceIsSound DEF Problems, Contract
  <2> QED BY <2>1, <2>2, <2>3, EntriesAreFollowed DEF ReferenceKeepsItsContract
<1> QED BY <1>1, ReferenceInit, ReferenceStep, PTL DEF Spec

-----------------------------------------------------------------------------
(* Provenance: what every reachable checkout and run looks like. *)

Before == {"idle", "refused", "lost"}
Ongoing == {"imported", "analysed", "headed", "sourced", "running"}
Gated == {"running", "published"}

CheckoutOK ==
  /\ tree \in Trees
  /\ commits \in Seq([source : Versions, pin : Pins])
  /\ head \in 1 .. Len(commits)
  /\ runs = [r \in Runs |-> runs[r]]

Fields == {"pc", "job", "loaded", "worktree", "commit", "gitStatus", "package", "codeSteady",
           "filesSteady"}

\* A run is a record, and one that has begun has a job and a loaded version.
RunOK(r) ==
  LET run == runs[r]
  IN /\ run = [f \in Fields |-> run[f]]
     /\ run.pc \in Before \cup Ongoing \cup {"published"}
     /\ run.codeSteady \in BOOLEAN /\ run.filesSteady \in BOOLEAN
     /\ run.pc \notin Before => run.job \in Jobs /\ run.loaded \in Versions

\* As long as nobody changed the sources, the disk, the commit checked out and the
\* commit the run names hold the version it imported.
CodeOK(r) ==
  LET run == runs[r]
      clean == run.codeSteady /\ run.worktree = "clean"
  IN /\ run.pc \in Ongoing /\ run.codeSteady => tree.source = run.loaded
     /\ run.pc \in Ongoing \ {"imported"} /\ clean => commits[head].source = run.loaded
     /\ run.pc \in Before \cup {"imported"} => run.commit = None
     /\ run.commit # None =>
          /\ run.commit \in 1 .. Len(commits)
          /\ clean => commits[run.commit].source = run.loaded

\* What the formal gates saw, and still holds of the manifest of now as long as
\* nobody changed sources or pin.
GateOK(r) ==
  LET run == runs[r]
  IN run.pc \notin Before /\ run.job.mode = "formal_comparison" =>
       /\ run.pc # "imported" => run.worktree = "clean"
       /\ run.pc \in Gated =>
            /\ run.commit # None /\ run.gitStatus = "clean"
            /\ EnvironmentStatus(run.job) = "known"
       /\ run.pc = "running" /\ run.filesSteady =>
            FormalEvidence(run, ComponentManifest(run.job.adapter, tree))

\* The package was made of the files of some moment.
MadeOf(run, t, result) ==
  /\ run.package = Package(run, ComponentManifest(run.job.adapter, t), result)
  /\ run.codeSteady => t.source = run.loaded
  /\ run.job.mode = "formal_comparison" /\ run.filesSteady =>
       FormalEvidence(run, ComponentManifest(run.job.adapter, t))
PackageOK(r) ==
  runs[r].pc = "published" => \E t \in Trees, result \in Outcomes : MadeOf(runs[r], t, result)

RunInv(r) == RunOK(r) /\ CodeOK(r) /\ GateOK(r) /\ PackageOK(r)
ProvenanceInv == CheckoutOK /\ \A r \in Runs : RunInv(r)

-----------------------------------------------------------------------------
LEMMA ProvenanceInitInv == ProvenanceInit => ProvenanceInv
<1> SUFFICES ASSUME ProvenanceInit PROVE ProvenanceInv
  OBVIOUS
<1>1. commits \in Seq([source : Versions, pin : Pins]) /\ commits # << >> /\ head = Len(commits)
  BY HistoriesAreTyped DEF ProvenanceInit
<1>2. head \in 1 .. Len(commits)
  BY <1>1, EmptySeq, LenProperties
<1>3. commits[head] \in [source : Versions, pin : Pins]
  BY <1>1, <1>2, ElementOfSeq
<1>4. CheckoutOK
  BY <1>1, <1>2, <1>3 DEF ProvenanceInit, CheckoutOK, Trees, Pins
<1>5. ASSUME NEW r \in Runs PROVE RunInv(r)
  BY DEF ProvenanceInit, RunInv, RunOK, CodeOK, GateOK, PackageOK, NewRun, Before, Ongoing, Gated, Fields
<1> QED BY <1>4, <1>5 DEF ProvenanceInv

-----------------------------------------------------------------------------
(* A step of a run. *)

\* It leaves the checkout and the other runs alone.
LEMMA OwnStep ==
  ASSUME ProvenanceInv, NEW r \in Runs, NEW run, Becomes(r, run), Still,
         RunInv(r)'
  PROVE  ProvenanceInv'
<1>1. /\ runs' = [s \in Runs |-> IF s = r THEN run ELSE runs[s]]
      /\ tree' = tree /\ commits' = commits /\ head' = head
  BY DEF ProvenanceInv, CheckoutOK, Becomes, Still
<1>2. CheckoutOK'
  BY <1>1 DEF ProvenanceInv, CheckoutOK
<1>3. ASSUME NEW s \in Runs, s # r PROVE RunInv(s)'
  <2>1. runs'[s] = runs[s] /\ RunInv(s)
    BY <1>1, <1>3 DEF ProvenanceInv
  <2>2. RunOK(s)'
    BY <2>1 DEF RunInv, RunOK
  <2>3. CodeOK(s)'
    BY <1>1, <2>1 DEF RunInv, CodeOK
  <2>4. GateOK(s)'
    BY <1>1, <2>1 DEF RunInv, GateOK
  <2>5. PackageOK(s)'
    BY <2>1 DEF RunInv, PackageOK
  <2> QED BY <2>2, <2>3, <2>4, <2>5 DEF RunInv
<1> QED BY <1>2, <1>3 DEF ProvenanceInv

\* A run that is abandoned is a new one but for its end.
LEMMA AbandonStep ==
  ASSUME ProvenanceInv, NEW r \in Runs, NEW end \in Before, Abandon(r, end), Still
  PROVE  ProvenanceInv'
<1>1. runs'[r] = [NewRun EXCEPT !.pc = end]
  BY DEF ProvenanceInv, CheckoutOK, Abandon, Becomes
<1>2. runs'[r] = [pc |-> end, job |-> None, loaded |-> None, worktree |-> "unknown",
                  commit |-> None, gitStatus |-> "unknown", package |-> None,
                  codeSteady |-> TRUE, filesSteady |-> TRUE]
  BY <1>1 DEF NewRun
<1>3. RunInv(r)'
  BY <1>2 DEF RunInv, RunOK, CodeOK, GateOK, PackageOK, Before, Ongoing, Gated, Fields
<1> QED BY <1>3, OwnStep DEF Abandon

LEMMA ImportStep ==
  ASSUME ProvenanceInv, NEW r \in Runs, Import(r)
  PROVE  ProvenanceInv'
<1>1. PICK job \in Jobs :
        Becomes(r, [runs[r] EXCEPT !.pc = "imported", !.job = job, !.loaded = tree.source])
  BY DEF Import
<1>2. runs[r].pc = "idle" /\ Still /\ tree' = tree /\ RunInv(r) /\ tree.source \in Versions
  BY DEF Import, Still, ProvenanceInv, CheckoutOK, Trees
<1> DEFINE run == [runs[r] EXCEPT !.pc = "imported", !.job = job, !.loaded = tree.source]
<1>3. runs'[r] = run
  BY <1>1 DEF ProvenanceInv, CheckoutOK, Becomes
<1>4. /\ run = [f \in Fields |-> run[f]]
      /\ run.pc = "imported" /\ run.job = job /\ run.loaded = tree.source
      /\ run.commit = runs[r].commit /\ run.worktree = runs[r].worktree
      /\ run.codeSteady = runs[r].codeSteady /\ run.filesSteady = runs[r].filesSteady
  BY <1>2 DEF RunInv, RunOK, Fields
<1>5. runs[r].commit = None
  BY <1>2 DEF RunInv, CodeOK, Before
<1>6. RunInv(r)'
  BY <1>2, <1>3, <1>4, <1>5 DEF RunInv, RunOK, CodeOK, GateOK, PackageOK, Before, Ongoing, Gated
<1> QED BY <1>1, <1>2, <1>6, OwnStep

\* git: a clean tree is the commit that is checked out.
LEMMA CleanTree ==
  ASSUME GitStatus = "clean"
  PROVE  commits[head].source = tree.source /\ commits[head].pin = tree.pin
BY DEF GitStatus

LEMMA AnalyseStep ==
  ASSUME ProvenanceInv, NEW r \in Runs, Analyse(r)
  PROVE  ProvenanceInv'
<1>1. /\ runs[r].pc = "imported" /\ RunInv(r) /\ Still
      /\ tree' = tree /\ commits' = commits /\ head' = head
  BY DEF Analyse, Still, ProvenanceInv
<1>2. PICK seen \in {GitStatus, "unknown"} :
        \/ Abandon(r, "refused")
        \/ /\ runs[r].job.mode = "formal_comparison" => seen = "clean"
           /\ Becomes(r, [runs[r] EXCEPT !.pc = "analysed", !.worktree = seen])
  BY DEF Analyse
<1>3. CASE Abandon(r, "refused")
  BY <1>1, <1>3, AbandonStep DEF Before
<1>4. CASE /\ runs[r].job.mode = "formal_comparison" => seen = "clean"
           /\ Becomes(r, [runs[r] EXCEPT !.pc = "analysed", !.worktree = seen])
  <2> DEFINE run == [runs[r] EXCEPT !.pc = "analysed", !.worktree = seen]
  <2>1. runs'[r] = run
    BY <1>4 DEF ProvenanceInv, CheckoutOK, Becomes
  <2>2. /\ run = [f \in Fields |-> run[f]]
        /\ run.pc = "analysed" /\ run.worktree = seen
        /\ run.job = runs[r].job /\ run.loaded = runs[r].loaded /\ run.commit = runs[r].commit
        /\ run.codeSteady = runs[r].codeSteady /\ run.filesSteady = runs[r].filesSteady
    BY <1>1 DEF RunInv, RunOK, Fields
  <2>3. /\ runs[r].commit = None /\ runs[r].job \in Jobs /\ runs[r].loaded \in Versions
        /\ runs[r].codeSteady => tree.source = runs[r].loaded
    BY <1>1 DEF RunInv, RunOK, CodeOK, Before, Ongoing
  <2>4. seen = "clean" => commits[head].source = tree.source
    BY <1>2, CleanTree
  <2> HIDE DEF run
  <2>5. RunOK(r)'
    BY <1>1, <2>1, <2>2, <2>3 DEF RunInv, RunOK, Before, Ongoing
  <2>6. CodeOK(r)'
    BY <1>1, <2>1, <2>2, <2>3, <2>4 DEF CodeOK, Before, Ongoing
  <2>7. GateOK(r)'
    BY <1>4, <2>1, <2>2 DEF GateOK, Gated
  <2>8. PackageOK(r)'
    BY <2>1, <2>2 DEF PackageOK
  <2> QED BY <1>1, <1>4, <2>5, <2>6, <2>7, <2>8, OwnStep DEF RunInv
<1> QED BY <1>2, <1>3, <1>4

\* Reading the head, successfully or not, and then the status.
LEMMA ReadHeadStep ==
  ASSUME ProvenanceInv, NEW r \in Runs, ReadHead(r)
  PROVE  ProvenanceInv'
<1>1. /\ runs[r].pc = "analysed" /\ RunInv(r) /\ Still
      /\ tree' = tree /\ commits' = commits /\ head' = head /\ head \in 1 .. Len(commits)
  BY DEF ReadHead, Still, ProvenanceInv, CheckoutOK
<1>2. PICK run :
        /\ Becomes(r, run)
        /\ \/ run = [runs[r] EXCEPT !.pc = "headed", !.commit = head]
           \/ run = [runs[r] EXCEPT !.pc = "sourced"]
  BY DEF ReadHead
<1>3. runs'[r] = run
  BY <1>2 DEF ProvenanceInv, CheckoutOK, Becomes
<1>4. /\ run = [f \in Fields |-> run[f]]
      /\ run.pc \in {"headed", "sourced"} /\ run.commit \in {head, runs[r].commit}
      /\ run.job = runs[r].job /\ run.loaded = runs[r].loaded
      /\ run.worktree = runs[r].worktree
      /\ run.codeSteady = runs[r].codeSteady /\ run.filesSteady = runs[r].filesSteady
  BY <1>1, <1>2 DEF RunInv, RunOK, Fields
<1>5. RunOK(r)'
  BY <1>1, <1>3, <1>4 DEF RunInv, RunOK, Before, Ongoing
<1>6. CodeOK(r)'
  BY <1>1, <1>3, <1>4 DEF RunInv, CodeOK, Before, Ongoing
<1>7. GateOK(r)'
  BY <1>1, <1>3, <1>4 DEF RunInv, GateOK, Before, Gated
<1>8. PackageOK(r)'
  BY <1>3, <1>4 DEF PackageOK
<1> QED BY <1>1, <1>2, <1>5, <1>6, <1>7, <1>8, OwnStep DEF RunInv

LEMMA ReadStatusStep ==
  ASSUME ProvenanceInv, NEW r \in Runs, ReadStatus(r)
  PROVE  ProvenanceInv'
<1>1. /\ runs[r].pc = "headed" /\ RunInv(r) /\ Still
      /\ tree' = tree /\ commits' = commits /\ head' = head
  BY DEF ReadStatus, Still, ProvenanceInv
<1>2. PICK run :
        /\ Becomes(r, run)
        /\ \/ run = [runs[r] EXCEPT !.pc = "sourced", !.gitStatus = GitStatus]
           \/ run = [runs[r] EXCEPT !.pc = "sourced", !.commit = None]
  BY DEF ReadStatus
<1>3. runs'[r] = run
  BY <1>2 DEF ProvenanceInv, CheckoutOK, Becomes
<1>4. /\ run = [f \in Fields |-> run[f]]
      /\ run.pc = "sourced" /\ run.commit \in {None, runs[r].commit}
      /\ run.job = runs[r].job /\ run.loaded = runs[r].loaded
      /\ run.worktree = runs[r].worktree
      /\ run.codeSteady = runs[r].codeSteady /\ run.filesSteady = runs[r].filesSteady
  BY <1>1, <1>2 DEF RunInv, RunOK, Fields
<1>5. RunOK(r)'
  BY <1>1, <1>3, <1>4 DEF RunInv, RunOK, Before, Ongoing
<1>6. CodeOK(r)'
  BY <1>1, <1>3, <1>4 DEF RunInv, CodeOK, Before, Ongoing
<1>7. GateOK(r)'
  BY <1>1, <1>3, <1>4 DEF RunInv, GateOK, Before, Gated
<1>8. PackageOK(r)'
  BY <1>3, <1>4 DEF PackageOK
<1> QED BY <1>1, <1>2, <1>5, <1>6, <1>7, <1>8, OwnStep DEF RunInv

\* The gate looks at the run as it is recorded, not at where it is.
LEMMA SameEvidence ==
  ASSUME NEW old, NEW run, NEW verdicts,
         run.commit = old.commit, run.worktree = old.worktree, run.gitStatus = old.gitStatus,
         run.job = old.job
  PROVE  FormalEvidence(run, verdicts) = FormalEvidence(old, verdicts)
BY DEF FormalEvidence

LEMMA PreflightStep ==
  ASSUME ProvenanceInv, NEW r \in Runs, Preflight(r)
  PROVE  ProvenanceInv'
<1>1. /\ runs[r].pc = "sourced" /\ RunInv(r) /\ Still
      /\ tree' = tree /\ commits' = commits /\ head' = head
  BY DEF Preflight, Still, ProvenanceInv
<1> DEFINE run == [runs[r] EXCEPT !.pc = "running", !.filesSteady = TRUE]
           verdicts == ComponentManifest(runs[r].job.adapter, tree)
           passes == runs[r].job.mode = "formal_comparison" => FormalEvidence(runs[r], verdicts)
<1>2. Abandon(r, "refused") \/ (passes /\ Becomes(r, run))
  BY DEF Preflight
<1>3. CASE Abandon(r, "refused")
  BY <1>1, <1>3, AbandonStep DEF Before
<1>4. CASE passes /\ Becomes(r, run)
  <2>1. runs'[r] = run
    BY <1>4 DEF ProvenanceInv, CheckoutOK, Becomes
  <2>2. /\ run = [f \in Fields |-> run[f]]
        /\ run.pc = "running" /\ run.filesSteady = TRUE
        /\ run.job = runs[r].job /\ run.loaded = runs[r].loaded /\ run.commit = runs[r].commit
        /\ run.worktree = runs[r].worktree /\ run.gitStatus = runs[r].gitStatus
        /\ run.codeSteady = runs[r].codeSteady
    BY <1>1 DEF RunInv, RunOK, Fields
  <2> HIDE DEF run
  <2>3. RunOK(r)'
    BY <1>1, <2>1, <2>2 DEF RunInv, RunOK, Before, Ongoing
  <2>4. CodeOK(r)'
    BY <1>1, <2>1, <2>2 DEF RunInv, CodeOK, Before, Ongoing
  <2>5. run.job.mode = "formal_comparison" => FormalEvidence(run, verdicts)
    BY <1>4, <2>2, SameEvidence
  <2>6. GateOK(r)'
    BY <1>1, <2>1, <2>2, <2>5 DEF GateOK, Gated, FormalEvidence
  <2>7. PackageOK(r)'
    BY <2>1, <2>2 DEF PackageOK
  <2> QED BY <1>1, <1>4, <2>3, <2>4, <2>6, <2>7, OwnStep DEF RunInv
<1> QED BY <1>2, <1>3, <1>4

\* Nor does the package tell where the run is.
LEMMA SamePackage ==
  ASSUME NEW old, NEW run, NEW verdicts, NEW result,
         run.commit = old.commit, run.worktree = old.worktree, run.gitStatus = old.gitStatus,
         run.job = old.job
  PROVE  Package(run, verdicts, result) = Package(old, verdicts, result)
BY DEF Package, EvidenceLevel

LEMMA PackageStep ==
  ASSUME ProvenanceInv, NEW r \in Runs, PublishPackage(r)
  PROVE  ProvenanceInv'
<1>1. /\ runs[r].pc = "running" /\ RunInv(r) /\ Still /\ tree \in Trees
      /\ tree' = tree /\ commits' = commits /\ head' = head
  BY DEF PublishPackage, Still, ProvenanceInv, CheckoutOK
<1> DEFINE verdicts == ComponentManifest(runs[r].job.adapter, tree)
           made(result) == Package(runs[r], verdicts, result)
<1>2. PICK result \in Outcomes :
        \/ Abandon(r, "lost")
        \/ Becomes(r, [runs[r] EXCEPT !.pc = "published", !.package = made(result)])
  BY DEF PublishPackage
<1>3. CASE Abandon(r, "lost")
  BY <1>1, <1>3, AbandonStep DEF Before
<1>4. CASE Becomes(r, [runs[r] EXCEPT !.pc = "published", !.package = made(result)])
  <2> DEFINE package == made(result)
             run == [runs[r] EXCEPT !.pc = "published", !.package = package]
  <2> HIDE DEF package
  <2>1. runs'[r] = run
    BY <1>4 DEF ProvenanceInv, CheckoutOK, Becomes, package
  <2>2. /\ run = [f \in Fields |-> run[f]]
        /\ run.pc = "published" /\ run.package = package
        /\ run.job = runs[r].job /\ run.loaded = runs[r].loaded /\ run.commit = runs[r].commit
        /\ run.worktree = runs[r].worktree /\ run.gitStatus = runs[r].gitStatus
        /\ run.codeSteady = runs[r].codeSteady /\ run.filesSteady = runs[r].filesSteady
    BY <1>1 DEF RunInv, RunOK, Fields
  <2> HIDE DEF run
  <2>3. RunOK(r)'
    BY <1>1, <2>1, <2>2 DEF RunInv, RunOK, Before, Ongoing
  <2>4. CodeOK(r)'
    BY <1>1, <2>1, <2>2 DEF RunInv, CodeOK, Before, Ongoing
  <2>5. GateOK(r)'
    BY <1>1, <2>1, <2>2 DEF RunInv, GateOK, Before, Gated
  <2>6. package = Package(run, verdicts, result)
    BY <2>2, SamePackage DEF package
  <2>7. run.job.mode = "formal_comparison" /\ run.filesSteady => FormalEvidence(run, verdicts)
    BY <1>1, <2>2, SameEvidence DEF RunInv, GateOK, Before, Gated
  <2>8. run.codeSteady => tree.source = run.loaded
    BY <1>1, <2>2 DEF RunInv, CodeOK, Ongoing
  <2>9. MadeOf(run, tree, result)
    BY <2>2, <2>6, <2>7, <2>8 DEF MadeOf
  <2>10. PackageOK(r)'
    BY <1>1, <2>1, <2>9 DEF PackageOK
  <2> QED BY <1>1, <1>4, <2>3, <2>4, <2>5, <2>10, OwnStep DEF RunInv, package
<1> QED BY <1>2, <1>3, <1>4

-----------------------------------------------------------------------------
(* A step of the person. *)

\* A manifest tells files apart by sources and pin only.
LEMMA SameManifest ==
  ASSUME NEW a, NEW t, NEW u, u.source = t.source, u.pin = t.pin
  PROVE  ComponentManifest(a, u) = ComponentManifest(a, t)
BY DEF ComponentManifest, VerifyAdapterIdentity, RecordedDigest, RecordedReview, ReviewStatus

\* No commit is lost, and where sources stay what they are, so does their commit.
LEMMA PutStep ==
  ASSUME ProvenanceInv, NEW t \in Trees, Put(t), CheckoutOK',
         \A c \in 1 .. Len(commits) : c \in 1 .. Len(commits') /\ commits'[c] = commits[c],
         commits'[head'].source \in {t.source, commits[head].source}
  PROVE  ProvenanceInv'
<1>1. ASSUME NEW r \in Runs PROVE RunInv(r)'
  <2>1. /\ tree' = t /\ RunInv(r) /\ head \in 1 .. Len(commits)
        /\ runs'[r] = IF InProgress(r)
                      THEN [runs[r] EXCEPT
                             !.codeSteady = @ /\ t.source = tree.source,
                             !.filesSteady = @ /\ t.source = tree.source /\ t.pin = tree.pin]
                      ELSE runs[r]
    BY DEF Put, ProvenanceInv, CheckoutOK
  <2>2. CASE ~InProgress(r)
    <3>1. runs'[r] = runs[r] /\ runs[r].pc \notin Ongoing
      BY <2>1, <2>2 DEF InProgress, Ongoing, RunInv, RunOK, Before
    <3>2. RunOK(r)' /\ PackageOK(r)'
      BY <2>1, <3>1 DEF RunInv, RunOK, PackageOK
    <3>3. CodeOK(r)'
      BY <2>1, <3>1 DEF RunInv, CodeOK, Ongoing
    <3>4. GateOK(r)'
      BY <2>1, <3>1 DEF RunInv, GateOK, Ongoing
    <3> QED BY <3>2, <3>3, <3>4 DEF RunInv
  <2>3. CASE InProgress(r)
    <3> DEFINE code == runs[r].codeSteady /\ t.source = tree.source
               files == runs[r].filesSteady /\ t.source = tree.source /\ t.pin = tree.pin
               run == [runs[r] EXCEPT !.codeSteady = code, !.filesSteady = files]
    <3> HIDE DEF code, files
    <3>1. runs'[r] = run
      BY <2>1, <2>3 DEF code, files
    <3>2. runs[r].pc \in Ongoing
      BY <2>1, <2>3 DEF InProgress, Ongoing, RunInv, RunOK, Before
    <3>3. /\ run = [f \in Fields |-> run[f]]
          /\ run.pc = runs[r].pc /\ run.codeSteady = code /\ run.filesSteady = files
          /\ run.job = runs[r].job /\ run.loaded = runs[r].loaded /\ run.commit = runs[r].commit
          /\ run.worktree = runs[r].worktree /\ run.gitStatus = runs[r].gitStatus
      BY <2>1 DEF RunInv, RunOK, Fields
    <3>4. /\ code \in BOOLEAN /\ files \in BOOLEAN
          /\ code => runs[r].codeSteady = TRUE /\ t.source = tree.source
          /\ files => runs[r].filesSteady = TRUE /\ t.source = tree.source /\ t.pin = tree.pin
      BY <2>1 DEF code, files, RunInv, RunOK
    <3> HIDE DEF run
    <3>5. RunOK(r)'
      BY <2>1, <3>1, <3>3, <3>4 DEF RunInv, RunOK
    <3>6. CodeOK(r)'
      BY <2>1, <3>1, <3>2, <3>3, <3>4 DEF RunInv, CodeOK, Before, Ongoing
    <3>7. files => ComponentManifest(run.job.adapter, t) = ComponentManifest(run.job.adapter, tree)
      BY <3>4, SameManifest
    <3>8. \A verdicts : FormalEvidence(run, verdicts) = FormalEvidence(runs[r], verdicts)
      BY <3>3, SameEvidence
    <3>9. GateOK(r)'
      <4> SUFFICES ASSUME run.job.mode = "formal_comparison"
                   PROVE  /\ run.pc # "imported" => run.worktree = "clean"
                          /\ run.pc \in Gated =>
                               /\ run.commit # None /\ run.gitStatus = "clean"
                               /\ EnvironmentStatus(run.job) = "known"
                          /\ run.pc = "running" /\ run.filesSteady =>
                               FormalEvidence(run, ComponentManifest(run.job.adapter, t))
        BY <2>1, <3>1 DEF GateOK
      <4>1. runs[r].pc \notin Before /\ GateOK(r)
        BY <2>1, <3>2 DEF RunInv, Before, Ongoing
      <4>2. CASE run.pc = "running" /\ run.filesSteady
        <5>1. FormalEvidence(runs[r], ComponentManifest(run.job.adapter, tree))
          BY <3>3, <3>4, <4>1, <4>2 DEF GateOK
        <5>2. FormalEvidence(run, ComponentManifest(run.job.adapter, t))
          BY <3>3, <3>7, <3>8, <4>2, <5>1
        <5> QED BY <3>3, <4>1, <5>2 DEF GateOK
      <4> QED BY <3>3, <4>1, <4>2 DEF GateOK
    <3>10. PackageOK(r)'
      BY <3>1, <3>2, <3>3 DEF PackageOK, Ongoing
    <3> QED BY <3>5, <3>6, <3>9, <3>10 DEF RunInv
  <2> QED BY <2>2, <2>3
<1> QED BY <1>1 DEF ProvenanceInv

LEMMA EditStep ==
  ASSUME ProvenanceInv, Edit
  PROVE  ProvenanceInv'
<1>1. PICK t \in Trees : Put(t) /\ commits' = commits /\ head' = head
  BY DEF Edit
<1>2. CheckoutOK'
  BY <1>1 DEF ProvenanceInv, CheckoutOK, Put
<1> QED BY <1>1, <1>2, PutStep

LEMMA CommitStep ==
  ASSUME ProvenanceInv, Commit
  PROVE  ProvenanceInv'
<1> DEFINE new == [source |-> tree.source, pin |-> tree.pin]
           t == [tree EXCEPT !.extra = FALSE]
<1>1. /\ tree \in Trees /\ commits \in Seq([source : Versions, pin : Pins])
      /\ new \in [source : Versions, pin : Pins]
  BY DEF ProvenanceInv, CheckoutOK, Trees
<1>2. t \in Trees /\ t.source = tree.source
  BY <1>1 DEF Trees
<1>3. new.source = tree.source
  OBVIOUS
<1> HIDE DEF new, t
<1>4. /\ Put(t) /\ commits' = Append(commits, new) /\ head' = Len(commits')
  BY DEF Commit, new, t
<1>5. /\ commits' \in Seq([source : Versions, pin : Pins])
      /\ Len(commits') = Len(commits) + 1 /\ Len(commits) \in Nat
      /\ commits'[Len(commits) + 1] = new
      /\ \A c \in 1 .. Len(commits) : commits'[c] = commits[c]
  BY <1>1, <1>4, AppendProperties, LenProperties
<1>6. \A c \in 1 .. Len(commits) : c \in 1 .. Len(commits') /\ commits'[c] = commits[c]
  BY <1>5
<1>7. head' \in 1 .. Len(commits') /\ commits'[head'] = new
  BY <1>4, <1>5
<1>8. CheckoutOK'
  BY <1>2, <1>4, <1>5, <1>7 DEF CheckoutOK, Put
<1> QED BY <1>2, <1>3, <1>4, <1>6, <1>7, <1>8, PutStep

LEMMA CheckoutStep ==
  ASSUME ProvenanceInv, Checkout
  PROVE  ProvenanceInv'
<1>1. PICK c \in 1 .. Len(commits) :
        /\ Put([source |-> commits[c].source, pin |-> commits[c].pin, extra |-> FALSE])
        /\ head' = c /\ commits' = commits
  BY DEF Checkout
<1> DEFINE t == [source |-> commits[c].source, pin |-> commits[c].pin, extra |-> FALSE]
<1>2. commits[c] \in [source : Versions, pin : Pins]
  BY ElementOfSeq DEF ProvenanceInv, CheckoutOK
<1>3. t \in Trees /\ t.source = commits[c].source
  BY <1>2 DEF Trees
<1> HIDE DEF t
<1>4. Put(t)
  BY <1>1 DEF t
<1>5. CheckoutOK'
  BY <1>1, <1>3, <1>4 DEF ProvenanceInv, CheckoutOK, Put
<1> QED BY <1>1, <1>3, <1>4, <1>5, PutStep

LEMMA ProvenanceStep == ProvenanceInv /\ [ProvenanceNext]_provenanceVars => ProvenanceInv'
<1> SUFFICES ASSUME ProvenanceInv, [ProvenanceNext]_provenanceVars PROVE ProvenanceInv'
  OBVIOUS
<1>1. ASSUME NEW r \in Runs,
             \/ Import(r) \/ Analyse(r) \/ ReadHead(r) \/ ReadStatus(r)
             \/ Preflight(r) \/ PublishPackage(r)
      PROVE  ProvenanceInv'
  BY <1>1, ImportStep, AnalyseStep, ReadHeadStep, ReadStatusStep, PreflightStep, PackageStep
<1>2. CASE Edit \/ Commit \/ Checkout
  BY <1>2, EditStep, CommitStep, CheckoutStep
<1>3. CASE UNCHANGED provenanceVars
  BY <1>3 DEF provenanceVars, ProvenanceInv, CheckoutOK, RunInv, RunOK, CodeOK, GateOK, PackageOK
<1> QED BY <1>1, <1>2, <1>3 DEF ProvenanceNext

LEMMA ProvenanceAlways == ProvenanceSpec => []ProvenanceInv
BY ProvenanceInitInv, ProvenanceStep, PTL DEF ProvenanceSpec

-----------------------------------------------------------------------------
(* What a package tells of the run that made it. *)

\* A formal run whose package is contradicted by the kernel, or unreviewed, was
\* changed while it ran (runtime.py:1134, 1746-1783).
THEOREM ChangesAreSeen == ProvenanceSpec => []ContradictionMeansChange
<1>1. ProvenanceInv => ContradictionMeansChange
  <2> SUFFICES ASSUME ProvenanceInv, NEW r \in Published,
                      runs[r].package.mode = "formal_comparison",
                      \/ runs[r].package.review = "unreviewed"
                      \/ runs[r].package.verification \in CONTRADICTED_VERIFICATION_STATUSES,
                      runs[r].filesSteady
               PROVE  FALSE
    BY DEF ContradictionMeansChange
  <2>1. PICK t \in Trees, o \in Outcomes : MadeOf(runs[r], t, o)
    BY DEF Published, ProvenanceInv, RunInv, PackageOK
  <2> DEFINE verdicts == ComponentManifest(runs[r].job.adapter, t)
  <2> HIDE DEF verdicts
  <2>2. runs[r].package = Package(runs[r], verdicts, o)
    BY <2>1 DEF MadeOf, verdicts
  <2>3. /\ runs[r].package.mode = runs[r].job.mode
        /\ runs[r].package.review = verdicts.review
        /\ runs[r].package.verification = verdicts.verification
    BY <2>2 DEF Package
  <2>4. FormalEvidence(runs[r], verdicts)
    BY <2>1, <2>3 DEF MadeOf, verdicts
  <2> QED BY <2>3, <2>4 DEF FormalEvidence
<1> QED BY <1>1, ProvenanceAlways, PTL

\* What it says of where the code came from.
LEMMA PackageTells ==
  ASSUME ProvenanceInv, NEW r \in Published
  PROVE  LET p == runs[r].package
         IN /\ p.commit = runs[r].commit /\ p.gitStatus = runs[r].gitStatus
            /\ p.mode = runs[r].job.mode
            /\ p.environment = EnvironmentStatus(runs[r].job)
            /\ p.backends = Backends(runs[r].job)
            /\ p.outcome \in Outcomes
<1>1. PICK t \in Trees, o \in Outcomes : MadeOf(runs[r], t, o)
  BY DEF Published, ProvenanceInv, RunInv, PackageOK
<1> DEFINE verdicts == ComponentManifest(runs[r].job.adapter, t)
<1> HIDE DEF verdicts
<1>2. runs[r].package = Package(runs[r], verdicts, o)
  BY <1>1 DEF MadeOf, verdicts
<1> QED BY <1>2 DEF Package

\* The commit it names holds the code that ran, if the tree was clean and the
\* sources stayed.
LEMMA NamedCommitRan ==
  ASSUME ProvenanceInv, NEW r \in Published, runs[r].package.commit # None,
         runs[r].codeSteady, runs[r].worktree = "clean"
  PROVE  commits[runs[r].package.commit].source = runs[r].loaded
BY PackageTells DEF Published, ProvenanceInv, RunInv, CodeOK

-----------------------------------------------------------------------------
(* What the readers' verdicts rest on. *)

LEMMA ClaimRanks ==
  /\ ClaimRank("no_claim") = 1 /\ ClaimRank("exploratory") = 2
  /\ ClaimRank("bounded") = 3 /\ ClaimRank("comparison_eligible") = 4
<1>1. ClaimRank("no_claim") = 1
  BY DEF ClaimRank, CLAIM_CONCLUSIONS
<1>2. ClaimRank("exploratory") = 2
  BY DEF ClaimRank, CLAIM_CONCLUSIONS
<1>3. ClaimRank("bounded") = 3
  BY DEF ClaimRank, CLAIM_CONCLUSIONS
<1>4. ClaimRank("comparison_eligible") = 4
  BY DEF ClaimRank, CLAIM_CONCLUSIONS
<1> QED BY <1>1, <1>2, <1>3, <1>4

Conclusions == {"no_claim", "exploratory", "bounded", "comparison_eligible"}

\* The strongest claim needs four inputs that all support it.
LEMMA WeakestOfFour ==
  ASSUME NEW a \in Conclusions, NEW b \in Conclusions, NEW c \in Conclusions,
         NEW d \in Conclusions,
         (CHOOSE x \in {a, b, c, d} : \A y \in {a, b, c, d} : ClaimRank(x) <= ClaimRank(y))
           = "comparison_eligible"
  PROVE  /\ a = "comparison_eligible" /\ b = "comparison_eligible"
         /\ c = "comparison_eligible" /\ d = "comparison_eligible"
<1> DEFINE caps == {a, b, c, d}
           weakest(x) == \A y \in caps : ClaimRank(x) <= ClaimRank(y)
<1>1. \A x \in caps : ClaimRank(x) \in 1 .. 4
  BY ClaimRanks DEF Conclusions
<1>2. \E x \in caps : weakest(x)
  <2>1. \E x \in {a, b} : ClaimRank(x) <= ClaimRank(a) /\ ClaimRank(x) <= ClaimRank(b)
    BY <1>1
  <2>2. \E x \in {c, d} : ClaimRank(x) <= ClaimRank(c) /\ ClaimRank(x) <= ClaimRank(d)
    BY <1>1
  <2> QED BY <1>1, <2>1, <2>2
<1>3. weakest("comparison_eligible")
  BY <1>2
<1>4. ASSUME NEW x \in Conclusions, ClaimRank("comparison_eligible") <= ClaimRank(x)
      PROVE  x = "comparison_eligible"
  BY <1>4, ClaimRanks DEF Conclusions
<1> QED BY <1>3, <1>4

LEMMA CapsAreConclusions ==
  ASSUME NEW level, NEW credibility, NEW verdict
  PROVE  /\ EvidenceConclusion(level) \in Conclusions
         /\ QualificationCap(level) \in Conclusions
         /\ CredibilityCap(credibility) \in Conclusions
         /\ CompatibilityCap(verdict) \in Conclusions
BY DEF EvidenceConclusion, QualificationCap, CredibilityCap, CompatibilityCap, Conclusions

\* A package is eligible for a reader whose every input is the best there is.
LEMMA EligibleMeans ==
  ASSUME NEW p, NEW t, NEW reader, InspectRun(p, t, reader) = "comparison_eligible"
  PROVE  /\ reader.intact /\ RunOk(p)
         /\ p.evidence = "comparable" /\ p.outcome.level # "partial"
         /\ AssessCredibility(p, t, reader) = "credible"
         /\ PackageSchema = reader.schema
<1> DEFINE credibility == AssessCredibility(p, t, reader)
           verdict == Compatibility(PackageSchema, reader.schema)
           evidence == EvidenceConclusion(p.evidence)
           qualified == QualificationCap(p.outcome.level)
           credible == CredibilityCap(credibility)
           compatible == CompatibilityCap(verdict)
           caps == {evidence, qualified, credible, compatible}
<1> HIDE DEF credibility, verdict
<1>1. DeriveClaim(p, reader.intact, credibility, verdict) = "comparison_eligible"
  BY DEF InspectRun, credibility, verdict
<1>2. /\ reader.intact /\ RunOk(p)
      /\ (CHOOSE x \in caps : \A y \in caps : ClaimRank(x) <= ClaimRank(y)) = "comparison_eligible"
  BY <1>1 DEF DeriveClaim
<1>3. /\ evidence = "comparison_eligible" /\ qualified = "comparison_eligible"
      /\ credible = "comparison_eligible" /\ compatible = "comparison_eligible"
  <2>1. /\ evidence \in Conclusions /\ qualified \in Conclusions
        /\ credible \in Conclusions /\ compatible \in Conclusions
    BY CapsAreConclusions
  <2> HIDE DEF evidence, qualified, credible, compatible
  <2> QED BY <1>2, <2>1, WeakestOfFour
<1>4. p.evidence = "comparable"
  BY <1>3 DEF EvidenceConclusion
<1>5. p.outcome.level # "partial"
  BY <1>3 DEF QualificationCap
<1>6. credibility = "credible"
  BY <1>3 DEF CredibilityCap
<1>7. verdict = "current"
  BY <1>3 DEF CompatibilityCap
<1>8. PackageSchema = reader.schema
  BY <1>7 DEF verdict, Compatibility
<1> QED BY <1>2, <1>4, <1>5, <1>6, <1>8 DEF credibility

FactorStatuses == {"pass", "limited", "fail", "unknown"}

LEMMA FactorsAreTyped ==
  ASSUME NEW p, NEW t, NEW reader
  PROVE  Factors(p, t, reader) \subseteq FactorStatuses
<1>1. /\ IntegrityFactor(reader.intact) \in FactorStatuses
      /\ SourceStateFactor(p) \in FactorStatuses
      /\ RunModeFactor(p) \in FactorStatuses
      /\ EnvironmentFactor(p) \in FactorStatuses
  BY DEF IntegrityFactor, SourceStateFactor, RunModeFactor, EnvironmentFactor, FactorStatuses
<1>2. /\ BackendFactor(p, reader.policy) \in FactorStatuses
      /\ PlantIdentityFactor(p) \in FactorStatuses
      /\ QualificationFactor(p) \in FactorStatuses
      /\ ApplicabilityFactor(p, reader.policy) \in FactorStatuses
  BY DEF BackendFactor, PlantIdentityFactor, QualificationFactor, ApplicabilityFactor,
         FactorStatuses
<1>3. ImplementationReviewFactor(p, t, reader.policy) \in FactorStatuses
  BY DEF ImplementationReviewFactor, FactorStatuses
<1>4. /\ NumericalHealthFactor(p) \in FactorStatuses
      /\ SafetyFactor(p) \in FactorStatuses
      /\ EvidenceLevelFactor(p) \in FactorStatuses
      /\ AuthenticityFactor(reader.trust) \in FactorStatuses
  BY DEF NumericalHealthFactor, SafetyFactor, EvidenceLevelFactor, AuthenticityFactor,
         FactorStatuses
<1> QED BY <1>1, <1>2, <1>3, <1>4 DEF Factors

LEMMA CredibleMeans ==
  ASSUME NEW p, NEW t, NEW reader, AssessCredibility(p, t, reader) = "credible"
  PROVE  \A factor \in Factors(p, t, reader) : factor = "pass"
<1> DEFINE factors == Factors(p, t, reader)
<1>1. factors \subseteq FactorStatuses
  BY FactorsAreTyped
<1> HIDE DEF factors
<1>2. Aggregate(factors) = "credible"
  BY DEF AssessCredibility, factors
<1>3. factors \cap {"fail", "limited", "unknown"} = {}
  BY <1>2 DEF Aggregate
<1> QED BY <1>1, <1>3 DEF FactorStatuses, factors

\* What is comparable was recorded in formal mode, of a clean tree, with a known
\* environment, by an adapter the kernel had verified.
LEMMA ComparableMeans ==
  ASSUME NEW run, NEW verdicts, NEW result,
         EvidenceLevel(run, verdicts, result) = "comparable"
  PROVE  /\ run.job.mode = "formal_comparison" /\ run.worktree = "clean"
         /\ EnvironmentStatus(run.job) = "known"
         /\ verdicts.review = "reviewed" /\ verdicts.verification = "verified"
<1> DEFINE facts == [clean |-> run.worktree = "clean",
                     environmentKnown |-> EnvironmentStatus(run.job) = "known",
                     reviewed |-> verdicts.review = "reviewed",
                     verified |-> verdicts.verification = "verified"]
<1>1. /\ EvidenceRank("diagnostic_only") = 1 /\ EvidenceRank("functional") = 2
      /\ EvidenceRank("limited") = 3 /\ EvidenceRank("comparable") = 4
  BY Ranks
<1>2. /\ CapEvidenceLevel("functional", run.job.route) # "comparable"
      /\ CapEvidenceLevel("limited", run.job.route) # "comparable"
  BY <1>1 DEF CapEvidenceLevel, EvidenceCap
<1>3. DeriveEvidenceLevel(result.status, run.job.mode, facts, result.level, run.job.route)
        = "comparable"
  BY DEF EvidenceLevel
<1>4. run.job.mode = "formal_comparison"
  BY <1>2, <1>3 DEF DeriveEvidenceLevel
<1>5. facts.clean /\ facts.environmentKnown /\ facts.reviewed /\ facts.verified
  <2> HIDE DEF facts
  <2> QED BY <1>2, <1>3 DEF DeriveEvidenceLevel
<1> QED BY <1>4, <1>5

\* The kernel verifies the files it digests itself, of a declared solve path.
LEMMA VerifiedMeans ==
  ASSUME NEW a, NEW t, VerifyAdapterIdentity(a, t) = "verified"
  PROVE  Covered(a) /\ a.inside /\ RecordedDigest(a, t) = t.source
<1>1. None # "verified"
  BY MarkersAreDistinct DEF VerificationStatuses
<1>2. a.backend
  BY <1>1 DEF VerifyAdapterIdentity
<1>3. a.declared /\ RecordedDigest(a, t) # NoDigest
  BY <1>2 DEF VerifyAdapterIdentity, Covered
<1>4. RecordedDigest(a, t) = t.source
  BY <1>2, <1>3 DEF VerifyAdapterIdentity, Covered
<1>5. a.inside
  BY <1>2, <1>3, <1>4 DEF VerifyAdapterIdentity, Covered
<1> QED BY <1>2, <1>3, <1>4, <1>5 DEF Covered

\* A reader passes a review only against a pin of its own that is of this code, or
\* when it cannot read its pins.
LEMMA ReviewMeans ==
  ASSUME NEW p, NEW t, NEW policy, p.digest \in Versions,
         ImplementationReviewFactor(p, t, policy) = "pass"
  PROVE  t.pin \in {p.digest, Unreadable}
<1>1. /\ p.digest # NoDigest /\ None \notin ReviewStatuses
      /\ NoPin \notin Versions
  BY MarkersAreDistinct
<1>2. EffectiveReview(p, t) = "reviewed"
  BY <1>1 DEF ImplementationReviewFactor
<1>3. t.pin # Unreadable => CurrentReview(p, t) \in ReviewStatuses
  BY <1>1 DEF CurrentReview, ReviewStatus, ReviewStatuses
<1>4. t.pin # Unreadable => CurrentReview(p, t) = "reviewed"
  BY <1>1, <1>2, <1>3 DEF EffectiveReview
<1> QED BY <1>1, <1>4 DEF CurrentReview, ReviewStatus

\* Where the environment is known, so is every solver, and there is one.
LEMMA KnownEnvironmentPasses ==
  ASSUME NEW run, run.job \in Jobs, run.job.mode = "formal_comparison", run.worktree = "clean",
         EnvironmentStatus(run.job) = "known"
  PROVE  \A g \in DOMAIN PreflightDocument(run) : PreflightDocument(run)[g] = "pass"
<1>1. \A b \in Backends(run.job) : b.status = "known"
  BY DEF EnvironmentStatus
<1>2. Backends(run.job) # {}
  <2>1. run.job.solvers # {}
    BY JobsAreTyped
  <2> QED BY <2>1 DEF Backends
<1> QED BY <1>1, <1>2 DEF PreflightDocument

LEMMA EarnedInv == ProvenanceInv => EligibleIsEarned
<1> SUFFICES ASSUME ProvenanceInv, NEW r \in Published, NEW reader \in Audience,
                    Eligible(r, reader)
             PROVE  LET run == runs[r] IN
                    /\ reader.schema = PackageSchema /\ reader.intact
                    /\ reader.trust \in {None, "L1_anchored"}
                    /\ \A g \in DOMAIN PreflightDocument(run) : PreflightDocument(run)[g] = "pass"
                    /\ run.job.mode = "formal_comparison"
                    /\ Covered(run.job.adapter) /\ run.job.adapter.inside
                    /\ run.codeSteady =>
                         /\ commits[run.package.commit].source = run.loaded
                         /\ run.package.digest = run.loaded
                         /\ tree.pin \in {run.loaded, Unreadable}
  BY DEF EligibleIsEarned
<1> DEFINE run == runs[r]
           p == run.package
<1>1. PICK t \in Trees, o \in Outcomes : MadeOf(runs[r], t, o)
  BY DEF Published, ProvenanceInv, RunInv, PackageOK
<1> DEFINE verdicts == ComponentManifest(run.job.adapter, t)
<1>2. /\ reader.intact /\ p.evidence = "comparable" /\ PackageSchema = reader.schema
      /\ AssessCredibility(p, tree, reader) = "credible"
  BY EligibleMeans DEF Eligible
<1>3. \A factor \in Factors(p, tree, reader) : factor = "pass"
  BY <1>2, CredibleMeans
<1>4. /\ ImplementationReviewFactor(p, tree, reader.policy) = "pass"
      /\ SourceStateFactor(p) = "pass"
      /\ reader.trust # None => AuthenticityFactor(reader.trust) = "pass"
  BY <1>3 DEF Factors
<1>5. p = Package(run, verdicts, o)
  BY <1>1 DEF MadeOf
<1>6. /\ EvidenceLevel(run, verdicts, o) = "comparable" /\ p.digest = verdicts.digest
      /\ p.commit = run.commit
  <2> HIDE DEF verdicts, run
  <2> QED BY <1>2, <1>5 DEF Package
<1>7. /\ run.job.mode = "formal_comparison" /\ run.worktree = "clean"
      /\ EnvironmentStatus(run.job) = "known" /\ verdicts.verification = "verified"
  <2> HIDE DEF verdicts
  <2> QED BY <1>6, ComparableMeans
<1>8. /\ Covered(run.job.adapter) /\ run.job.adapter.inside
      /\ RecordedDigest(run.job.adapter, t) = t.source
  BY <1>7, VerifiedMeans DEF ComponentManifest
<1>9. p.digest = t.source /\ t.source \in Versions
  BY <1>6, <1>8 DEF ComponentManifest, Trees
<1>10. run.job \in Jobs
  BY DEF Published, ProvenanceInv, RunInv, RunOK, Before
<1>11. p.commit # None
  BY <1>4 DEF SourceStateFactor
<1>12. tree.pin \in {p.digest, Unreadable}
  BY <1>4, <1>9, ReviewMeans
<1>13. run.codeSteady => t.source = run.loaded
  BY <1>1 DEF MadeOf
<1>14. reader.trust \in {None, "L1_anchored"}
  BY <1>4 DEF AuthenticityFactor
<1>15. \A g \in DOMAIN PreflightDocument(run) : PreflightDocument(run)[g] = "pass"
  BY <1>7, <1>10, KnownEnvironmentPasses
<1>16. run.codeSteady => commits[p.commit].source = run.loaded
  BY <1>7, <1>11, NamedCommitRan
<1> QED BY <1>2, <1>7, <1>8, <1>9, <1>12, <1>13, <1>14, <1>15, <1>16

\* Samples never leave a comparison undecided.
LEMMA SamplesAreDecided ==
  ASSUME NEW left, NEW right, NEW policy
  PROVE  /\ CompareSamples(left, right, policy) \in Matches \cup {"mismatch"}
         /\ CompareSamples(left, right, policy) \in Matches =>
              /\ DOMAIN left = DOMAIN right
              /\ left = right \/ Exceeded(left, right, policy) = {}
BY DEF CompareSamples, SameSignals, Matches

\* Only a gate or another environment does.
LEMMA GatedRunsAreDecided ==
  ASSUME NEW p, NEW q, NEW policy,
         IntegrityGate(p, TRUE), EnvironmentGate(p), IntegrityGate(q, TRUE), EnvironmentGate(q),
         EnvironmentIdentity(p) = EnvironmentIdentity(q)
  PROVE  CompareRuns(p, q, policy) # "unknown"
<1>1. CompareSamples(p.outcome.samples, q.outcome.samples, policy) # "unknown"
  BY SamplesAreDecided DEF Matches
<1>2. \A x \in {p, q} : IntegrityGate(x, TRUE) /\ EnvironmentGate(x)
  OBVIOUS
<1> QED BY <1>1, <1>2 DEF CompareRuns

LEMMA EligiblePassesGates ==
  ASSUME NEW r \in Published, NEW reader, Eligible(r, reader),
         \A b \in runs[r].package.backends : b.version
  PROVE  IntegrityGate(runs[r].package, TRUE) /\ EnvironmentGate(runs[r].package)
<1> DEFINE p == runs[r].package
<1>1. RunOk(p) /\ AssessCredibility(p, tree, reader) = "credible"
  BY EligibleMeans DEF Eligible
<1>2. \A factor \in Factors(p, tree, reader) : factor = "pass"
  BY <1>1, CredibleMeans
<1>3. BackendFactor(p, reader.policy) = "pass" /\ SourceStateFactor(p) = "pass"
  BY <1>2 DEF Factors
<1>4. \A b \in p.backends : b.status = "known"
  BY <1>3 DEF BackendFactor
<1>5. p.gitStatus = "clean" /\ p.commit # None
  BY <1>3 DEF SourceStateFactor
<1> QED BY <1>1, <1>4, <1>5 DEF IntegrityGate, EnvironmentGate

LEMMA ComparableInv == EligibleIsComparable
<1> SUFFICES ASSUME NEW r \in Published, NEW s \in Published, NEW policy \in Tolerances,
                    NEW reader \in Audience, Eligible(r, reader), Eligible(s, reader),
                    EnvironmentIdentity(runs[r].package) = EnvironmentIdentity(runs[s].package),
                    \A b \in runs[r].package.backends : b.version
             PROVE  CompareRuns(runs[r].package, runs[s].package, policy) # "unknown"
  BY DEF EligibleIsComparable
<1>1. \A b \in runs[s].package.backends : b.version
  BY DEF EnvironmentIdentity
<1> QED BY <1>1, EligiblePassesGates, GatedRunsAreDecided

-----------------------------------------------------------------------------
(* What the audits of several packages find. *)

\* Two matching runs name one commit, and their samples match.
LEMMA MatchMeans ==
  ASSUME NEW p, NEW q, NEW policy, CompareRuns(p, q, policy) \in Matches
  PROVE  /\ p.commit = q.commit /\ p.commit # None
         /\ CompareSamples(p.outcome.samples, q.outcome.samples, policy) \in Matches
<1>1. /\ \A x \in {p, q} : IntegrityGate(x, TRUE) /\ EnvironmentGate(x)
      /\ ManifestIdentity(p) = ManifestIdentity(q)
      /\ CompareSamples(p.outcome.samples, q.outcome.samples, policy) \in Matches
  BY DEF CompareRuns, Matches
<1>2. ManifestIdentity(p).source_commit = p.commit /\ ManifestIdentity(q).source_commit = q.commit
  BY DEF ManifestIdentity
<1> QED BY <1>1, <1>2 DEF EnvironmentGate

LEMMA AuditMeans ==
  ASSUME NEW p, NEW q, NEW policy, AuditRepeatedRuns(<<p, q>>, policy) \in Matches
  PROVE  CompareRuns(p, q, policy) \in Matches
<1> DEFINE ps == <<p, q>>
           pairs == {x \in (DOMAIN ps) \X (DOMAIN ps) : x[1] < x[2]}
           outcomes == {CompareRuns(ps[x[1]], ps[x[2]], policy) : x \in pairs}
<1>1. DOMAIN ps = {1, 2} /\ ps[1] = p /\ ps[2] = q
  OBVIOUS
<1>2. pairs = {<<1, 2>>}
  BY <1>1
<1>3. CompareRuns(p, q, policy) \in outcomes
  BY <1>1, <1>2
<1>4. "unknown" \notin outcomes /\ "mismatch" \notin outcomes
  <2> HIDE DEF outcomes
  <2>1. AuditRepeatedRuns(ps, policy) =
          CASE "unknown" \in outcomes -> "unknown"
            [] "unknown" \notin outcomes /\ "mismatch" \in outcomes -> "mismatch"
            [] OTHER -> IF "tolerance_match" \in outcomes THEN "tolerance_match" ELSE "exact_match"
    BY DEF AuditRepeatedRuns, outcomes
  <2>2. AuditRepeatedRuns(ps, policy) \notin {"unknown", "mismatch"}
    BY DEF Matches
  <2> QED BY <2>1, <2>2
<1>5. CompareRuns(p, q, policy) \in Matches \cup {"unknown", "mismatch"}
  BY SamplesAreDecided DEF CompareRuns
<1> QED BY <1>3, <1>4, <1>5

LEMMA TrialMeans ==
  ASSUME NEW p, NEW q,
         CrossMachineEvidence(<<p, q>>, <<"this", "another">>) = "ready_for_trial"
  PROVE  p.commit = q.commit /\ p.commit # None
<1> DEFINE ps == <<p, q>>
           named == {ps[i].commit : i \in DOMAIN ps} \ {None}
<1>1. DOMAIN ps = {1, 2} /\ ps[1] = p /\ ps[2] = q
  OBVIOUS
<1>2. Cardinality(named) <= 1 /\ \A i \in DOMAIN ps : EnvironmentGate(ps[i])
  BY DEF CrossMachineEvidence
<1>3. p.commit # None /\ q.commit # None
  BY <1>1, <1>2 DEF EnvironmentGate
<1>4. named = {p.commit, q.commit}
  BY <1>1, <1>3
<1>5. p.commit # q.commit => Cardinality({p.commit, q.commit}) = 2
  <2> SUFFICES ASSUME p.commit # q.commit PROVE Cardinality({p.commit, q.commit}) = 2
    OBVIOUS
  <2>1. IsFiniteSet({p.commit}) /\ Cardinality({p.commit}) = 1
    BY FS_Singleton
  <2>2. Cardinality({p.commit} \cup {q.commit}) = Cardinality({p.commit}) + 1
    BY <2>1, FS_AddElement
  <2>3. {p.commit} \cup {q.commit} = {p.commit, q.commit}
    OBVIOUS
  <2> QED BY <2>1, <2>2, <2>3
<1> HIDE DEF named
<1> QED BY <1>2, <1>3, <1>4, <1>5

\* Without relative limits it does not matter which of two samples is the left.
LEMMA SamplesAreSymmetric ==
  ASSUME NEW left, NEW right, NEW policy, Absolute(policy),
         \A signal \in DOMAIN left : left[signal] \in Int,
         \A signal \in DOMAIN right : right[signal] \in Int
  PROVE  CompareSamples(left, right, policy) = CompareSamples(right, left, policy)
<1>1. ASSUME NEW signal, NEW a \in Int, NEW b \in Int
      PROVE  LimitFor(policy, signal, a) = LimitFor(policy, signal, b)
  <2> DEFINE own == {i \in DOMAIN policy.per_signal : policy.per_signal[i][1] = signal}
             relative == IF own = {} THEN policy.relative
                         ELSE policy.per_signal[CHOOSE i \in own : TRUE][3]
  <2>1. relative = 0
    <3>1. own # {} => (CHOOSE i \in own : TRUE) \in DOMAIN policy.per_signal
      OBVIOUS
    <3> QED BY <3>1 DEF Absolute
  <2>2. relative * Magnitude(a) = 0 /\ relative * Magnitude(b) = 0
    <3> HIDE DEF relative
    <3> QED BY <2>1 DEF Magnitude
  <2> QED BY <2>2 DEF LimitFor
<1>2. \A a, b \in Int : Distance(a, b) = Distance(b, a)
  BY DEF Distance
<1>3. ASSUME DOMAIN left = DOMAIN right
      PROVE  Exceeded(left, right, policy) = Exceeded(right, left, policy)
  <2>1. ASSUME NEW signal \in DOMAIN left
        PROVE  /\ Distance(left[signal], right[signal]) = Distance(right[signal], left[signal])
               /\ LimitFor(policy, signal, left[signal]) = LimitFor(policy, signal, right[signal])
    BY <1>1, <1>2, <1>3
  <2> QED BY <1>3, <2>1 DEF Exceeded
<1> QED BY <1>3 DEF CompareSamples, SameSignals

LEMMA RunsAreSymmetric ==
  ASSUME NEW p, NEW q, NEW policy, Absolute(policy),
         \A x \in {p, q} : \A signal \in DOMAIN x.outcome.samples :
           x.outcome.samples[signal] \in Int
  PROVE  CompareRuns(p, q, policy) = CompareRuns(q, p, policy)
<1>1. CompareSamples(p.outcome.samples, q.outcome.samples, policy)
        = CompareSamples(q.outcome.samples, p.outcome.samples, policy)
  BY SamplesAreSymmetric
<1>2. {p, q} = {q, p}
  OBVIOUS
<1> QED BY <1>1, <1>2 DEF CompareRuns

LEMMA MatchInv == ProvenanceInv => MatchMeansSameCode
<1> SUFFICES ASSUME ProvenanceInv, NEW r \in Published, NEW s \in Published, r # s
             PROVE  LET p == runs[r].package
                        q == runs[s].package
                    IN /\ \/ \E policy \in Tolerances :
                               AuditRepeatedRuns(<<p, q>>, policy)
                                 \in {"exact_match", "tolerance_match"}
                          \/ CrossMachineEvidence(<<p, q>>, <<"this", "another">>)
                               = "ready_for_trial"
                          => /\ (\A x \in {r, s} : runs[x].codeSteady /\ runs[x].worktree = "clean")
                                  => runs[r].loaded = runs[s].loaded
                             /\ \A reader \in Audience : reader.schema = PackageSchema
                                  => CrossVersionNote(p, q, reader) = None
                       /\ \A policy \in Tolerances : Absolute(policy) =>
                            CompareRuns(p, q, policy) = CompareRuns(q, p, policy)
  BY DEF MatchMeansSameCode
<1> DEFINE p == runs[r].package
           q == runs[s].package
           ps == <<p, q>>
           found == \/ \E policy \in Tolerances :
                         AuditRepeatedRuns(ps, policy) \in {"exact_match", "tolerance_match"}
                    \/ CrossMachineEvidence(ps, <<"this", "another">>) = "ready_for_trial"
<1> HIDE DEF p, q
<1>1. found => p.commit = q.commit /\ p.commit # None
  BY AuditMeans, MatchMeans, TrialMeans DEF Matches
<1>2. ASSUME found, \A x \in {r, s} : runs[x].codeSteady /\ runs[x].worktree = "clean"
      PROVE  runs[r].loaded = runs[s].loaded
  <2>1. p.commit = q.commit /\ p.commit # None
    BY <1>1, <1>2
  <2>2. commits[p.commit].source = runs[r].loaded
    BY <1>2, <2>1, NamedCommitRan DEF p
  <2>3. commits[q.commit].source = runs[s].loaded
    BY <1>2, <2>1, NamedCommitRan DEF q
  <2> QED BY <2>1, <2>2, <2>3
<1>3. ASSUME found, NEW reader \in Audience, reader.schema = PackageSchema
      PROVE  CrossVersionNote(p, q, reader) = None
  <2>1. Compatibility(PackageSchema, reader.schema) = "current"
    BY <1>3, SchemasAreNumbers DEF Compatibility
  <2> QED BY <1>1, <1>3, <2>1 DEF CrossVersionNote
<1>4. ASSUME NEW policy \in Tolerances, Absolute(policy)
      PROVE  CompareRuns(p, q, policy) = CompareRuns(q, p, policy)
  <2>1. \A x \in {p, q} : \A signal \in DOMAIN x.outcome.samples : x.outcome.samples[signal] \in Int
    BY PackageTells, SamplesAreNumbers DEF p, q
  <2> QED BY <1>4, <2>1, RunsAreSymmetric
<1> QED BY <1>2, <1>3, <1>4 DEF p, q

\* Runs that an audit of repeated runs or of two machines lets through ran one
\* version of the code (reproducibility.py:118-138, 458-530, 563-805).
THEOREM MatchesRanOneCode == ProvenanceSpec => []MatchMeansSameCode
BY MatchInv, ProvenanceAlways, PTL

-----------------------------------------------------------------------------
(* What the reader of metrics finds. *)

LEMMA MetricGateMeans ==
  ASSUME NEW p, PackageEligible(p, TRUE)
  PROVE  /\ p.commit # None /\ p.gitStatus = "clean" /\ p.outcome.status = "QUALIFIED"
         /\ IntegrityGate(p, TRUE) /\ EnvironmentGate(p)
<1>1. /\ p.commit # None /\ p.gitStatus = "clean" /\ p.outcome.status = "QUALIFIED"
      /\ \A b \in p.backends : /\ b.status \in {"known", "not_declared", "not_assessed"}
                               /\ b.status = "known" => b.version
  BY DEF PackageEligible
<1> QED BY <1>1 DEF IntegrityGate, RunOk, EnvironmentGate

\* Samples within a limit on every signal are within it on every metric.
LEMMA MetricWithin ==
  ASSUME NEW p, NEW q, NEW tolerance \in Nat, NEW m \in DOMAIN DefaultMetricRegistry,
         MetricFields(m) \subseteq SampleFields(p), MetricFields(m) \subseteq SampleFields(q),
         \A x \in {p, q} : \A signal \in DOMAIN x.outcome.samples :
           x.outcome.samples[signal] \in Int,
         CompareSamples(p.outcome.samples, q.outcome.samples, AnySignalWithin(tolerance)) \in Matches
  PROVE  /\ Metric(m, p) \in Int /\ Metric(m, q) \in Int
         /\ Distance(Metric(m, p), Metric(m, q)) <= tolerance
<1> DEFINE left == p.outcome.samples
           right == q.outcome.samples
           policy == AnySignalWithin(tolerance)
           signal == DefaultMetricRegistry[m]
<1>1. CASE MetricFields(m) = {}
  <2>1. Metric(m, p) = 1 /\ Metric(m, q) = 1
    BY <1>1 DEF Metric
  <2> QED BY <2>1 DEF Distance
<1>2. CASE MetricFields(m) # {}
  <2>1. signal \in DOMAIN left /\ signal \in DOMAIN right
    BY <1>2 DEF MetricFields, SampleFields
  <2>2. Metric(m, p) = left[signal] /\ Metric(m, q) = right[signal]
    BY <1>2 DEF Metric
  <2>3. left[signal] \in Int /\ right[signal] \in Int
    BY <2>1
  <2>4. left = right \/ Exceeded(left, right, policy) = {}
    BY SamplesAreDecided
  <2> HIDE DEF left, right, signal
  <2>5. LimitFor(policy, signal, left[signal]) = 100 * tolerance
    <3>1. policy.absolute = 100 * tolerance /\ policy.relative = 0 /\ policy.per_signal = << >>
      BY DEF AnySignalWithin
    <3>2. {i \in DOMAIN policy.per_signal : policy.per_signal[i][1] = signal} = {}
      BY <3>1
    <3>3. 0 * Magnitude(left[signal]) = 0
      BY <2>3 DEF Magnitude
    <3> HIDE DEF policy
    <3> QED BY <3>1, <3>2, <3>3 DEF LimitFor
  <2>6. CASE left = right
    BY <2>2, <2>3, <2>6 DEF Distance
  <2>7. CASE Exceeded(left, right, policy) = {}
    <3>1. ~(100 * Distance(left[signal], right[signal]) > 100 * tolerance)
      BY <2>1, <2>5, <2>7 DEF Exceeded
    <3>2. Distance(left[signal], right[signal]) \in Nat
      BY <2>3 DEF Distance
    <3> QED BY <2>2, <2>3, <3>1, <3>2
  <2> QED BY <2>4, <2>6, <2>7
<1> QED BY <1>1, <1>2

\* Two values are spread by their distance.
LEMMA SpreadOfTwo ==
  ASSUME NEW m, NEW p, NEW q, Metric(m, p) \in Int, Metric(m, q) \in Int
  PROVE  Spread(m, <<p, q>>) = Distance(Metric(m, p), Metric(m, q))
<1> DEFINE ps == <<p, q>>
           a == Metric(m, p)
           b == Metric(m, q)
           far == Distance(a, b)
           distances == {Distance(Metric(m, ps[x[1]]), Metric(m, ps[x[2]])) :
                           x \in (DOMAIN ps) \X (DOMAIN ps)}
<1>1. DOMAIN ps = {1, 2} /\ Metric(m, ps[1]) = a /\ Metric(m, ps[2]) = b
  OBVIOUS
<1>2. Distance(a, a) = 0 /\ Distance(b, b) = 0 /\ far = Distance(b, a) /\ far \in Nat
  BY DEF Distance
<1>3. distances = {0, far}
  <2> HIDE DEF a, b, far
  <2>1. \A x \in (DOMAIN ps) \X (DOMAIN ps) :
          Distance(Metric(m, ps[x[1]]), Metric(m, ps[x[2]])) \in {0, far}
    <3> SUFFICES ASSUME NEW i \in {1, 2}, NEW j \in {1, 2}
                 PROVE  Distance(Metric(m, ps[i]), Metric(m, ps[j])) \in {0, far}
      BY <1>1
    <3> QED BY <1>1, <1>2 DEF far
  <2>2. 0 \in distances
    <3>1. <<1, 1>> \in (DOMAIN ps) \X (DOMAIN ps)
      BY <1>1
    <3>2. Distance(Metric(m, ps[1]), Metric(m, ps[1])) = 0
      BY <1>1, <1>2
    <3> QED BY <3>1, <3>2
  <2>3. far \in distances
    <3>1. <<1, 2>> \in (DOMAIN ps) \X (DOMAIN ps)
      BY <1>1
    <3>2. Distance(Metric(m, ps[1]), Metric(m, ps[2])) = far
      BY <1>1 DEF far
    <3> QED BY <3>1, <3>2
  <2> QED BY <2>1, <2>2, <2>3
<1> HIDE DEF far, distances
<1>4. Spread(m, ps) = CHOOSE d \in {0, far} : \A e \in {0, far} : e <= d
  BY <1>3 DEF Spread, distances
<1> QED BY <1>2, <1>4 DEF far

LEMMA MetricMatches ==
  ASSUME NEW p, NEW q, NEW tolerance \in Nat, Comparable(<<p, q>>, MetricIds),
         \A x \in {p, q} : \A signal \in DOMAIN x.outcome.samples :
           x.outcome.samples[signal] \in Int,
         CompareRuns(p, q, AnySignalWithin(tolerance)) \in Matches
  PROVE  CompareMetricRuns(<<p, q>>, MetricIds, tolerance) \in Matches
<1> DEFINE ps == <<p, q>>
<1>1. CompareSamples(p.outcome.samples, q.outcome.samples, AnySignalWithin(tolerance)) \in Matches
  BY MatchMeans
<1>2. ASSUME NEW i \in DOMAIN MetricIds
      PROVE  MetricOutcome(MetricIds[i], ps, tolerance) \in Matches
  <2> DEFINE m == MetricIds[i]
  <2>1. DOMAIN ps = {1, 2} /\ ps[1] = p /\ ps[2] = q
    OBVIOUS
  <2>2. /\ m \in DOMAIN DefaultMetricRegistry
        /\ \A j \in DOMAIN ps : MetricFields(m) \subseteq SampleFields(ps[j])
    BY <1>2 DEF Comparable, Computable
  <2>3. MetricFields(m) \subseteq SampleFields(p) /\ MetricFields(m) \subseteq SampleFields(q)
    BY <2>1, <2>2
  <2> HIDE DEF m
  <2>4. /\ Metric(m, p) \in Int /\ Metric(m, q) \in Int
        /\ Distance(Metric(m, p), Metric(m, q)) <= tolerance
    BY <1>1, <2>2, <2>3, MetricWithin
  <2>5. Spread(m, ps) = Distance(Metric(m, p), Metric(m, q))
    BY <2>4, SpreadOfTwo
  <2>6. Distance(Metric(m, p), Metric(m, q)) \in Nat
    BY <2>4 DEF Distance
  <2>7. Spread(m, ps) \in 0 .. tolerance
    BY <2>4, <2>5, <2>6
  <2>8. MetricOutcome(m, ps, tolerance) \in Matches
    BY <2>7 DEF MetricOutcome, Matches
  <2> QED BY <2>8 DEF m
<1> QED BY <1>2 DEF CompareMetricRuns, Matches

\* evidence.py takes the reports of such runs for what they are.
LEMMA ReportMeans ==
  ASSUME NEW p, NEW q, NEW tolerance,
         RunRecordAccepted(p), RunRecordAccepted(q),
         p.outcome.status = "QUALIFIED", q.outcome.status = "QUALIFIED",
         CompareMetricRuns(<<p, q>>, MetricIds, tolerance) \in Matches
  PROVE  ClassifyReport(BuildEvidenceReport(<<p, q>>, MetricIds, tolerance), "none") = "comparable"
<1> DEFINE ps == <<p, q>>
           result == CompareMetricRuns(ps, MetricIds, tolerance)
           report == [runs |-> ps, compared |-> ps, described |-> TRUE, outcome |-> result]
<1>1. DOMAIN ps = {1, 2} /\ ps[1] = p /\ ps[2] = q /\ ps # << >>
  OBVIOUS
<1> HIDE DEF result
<1>2. BuildEvidenceReport(ps, MetricIds, tolerance) = report
  BY DEF BuildEvidenceReport, result
<1>3. result \in Matches
  BY DEF result
<1>4. \A i \in DOMAIN ps : RunRecordAccepted(ps[i]) /\ ps[i].outcome.status = "QUALIFIED"
  BY <1>1
<1>5. /\ report.runs = ps /\ report.compared = ps /\ report.described
      /\ report.outcome = result
  OBVIOUS
<1> HIDE DEF ps, report
<1>6. ClassifyReport(report, "none") = "comparable"
  BY <1>1, <1>3, <1>4, <1>5 DEF ClassifyReport
<1> QED BY <1>2, <1>6 DEF ps

LEMMA MetricsInv == ProvenanceInv => MetricsAreSound
<1> SUFFICES ASSUME ProvenanceInv, NEW r \in Published, NEW s \in Published,
                    NEW tolerance \in MetricTolerances,
                    Comparable(<<runs[r].package, runs[s].package>>, MetricIds)
             PROVE  LET p == runs[r].package
                        q == runs[s].package
                        verdict == CompareRuns(p, q, AnySignalWithin(tolerance))
                        report == BuildEvidenceReport(<<p, q>>, MetricIds, tolerance)
                    IN /\ ClassifySummary(SummarizeRun(p), "mechanism") = "functional"
                       /\ runs[r].codeSteady /\ runs[r].worktree = "clean"
                            => commits[p.commit].source = runs[r].loaded
                       /\ EnvironmentIdentity(p) = EnvironmentIdentity(q) => verdict # "unknown"
                       /\ verdict \in Matches => ClassifyReport(report, "none") = "comparable"
  BY DEF MetricsAreSound
<1> DEFINE p == runs[r].package
           q == runs[s].package
<1>1. PackageEligible(p, TRUE) /\ PackageEligible(q, TRUE)
  <2>1. \A i \in DOMAIN <<p, q>> : PackageEligible(<<p, q>>[i], TRUE)
    BY DEF Comparable
  <2> HIDE DEF p, q
  <2>2. DOMAIN <<p, q>> = {1, 2} /\ <<p, q>>[1] = p /\ <<p, q>>[2] = q
    OBVIOUS
  <2> QED BY <2>1, <2>2
<1>2. /\ p.environment = EnvironmentStatus(runs[r].job) /\ p.outcome \in Outcomes
      /\ q.environment = EnvironmentStatus(runs[s].job) /\ q.outcome \in Outcomes
  BY PackageTells
<1>3. p.environment \in {"known", "partial"} /\ q.environment \in {"known", "partial"}
  BY <1>2 DEF EnvironmentStatus
<1>4. runs[r].codeSteady /\ runs[r].worktree = "clean" => commits[p.commit].source = runs[r].loaded
  BY <1>1, MetricGateMeans, NamedCommitRan
<1> HIDE DEF p, q
<1>5. RunRecordAccepted(p) /\ RunRecordAccepted(q)
  BY <1>1, <1>3, MetricGateMeans DEF RunRecordAccepted
<1>6. p.outcome.status = "QUALIFIED" /\ q.outcome.status = "QUALIFIED"
  BY <1>1, MetricGateMeans
<1>7. ClassifySummary(SummarizeRun(p), "mechanism") = "functional"
  BY <1>5, <1>6 DEF ClassifySummary, SummarizeRun
<1>8. EnvironmentIdentity(p) = EnvironmentIdentity(q)
        => CompareRuns(p, q, AnySignalWithin(tolerance)) # "unknown"
  BY <1>1, MetricGateMeans, GatedRunsAreDecided
<1>9. \A x \in {p, q} : \A signal \in DOMAIN x.outcome.samples : x.outcome.samples[signal] \in Int
  BY <1>2, SamplesAreNumbers
<1>10. tolerance \in Nat /\ Comparable(<<p, q>>, MetricIds)
  BY MetricTolerancesAreNumbers DEF p, q
<1>11. CompareRuns(p, q, AnySignalWithin(tolerance)) \in Matches
         => ClassifyReport(BuildEvidenceReport(<<p, q>>, MetricIds, tolerance), "none") = "comparable"
  BY <1>5, <1>6, <1>9, <1>10, MetricMatches, ReportMeans
<1> QED BY <1>4, <1>7, <1>8, <1>11 DEF p, q

\* What a reader may compare was earned: through gates that all passed, by the code
\* of the commit the package names as long as nobody changed it; and the readers of
\* claims, of traces and of metrics agree (runtime.py:575-600, 1134,
\* reproducibility.py:229-268, postprocess.py:254).
THEOREM EligibleSound == ProvenanceSpec => []EligibleIsSound
BY EarnedInv, ComparableInv, MetricsInv, ProvenanceAlways, PTL DEF EligibleIsSound
=============================================================================
