------------------------------ MODULE TimeModel ------------------------------
(***************************************************************************)
(* Who owns the clock, what a trace must look like, and how much a package *)
(* may claim (time_model.py, and _derive_evidence_level of runtime.py).    *)
(***************************************************************************)
EXTENDS Integers, Sequences

TimeModels == {"stepped", "whole_run"}
ControlLocations == {"kernel", "model"}
EventGranularities == {"window", "continuous"}

\* RouteCapabilities refuses the one contradictory combination.
RouteCapabilities ==
  {r \in [time_model : TimeModels, control_location : ControlLocations,
          event_granularity : EventGranularities] :
     ~(r.time_model = "whole_run" /\ r.control_location = "kernel")}

RUNTIME_EVIDENCE_LEVELS == <<"diagnostic_only", "functional", "limited", "comparable">>
EvidenceLevels == {RUNTIME_EVIDENCE_LEVELS[i] : i \in 1 .. 4}
EvidenceRank(level) == CHOOSE i \in 1 .. 4 : RUNTIME_EVIDENCE_LEVELS[i] = level

EvidenceCap(r) ==
  IF r.time_model = "stepped" /\ r.control_location = "kernel" THEN "comparable" ELSE "limited"
CapEvidenceLevel(level, r) ==
  IF EvidenceRank(level) <= EvidenceRank(EvidenceCap(r)) THEN level ELSE EvidenceCap(r)

RouteLimitations(r) ==
  (IF r.time_model = "whole_run"
   THEN {"in_run_enforcement_unavailable", "post_hoc_validation_only"} ELSE {})
  \cup (IF r.control_location = "model" THEN {"actuator_control_in_model"} ELSE {})
  \cup (IF r.event_granularity = "window" THEN {"events_quantized_to_control_windows"} ELSE {})

FormalComparisonAllowed(timeModel) == timeModel = "stepped"

\* The facts a comparable claim rests on.
Facts == [clean : BOOLEAN, environmentKnown : BOOLEAN, reviewed : BOOLEAN, verified : BOOLEAN]

DeriveEvidenceLevel(status, mode, facts, level, r) ==
  CASE status \notin {"RUN_OK", "QUALIFIED"} -> "diagnostic_only"
    [] status \in {"RUN_OK", "QUALIFIED"} /\ mode # "formal_comparison" ->
         CapEvidenceLevel("functional", r)
    [] OTHER ->
         IF ~(facts.clean /\ facts.environmentKnown /\ facts.reviewed /\ facts.verified)
         THEN CapEvidenceLevel("limited", r)
         ELSE IF level = "failed" THEN "diagnostic_only"
         ELSE IF level = "partial" THEN CapEvidenceLevel("limited", r)
         ELSE CapEvidenceLevel("comparable", r)

-----------------------------------------------------------------------------
\* A trace: whether it has the declared type, its time axis in ticks, whether
\* the values are finite, and the lengths of its signals.
AxisProblems(times, contract, duration) ==
  LET late(i) == times[i] <= times[i - 1]
      wide(i) == times[i] - times[i - 1] > contract.cadence + contract.tolerance
  IN {"not_increasing" : i \in {j \in 2 .. Len(times) : late(j)}}
     \cup {"gap" : i \in {j \in 2 .. Len(times) : wide(j)}}
     \cup (IF times[1] < -contract.tolerance THEN {"early_start"} ELSE {})
     \cup (IF times[1] > contract.tolerance THEN {"late_start"} ELSE {})
     \cup (IF times[Len(times)] < duration - contract.tolerance THEN {"short_end"} ELSE {})
     \cup (IF times[Len(times)] > duration + contract.tolerance THEN {"overrun"} ELSE {})

\* validate_whole_run_result reports every problem at once.
TraceProblems(t, contract, duration) ==
  IF ~t.typed THEN {"not_a_result"}
  ELSE (IF Len(t.times) = 0 THEN {"no_samples"}
        ELSE IF ~t.finite THEN {"not_finite"}
        ELSE AxisProblems(t.times, contract, duration))
       \cup (IF t.lengths = {} THEN {"no_signals"} ELSE {})
       \cup {"misaligned" : n \in t.lengths \ {Len(t.times)}}
=============================================================================
