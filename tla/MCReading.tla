----------------------------- MODULE MCReading -----------------------------
EXTENDS MetricEvidence

CONSTANTS v1, v2

Mapping(status, version) == [says |-> "mapping", status |-> status, version |-> version, settings |-> TRUE]
Solver == Mapping(None, TRUE)
Unversioned == Mapping("known", FALSE)
Silent == [says |-> "nothing", status |-> None, version |-> FALSE, settings |-> FALSE]

\* A reviewed adapter, and the ways another differs from it.
ReviewedAdapter ==
  [backend |-> TRUE, declared |-> TRUE, inside |-> TRUE, digest |-> "honest",
   review |-> "honest", registered |-> TRUE, namedAfterBackend |-> TRUE, parameters |-> TRUE,
   exported |-> TRUE]
Boaster == [ReviewedAdapter EXCEPT !.review = "reviewed"]
Outsider == [ReviewedAdapter EXCEPT !.inside = FALSE]
Pretender == [ReviewedAdapter EXCEPT !.backend = FALSE, !.digest = v1, !.review = "reviewed",
                                       !.exported = FALSE]
Plain == [ReviewedAdapter EXCEPT !.backend = FALSE, !.digest = NoDigest, !.review = None]

Stepped == [time_model |-> "stepped", control_location |-> "kernel", event_granularity |-> "window"]
Job(mode, adapter, solver) ==
  [mode |-> mode, adapter |-> adapter, solvers |-> {solver}, route |-> Stepped, experiment |-> 1]
MCJobs ==
  {Job("formal_comparison", a, Solver) : a \in {ReviewedAdapter, Boaster, Outsider, Pretender}}
  \cup {Job("formal_comparison", ReviewedAdapter, Unversioned),
        Job("exploratory", Plain, Silent)}

Good == [status |-> "QUALIFIED", level |-> "assessed", envelope |-> "inside", health |-> "clean",
         safe |-> TRUE, samples |-> [output |-> 10, duty |-> 5]]
MCOutcomes ==
  {Good, [Good EXCEPT !.samples.output = 12],
   [Good EXCEPT !.level = "partial", !.envelope = "left", 
                 !.samples = [output |-> 11, duty |-> 5, ripple |-> 1]],
   [Good EXCEPT !.status = "RUN_FAILED", !.level = "failed", !.safe = FALSE]}

MCMigrations == {<<1, 2>>, <<2, 3>>}
\* The version before this one was pinned; this one is, or is not yet.
MCHistories ==
  {<<[source |-> v2, pin |-> v2], [source |-> v1, pin |-> p]>> : p \in {v1, v2}}

\* One step of any signal; a fifth of the output and nothing else, which the
\* larger value allows and the smaller does not; and a policy the reader refuses.
OneStep == [absolute |-> 100, relative |-> 0, per_signal |-> << >>]
AFifth == [absolute |-> 0, relative |-> 0, per_signal |-> <<<<"output", 50, 18>>>>]
Twice == [AFifth EXCEPT !.per_signal = @ \o @]
MCTolerances == {OneStep, AFifth}
MCMetricTolerances == {0, 1}
ASSUME OneEntryPerSignal == ~PolicyAccepted(Twice)

Symmetry == Permutations(Runs)

\* A reader of the package's age, and readers that differ from it in one way.
Lenient == [requireEnvelope |-> FALSE, requireReviewed |-> FALSE, requireKnownBackend |-> FALSE]
Current == [schema |-> PackageSchema, policy |-> Lenient, trust |-> None, intact |-> TRUE]
MCAudience ==
  {Current, [Current EXCEPT !.intact = FALSE],
   [Current EXCEPT !.policy = [f \in DOMAIN Lenient |-> TRUE]]}
  \cup {[Current EXCEPT !.schema = s] : s \in {1, 3}}
  \cup {[Current EXCEPT !.trust = t] : t \in Trusts}
=============================================================================
