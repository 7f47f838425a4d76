--------------------------- MODULE MetricEvidence ---------------------------
(***************************************************************************)
(* The other reader of published packages: registered metrics computed     *)
(* from them, compared across them, and the evidence level such a summary  *)
(* or report is given (postprocess.py, evidence.py).                       *)
(***************************************************************************)
EXTENDS Reading

CONSTANT MetricTolerances   \* how far apart the values of a metric may be

ASSUME MetricTolerancesAreNumbers == MetricTolerances \subseteq Nat

Matches == {"exact_match", "tolerance_match"}

\* _check_package: a gate of its own, stricter than that of compare_runs.
\* (A gate that leaves the tree and its commit to the producer.)
EligibleIfQualified(p, intact) ==
  p.outcome.status = "QUALIFIED" /\ p.outcome.level # "failed" /\ p.outcome.safe /\ intact
PackageEligible(p, intact) ==
  /\ p.outcome.status = "QUALIFIED" /\ p.gitStatus = "clean" /\ p.commit # None
  /\ \A b \in p.backends : /\ b.status \in {"known", "not_declared", "not_assessed"}
                           /\ b.status = "known" => b.version
  /\ p.backends # {} /\ p.exportable
  /\ p.outcome.level # "failed" /\ p.outcome.safe /\ intact

SampleFields(p) == DOMAIN p.outcome.samples

\* The registry: what a metric reads of the samples, "" for their number.
DefaultMetricRegistry ==
  [m \in {"samples.count", "series.vout.final", "series.action.final"} |->
     CASE m = "samples.count" -> ""
       [] m = "series.vout.final" -> "output"
       [] m = "series.action.final" -> "duty"]
MetricFields(m) == {DefaultMetricRegistry[m]} \ {""}
Metric(m, p) == IF MetricFields(m) = {} THEN 1 ELSE p.outcome.samples[DefaultMetricRegistry[m]]

\* Ids are resolved, and no two alike, before anything is computed.
Computable(ids, ps) ==
  /\ ids # << >> /\ Cardinality({ids[i] : i \in DOMAIN ids}) = Len(ids)
  /\ \A i \in DOMAIN ids :
       /\ ids[i] \in DOMAIN DefaultMetricRegistry
       /\ \A j \in DOMAIN ps : MetricFields(ids[i]) \subseteq SampleFields(ps[j])

-----------------------------------------------------------------------------
\* Without these a comparison raises and leaves no report.
Comparable(ps, ids) ==
  /\ Len(ps) >= 2
  /\ \A i \in DOMAIN ps : PackageEligible(ps[i], TRUE)
  /\ Cardinality({SampleFields(ps[i]) : i \in DOMAIN ps}) = 1
  /\ Computable(ids, ps)

Spread(m, ps) ==
  LET distances == {Distance(Metric(m, ps[x[1]]), Metric(m, ps[x[2]])) :
                      x \in (DOMAIN ps) \X (DOMAIN ps)}
  IN CHOOSE d \in distances : \A e \in distances : e <= d

MetricOutcome(m, ps, tolerance) ==
  CASE Spread(m, ps) = 0 -> "exact_match"
    [] Spread(m, ps) \in 1 .. tolerance -> "tolerance_match"
    [] Spread(m, ps) > tolerance -> "mismatch"

CompareMetricRuns(ps, ids, tolerance) ==
  LET outcomes == {MetricOutcome(ids[i], ps, tolerance) : i \in DOMAIN ids}
  IN CASE "mismatch" \in outcomes -> "mismatch"
       [] "mismatch" \notin outcomes /\ "tolerance_match" \in outcomes -> "tolerance_match"
       [] OTHER -> "exact_match"

\* The report carries the runs twice: its own list and that of the comparison.
BuildEvidenceReport(ps, ids, tolerance) ==
  [runs |-> ps, compared |-> ps, described |-> TRUE,
   outcome |-> CompareMetricRuns(ps, ids, tolerance)]

\* What summarize_run writes of a package it accepts.
SummarizeRun(p) == [run |-> p, described |-> TRUE, dataset |-> TRUE]

-----------------------------------------------------------------------------
\* evidence.py works on documents, wherever they are from.  A run record that is
\* not of a clean tree with known provenance is refused.
RunRecordAccepted(p) ==
  p.gitStatus = "clean" /\ p.commit # None /\ p.environment \in {"known", "partial"}

ClassifySummary(summary, requested) ==
  LET level == IF requested = "mechanism" THEN "functional" ELSE requested
  IN CASE \/ level \notin {"functional", "diagnostic_only"}
          \/ ~RunRecordAccepted(summary.run) \/ ~summary.dataset -> "refused"
       [] OTHER -> IF summary.described /\ summary.run.outcome.status = "QUALIFIED"
                   THEN level ELSE "diagnostic_only"

ClassifyReport(report, requested) ==
  LET accepted == /\ requested \in {"none", "comparable", "limited", "diagnostic_only"}
                  /\ report.runs # << >>
                  /\ \A i \in DOMAIN report.runs : RunRecordAccepted(report.runs[i])
      qualified == \A i \in DOMAIN report.runs : report.runs[i].outcome.status = "QUALIFIED"
      supported == /\ qualified /\ report.described
                   /\ report.runs = report.compared /\ report.outcome \in Matches
  IN CASE ~accepted -> "refused"
       [] accepted /\ (requested = "diagnostic_only" \/ ~qualified) -> "diagnostic_only"
       [] OTHER -> IF supported /\ requested # "limited" THEN "comparable" ELSE "limited"

-----------------------------------------------------------------------------
MetricIds == <<"samples.count", "series.vout.final", "series.action.final">>

\* The policy that allows every signal what a report allows a metric.
AnySignalWithin(tolerance) ==
  [absolute |-> 100 * tolerance, relative |-> 0, per_signal |-> << >>]

\* The reader of metrics has gates of its own (postprocess.py:254, evidence.py:40).
\* What it summarises as functional, or reports as comparable, is code of the named
\* commit unless the sources moved; compare_runs refuses none of it on one machine;
\* and runs that match in every sample match in every metric.
MetricsAreSound ==
  \A r, s \in Published : \A tolerance \in MetricTolerances :
    \A ps \in {<<runs[r].package, runs[s].package>>} :
      Comparable(ps, MetricIds) =>
        LET verdict == CompareRuns(ps[1], ps[2], AnySignalWithin(tolerance))
            report == BuildEvidenceReport(ps, MetricIds, tolerance)
        IN /\ ClassifySummary(SummarizeRun(ps[1]), "mechanism") = "functional"
           /\ runs[r].codeSteady /\ runs[r].worktree = "clean"
                => commits[ps[1].commit].source = runs[r].loaded
           /\ EnvironmentIdentity(ps[1]) = EnvironmentIdentity(ps[2]) => verdict # "unknown"
           /\ verdict \in Matches => ClassifyReport(report, "none") = "comparable"

\* All three: what a reader may compare was earned, and the readers agree on it.
EligibleIsSound == EligibleIsEarned /\ EligibleIsComparable /\ MetricsAreSound
=============================================================================
