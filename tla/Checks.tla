------------------------------- MODULE Checks -------------------------------
(***************************************************************************)
(* Check reports and what follows from them (checks.py, qualification.py): *)
(* findings with a severity, reports with an optional level of their own,  *)
(* the merging of the reports of a chain, a plugin that raises or that     *)
(* contradicts itself, and the qualification document.                     *)
(***************************************************************************)
EXTENDS FiniteSets

CONSTANTS Raised,   \* the result of a plugin that raises
          Absent    \* the result of a plugin without a method for the phase

Severities == {"info", "warning", "error", "fatal"}
Finding == [severity : Severities, passed : BOOLEAN, stop : BOOLEAN]
CheckLevels == {"assessed", "partial", "failed"}
Report == [passed : BOOLEAN, findings : SUBSET Finding, level : CheckLevels \cup {"none"}]

ReportOk == [passed |-> TRUE, findings |-> {}, level |-> "none"]

\* An error or fatal finding blocks, whatever its stop flag says; a warning
\* blocks only when it asks for it.
FindingBlocks(f) == ~f.passed /\ (f.stop \/ f.severity \in {"error", "fatal"})
Blocking(r) == \E f \in r.findings : FindingBlocks(f)

\* A level that a report states for itself wins over what its findings say.
EffectiveLevel(r) ==
  CASE r.level # "none" -> r.level
    [] r.level = "none" /\ (Blocking(r) \/ ~r.passed) -> "failed"
    [] r.level = "none" /\ ~Blocking(r) /\ r.passed ->
         IF \E f \in r.findings : f.severity = "warning" THEN "partial" ELSE "assessed"

WorstLevel(levels) ==
  CASE "failed" \in levels -> "failed"
    [] "failed" \notin levels /\ "partial" \in levels -> "partial"
    [] "failed" \notin levels /\ "partial" \notin levels /\ "assessed" \in levels -> "assessed"
    [] OTHER -> "none"

\* CheckReport.merge over the reports of a chain; the order does not matter.
Merged(reports) ==
  LET findings == UNION {r.findings : r \in reports}
  IN [passed |-> ~\E f \in findings : FindingBlocks(f),
      findings |-> findings,
      level |-> WorstLevel({r.level : r \in reports})]

\* normalise_check_result refuses a report that contradicts its own findings.
Consistent(r) ==
  /\ r.passed \/ r.findings # {}
  /\ r.passed <=> ~Blocking(r)

\* The report put in the place of a plugin that raised.
CheckerError ==
  [passed |-> FALSE, level |-> "none",
   findings |-> {[severity |-> "error", passed |-> FALSE, stop |-> FALSE]}]

\* run_plugin: the result is Absent, Raised, or a report; the run fails when a
\* report contradicts itself.
ChainRaises(results) == \E r \in results : r \notin {Raised, Absent} /\ ~Consistent(r)
RunPlugin(result) ==
  CASE result = Raised -> CheckerError
    [] result = Absent -> ReportOk
    [] OTHER -> result
RunPlugins(results) == Merged({ReportOk} \cup {RunPlugin(r) : r \in results})

\* qualification_document of a report, or of a run that failed before.
QualificationDocument(r) ==
  [level |-> EffectiveLevel(r), passed |-> EffectiveLevel(r) # "failed"]
FailedDocument == [level |-> "failed", passed |-> FALSE]

\* BasicQualificationPlugin and qualify_samples: rows that exist and are finite.
BasicQualification(rows) ==
  IF rows = "finite" THEN ReportOk
  ELSE [ReportOk EXCEPT !.passed = FALSE, !.findings =
          {[severity |-> "error", passed |-> FALSE, stop |-> FALSE]}]
=============================================================================
