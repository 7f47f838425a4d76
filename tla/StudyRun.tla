------------------------------ MODULE StudyRun ------------------------------
(***************************************************************************)
(* pe-sim study (study_runner.py, study.py, cli.py): invocations of study  *)
(* plans, one after the other or at the same time, over one output         *)
(* directory.  An invocation writes the document of a point to             *)
(* points/pNN/config.json, has it executed by the ordinary run path, which *)
(* publishes runs/<study id>-pNN once and for ever, reads that package     *)
(* back, and after the last point replaces study-report.json.              *)
(*                                                                         *)
(* A step is one effect on the directory that others see.  What a run      *)
(* makes of its document, and what of its package is still intact when it  *)
(* is read, is one member of Products.                                     *)
(***************************************************************************)
EXTENDS Naturals, Sequences, FiniteSets

CONSTANTS
  N,         \* planned points of a study
  Studies,   \* invocations of pe-sim study
  NoStudy,
  Docs,      \* study documents
  NoDoc,
  IdOf,      \* study_id of a document
  PlantOf,   \* plant_id of a document
  KindOf,    \* kind of a document
  Launches,  \* which documents the invocations may be given
  Products,  \* what a run may leave behind
  Interruptible  \* the invocations that may be interrupted

Kinds == {"parameter_sweep", "sweep_with_statistics", "periodicity"}
Statuses == {"RUN_OK", "QUALIFIED", "RUN_FAILED"}
RUNTIME_EVIDENCE_LEVELS == 
  <<"diagnostic_only", "functional", "limited", "comparable">>
Levels == {RUNTIME_EVIDENCE_LEVELS[i] : i \in 1 .. 4}
\* samples: the trailing window repeats; it does not; there are no rows
\* seal: what a reader meets; route: the run mode and the three route values
Routes == {"first_route", "second_route"}
Product == [status: Statuses, level: Levels, route: Routes,
            samples: {"periodic", "drifting", "empty"},
            seal: {"whole", "altered", "manifest_lost", "samples_lost"}]

ASSUME StudyAssumption ==
  /\ N \in Nat \ {0} /\ NoStudy \notin Studies /\ NoDoc \notin Docs
  /\ KindOf \in [Docs -> Kinds] /\ Launches \subseteq [Studies -> Docs]
  /\ Products \subseteq Product

VARIABLES
  doc,      \* the document of an invocation
  config,   \* points/pNN/config.json: the document it was cut from
  package,  \* runs/<study id>-pNN: who published it, from which document
  report,   \* study-report.json
  pc,       \* where an invocation is
  executed, \* points it has committed to
  hand,     \* the point in hand: document read, directory named, exit code
  records,  \* the records of its points
  flags,    \* all_points_ok, converged, periodicity_failed
  code      \* its exit code
vars == <<doc, config, package, report, pc, executed, hand, records, flags, code>>

Point == 1 .. N
Ids == {IdOf[d] : d \in Docs}
RunIds == Ids \X Point
RunId(d, p) == <<IdOf[d], p>>
NoRun == <<>>
NoCode == 256  \* no exit status yet
NoPackage == [owner |-> NoStudy, doc |-> NoDoc, product |-> NoDoc]
Published(r) == package[r].owner # NoStudy
Ended == {"done", "raised", "interrupted"}

(***************************************************************************)
(* StudyPointRecord.  Its failure_reason is the first of its problems.     *)
(***************************************************************************)
ExecutionProblems == {"config_write", "executor", "exit_code", "run_dir"}
AnalysisProblems == {"manifest", "status", "identity", "samples", "statistics",
                     "periodicity"}
Undeclared == "undeclared"
Record(p, run, problems, status, level, route, compared) ==
  [point |-> p, run |-> run, problems |-> problems, status |-> status,
   level |-> level, route |-> route, compared |-> compared]
Failed(p, problem) == Record(p, NoRun, {problem}, "none", Undeclared, Undeclared, "no")
Ok(r) == r.problems = {}
Idle == [input |-> NoDoc, run |-> NoRun, exit |-> 0]

Init ==
  /\ doc \in Launches
  /\ config = [p \in Point |-> NoDoc]
  /\ package = [r \in RunIds |-> NoPackage]
  /\ report = NoDoc
  /\ pc = [s \in Studies |-> "loop"]
  /\ executed = [s \in Studies |-> 0]
  /\ hand = [s \in Studies |-> Idle]
  /\ records = [s \in Studies |-> <<>>]
  /\ flags = [s \in Studies |->
                [all_points_ok |-> TRUE, converged |-> FALSE,
                 periodicity_failed |-> FALSE]]
  /\ code = [s \in Studies |-> NoCode]

Goto(s, from, to) == pc[s] = from /\ pc' = [pc EXCEPT ![s] = to]
Periodicity(s) == KindOf[doc[s]] = "periodicity"

\* A study whose samples have converged skips the rest of its plan.
MorePoints(s) == executed[s] < N /\ ~(Periodicity(s) /\ flags[s].converged)

(***************************************************************************)
(* The next point is committed; its document is written and renamed into   *)
(* place, or that fails.                                                   *)
(***************************************************************************)
WriteConfig(s) ==
  /\ Goto(s, "loop", "execute")
  /\ MorePoints(s)
  /\ executed' = [executed EXCEPT ![s] = @ + 1]
  /\ config' = [config EXCEPT ![executed[s] + 1] = doc[s]]
  /\ UNCHANGED <<doc, package, report, hand, records, flags, code>>

\* Mutant of Flagged: an analysis problem does not fail the study.
FlaggedByExecution(f, r) ==
  [all_points_ok |-> f.all_points_ok /\ r.problems \cap ExecutionProblems = {},
   converged |-> f.converged \/ r.compared = "periodic",
   periodicity_failed |-> f.periodicity_failed \/ r.compared = "error"]

\* The flags after a point: a problem or an error is never taken back.
Flagged(f, r) ==
  [all_points_ok |-> f.all_points_ok /\ Ok(r),
   converged |-> f.converged \/ r.compared = "periodic",
   periodicity_failed |-> f.periodicity_failed \/ r.compared = "error"]

AppendRecord(s, r) ==
  /\ records' = [records EXCEPT ![s] = Append(@, r)]
  /\ flags' = [flags EXCEPT ![s] = Flagged(@, r)]

\* Mutant of ConfigFails: a point whose document cannot be written is forgotten.
ConfigForgotten(s) ==
  /\ Goto(s, "loop", "loop")
  /\ MorePoints(s)
  /\ executed' = [executed EXCEPT ![s] = @ + 1]
  /\ UNCHANGED <<doc, config, package, report, hand, records, flags, code>>

ConfigFails(s) ==
  /\ Goto(s, "loop", "loop")
  /\ MorePoints(s)
  /\ executed' = [executed EXCEPT ![s] = @ + 1]
  /\ AppendRecord(s, Failed(executed[s] + 1, "config_write"))
  /\ UNCHANGED <<doc, config, package, report, hand, code>>

(***************************************************************************)
(* _execute_experiment: the run path reads the document from disk again;   *)
(* it raises (the request is rejected, the run id is taken), or it         *)
(* publishes and returns.  Any other executor may return without a run     *)
(* directory.                                                              *)
(***************************************************************************)
ReadConfig(s) ==
  /\ Goto(s, "execute", "running")
  /\ hand' = [hand EXCEPT ![s] = [Idle EXCEPT !.input = config[executed[s]]]]
  /\ UNCHANGED <<doc, config, package, report, executed, records, flags, code>>

RunRaises(s) ==
  /\ Goto(s, "running", "loop")
  /\ AppendRecord(s, Failed(executed[s], "executor"))
  /\ hand' = [hand EXCEPT ![s] = Idle]
  /\ UNCHANGED <<doc, config, package, report, executed, code>>

Succeeded(status) == status \in {"RUN_OK", "QUALIFIED"}

\* Mutant of RunPublishes: the executor returns the package that is there instead of refusing.
RunReusesPackage(s) ==
  LET r == RunId(hand[s].input, executed[s]) IN
  /\ Goto(s, "running", "examine")
  /\ hand' = [hand EXCEPT ![s].run = r]
  /\ IF Published(r) THEN UNCHANGED package
     ELSE \E p \in Products :
       package' = [package EXCEPT ![r] =
                     [owner |-> s, doc |-> hand[s].input, product |-> p]]
  /\ UNCHANGED <<doc, config, report, executed, records, flags, code>>

RunPublishes(s) ==
  LET r == RunId(hand[s].input, executed[s]) IN
  /\ Goto(s, "running", "examine")
  /\ ~Published(r)
  /\ \E p \in Products :
       /\ package' = [package EXCEPT ![r] =
                        [owner |-> s, doc |-> hand[s].input, product |-> p]]
       /\ hand' = [hand EXCEPT ![s] =
                     [@ EXCEPT !.run = r, !.exit = IF Succeeded(p.status) THEN 0 ELSE 1]]
  /\ UNCHANGED <<doc, config, report, executed, records, flags, code>>

RunLeavesNothing(s) ==
  /\ Goto(s, "running", "examine")
  /\ \E exit \in {0, 1} : hand' = [hand EXCEPT ![s] = [@ EXCEPT !.exit = exit]]
  /\ UNCHANGED <<doc, config, package, report, executed, records, flags, code>>

ExitProblems(s) == {x \in {"exit_code"} : hand[s].exit # 0}

NoRunDir(s) ==
  /\ Goto(s, "examine", "loop")
  /\ hand[s].run = NoRun
  /\ AppendRecord(s, [Failed(executed[s], "run_dir")
                        EXCEPT !.problems = @ \cup ExitProblems(s)])
  /\ hand' = [hand EXCEPT ![s] = Idle]
  /\ UNCHANGED <<doc, config, package, report, executed, code>>

(***************************************************************************)
(* _manifest_identity_problem: the manifest names the planned run and      *)
(* plant, and its digests fit the contents.                                *)
(***************************************************************************)
HasIdentity(k, d, p) ==
  /\ RunId(k.doc, p) = RunId(d, p)
  /\ PlantOf[k.doc] = PlantOf[d]
  /\ k.product.seal = "whole"

\* _point_periodicity: no rows, or no samples, is a comparison error.
Comparison(k, d) ==
  IF KindOf[d] # "periodicity" THEN "no"
  ELSE IF k.product.seal = "samples_lost" \/ k.product.samples = "empty" THEN "error"
  ELSE k.product.samples

ProblemsOf(k, d, p) ==
  LET m == k.product IN
  {x \in AnalysisProblems :
     \/ x = "manifest" /\ m.seal = "manifest_lost"
     \/ x = "status" /\ m.seal # "manifest_lost" /\ ~Succeeded(m.status)
     \/ x = "identity" /\ m.seal # "manifest_lost" /\ ~HasIdentity(k, d, p)
     \/ x = "samples" /\ m.seal = "samples_lost"
     \/ x = "statistics" /\ m.seal # "samples_lost" /\ m.samples = "empty"
                         /\ KindOf[d] = "sweep_with_statistics"
     \/ x = "periodicity" /\ Comparison(k, d) = "error"}

Examined(s) ==
  LET k == package[hand[s].run]
      lost == k.product.seal = "manifest_lost"
  IN Record(executed[s], hand[s].run,
            ExitProblems(s) \cup ProblemsOf(k, doc[s], executed[s]),
            IF lost THEN "none" ELSE k.product.status,
            IF lost THEN Undeclared ELSE k.product.level,
            IF lost THEN Undeclared ELSE k.product.route,
            Comparison(k, doc[s]))

Examine(s) ==
  /\ Goto(s, "examine", "loop")
  /\ hand[s].run # NoRun
  /\ AppendRecord(s, Examined(s))
  /\ hand' = [hand EXCEPT ![s] = Idle]
  /\ UNCHANGED <<doc, config, package, report, executed, code>>

(***************************************************************************)
(* aggregate_study: cross_point_comparability, its reasons, and            *)
(* inherited_ceiling.  A manifest names all of its identity or, when it    *)
(* cannot be read, nothing of it.                                          *)
(***************************************************************************)
DuplicatePoints(rs) ==
  \E i \in DOMAIN rs :
    \/ rs[i].run = NoRun
    \/ \E j \in DOMAIN rs \ {i} : rs[i].run = rs[j].run \/ rs[i].point = rs[j].point
RoutesOf(rs) == {rs[i].route : i \in DOMAIN rs}

Claimed(rs) ==
  /\ Len(rs) >= 2
  /\ \A i \in DOMAIN rs : /\ Ok(rs[i])
                          /\ rs[i].status = "QUALIFIED"
                          /\ rs[i].level = "comparable"
  /\ ~DuplicatePoints(rs)
  /\ \E route \in Routes : RoutesOf(rs) = {route}

\* comparability_reasons: what the report lists when it claims nothing.
ReasonNames == {
  "empty_study", "single_point_study", "duplicate_points", "point_identity_incomplete",
  "point_execution_failed", "point_analysis_failed", "point_not_qualified",
  "points_not_all_comparable", "point_route_not_declared", "route_identity_differs",
  "point_evidence_level_not_declared"}

\* Mutant of ReasonHolds: the routes of the points are not compared.
ReasonIfUndeclared(x, rs) ==
  CASE x = "single_point_study" -> Len(rs) = 1
    [] x \in {"point_execution_failed", "point_analysis_failed"} -> \E i \in DOMAIN rs : ~Ok(rs[i])
    [] x = "point_not_qualified" -> \E i \in DOMAIN rs : rs[i].status # "QUALIFIED"
    [] x = "points_not_all_comparable" -> \E i \in DOMAIN rs : rs[i].level # "comparable"
    [] x = "route_identity_differs" -> Undeclared \in RoutesOf(rs)
    [] OTHER -> FALSE

ReasonHolds(x, rs) ==
  CASE x = "empty_study" -> rs = <<>>
    [] x = "single_point_study" -> Len(rs) = 1
    [] x = "duplicate_points" -> DuplicatePoints(rs)
    [] x \in {"point_identity_incomplete", "point_route_not_declared"} -> Undeclared \in RoutesOf(rs)
    [] x = "route_identity_differs" -> \/ Undeclared \in RoutesOf(rs)
                                       \/ \E i, j \in DOMAIN rs : rs[i].route # rs[j].route
    [] x = "point_execution_failed" -> \E i \in DOMAIN rs : rs[i].problems \cap ExecutionProblems # {}
    [] x = "point_analysis_failed" -> \E i \in DOMAIN rs : rs[i].problems \cap AnalysisProblems # {}
    [] x = "point_not_qualified" -> \E i \in DOMAIN rs : rs[i].status # "QUALIFIED"
    [] x = "points_not_all_comparable" -> \E i \in DOMAIN rs : rs[i].level # "comparable"
    [] x = "point_evidence_level_not_declared" -> \E i \in DOMAIN rs : rs[i].level = Undeclared

Weaker(a, b) ==
  \E i, j \in 1 .. 4 : /\ i <= j /\ b = RUNTIME_EVIDENCE_LEVELS[j]
                       /\ a = RUNTIME_EVIDENCE_LEVELS[i]
\* Mutant of LevelOf: a point that declares no level does not lower the ceiling.
LevelIfDeclared(r) == IF r.level = Undeclared THEN "comparable" ELSE r.level

LevelOf(r) == IF r.level = Undeclared THEN "diagnostic_only" ELSE r.level
Ceiling(rs) ==
  LET published == {LevelOf(rs[i]) : i \in DOMAIN rs}
  IN IF rs = <<>> THEN RUNTIME_EVIDENCE_LEVELS[1]
     ELSE CHOOSE l \in published : \A m \in published : Weaker(l, m)

\* A comparison error is not erased by a later point that converges.
Converged(f) == f.converged /\ ~f.periodicity_failed

ExitCode(s) ==
  IF flags[s].all_points_ok /\ (Periodicity(s) => Converged(flags[s])) THEN 0 ELSE 1

Report(s) ==
  [by |-> s, points |-> records[s], skipped |-> (executed[s] + 1) .. N,
   converged |-> Converged(flags[s]), claimed |-> Claimed(records[s]),
   ceiling |-> Ceiling(records[s])]

WriteReport(s) ==
  /\ Goto(s, "loop", "done")
  /\ ~MorePoints(s)
  /\ report' = Report(s)
  /\ code' = [code EXCEPT ![s] = ExitCode(s)]
  /\ UNCHANGED <<doc, config, package, executed, hand, records, flags>>

ReportFails(s) ==
  /\ Goto(s, "loop", "raised")
  /\ ~MorePoints(s)
  /\ UNCHANGED <<doc, config, package, report, executed, hand, records, flags, code>>

\* KeyboardInterrupt is not caught: no report, and the packages stay.
Interrupt(s) ==
  /\ s \in Interruptible
  /\ pc[s] \notin Ended
  /\ pc' = [pc EXCEPT ![s] = "interrupted"]
  /\ UNCHANGED <<doc, config, package, report, executed, hand, records, flags, code>>

Step(s) ==
  \/ WriteConfig(s) \/ ConfigFails(s)
  \/ ReadConfig(s) \/ RunRaises(s) \/ RunPublishes(s) \/ RunLeavesNothing(s)
  \/ NoRunDir(s) \/ Examine(s)
  \/ WriteReport(s) \/ ReportFails(s)

Next == \E s \in Studies : Step(s) \/ Interrupt(s)

Spec == Init /\ [][Next]_vars

-----------------------------------------------------------------------------

PackageType == [owner: Studies \cup {NoStudy}, doc: Docs, product: Product]
RecordType ==
  [point: Point, run: RunIds \cup {NoRun},
   problems: SUBSET (ExecutionProblems \cup AnalysisProblems),
   status: Statuses \cup {"none"}, level: Levels \cup {Undeclared},
   route: Routes \cup {Undeclared},
   compared: {"no", "error", "periodic", "drifting"}]
HandType == [input: Docs \cup {NoDoc}, run: RunIds \cup {NoRun}, exit: {0, 1}]
FlagType == [all_points_ok: BOOLEAN, converged: BOOLEAN, periodicity_failed: BOOLEAN]

\* The types of the state; the report is typed through the records it copies.
TypeOK ==
  /\ doc \in [Studies -> Docs]
  /\ config \in [Point -> Docs \cup {NoDoc}]
  /\ package \in [RunIds -> PackageType \cup {NoPackage}]
  /\ pc \in [Studies -> {"loop", "execute", "running", "examine"} \cup Ended]
  /\ executed \in [Studies -> 0 .. N]
  /\ hand \in [Studies -> HandType]
  /\ records \in [Studies -> Seq(RecordType)]
  /\ flags \in [Studies -> FlagType]
  /\ code \in [Studies -> {NoCode, 0, 1}]

(***************************************************************************)
(* A point that counts as evidence is a package that this very invocation  *)
(* had published, under the planned run id and by the planned plant; no    *)
(* package, stale or of an invocation that works in the same directory at  *)
(* the same time, is counted in its place (docs/releases/v0.16.0.md,       *)
(* "Study evidence integrity").                                            *)
(***************************************************************************)
OkIsOwnRun ==
  \A s \in Studies : \A i \in DOMAIN records[s] :
    LET r == records[s][i] IN
    Ok(r) => /\ r.run = RunId(doc[s], r.point)
             /\ package[r.run].owner = s
             /\ PlantOf[package[r.run].doc] = PlantOf[doc[s]]

(***************************************************************************)
(* Exit code 0: every planned point has its own intact, successful package *)
(* on disk; only a periodicity study may lack the points behind the first  *)
(* one that converged, and it must have one.                               *)
(***************************************************************************)
HoldsEvidence(s, p) ==
  LET k == package[RunId(doc[s], p)] IN
  k.owner = s /\ k.product.seal = "whole" /\ Succeeded(k.product.status)
ShowsRepetition(s, p) ==
  HoldsEvidence(s, p) /\ package[RunId(doc[s], p)].product.samples = "periodic"
ExitZeroIsWhole ==
  \A s \in Studies : code[s] = 0 =>
    \E last \in Point :
      /\ \A p \in 1 .. last : HoldsEvidence(s, p)
      /\ IF Periodicity(s)
         THEN \A p \in 1 .. last : ShowsRepetition(s, p) <=> p = last
         ELSE last = N

(***************************************************************************)
(* A published report says "converged" only if some point converged and no *)
(* point's comparison failed, in whatever order the two happened (comment  *)
(* at study_runner.py:301).                                                *)
(***************************************************************************)
ErrorIsNotErased ==
  report # NoDoc /\ report.converged =>
    /\ \E i \in DOMAIN report.points : report.points[i].compared = "periodic"
    /\ \A i \in DOMAIN report.points : report.points[i].compared # "error"

(***************************************************************************)
(* Cross-point comparability is claimed only over packages of this study   *)
(* that are on disk, intact, QUALIFIED and comparable, at least two of     *)
(* them, all by one route (aggregate_study; docs/releases/v0.16.0.md).     *)
(***************************************************************************)
ClaimNeedsEvidence ==
  report # NoDoc /\ report.claimed =>
    LET s == report.by IN
    /\ N - 2 >= Cardinality(report.skipped)
    /\ \A p \in Point \ report.skipped :
         /\ HoldsEvidence(s, p)
         /\ package[RunId(doc[s], p)].product.status = "QUALIFIED"
         /\ package[RunId(doc[s], p)].product.level = "comparable"
         /\ \A q \in Point \ report.skipped :
              package[RunId(doc[s], p)].product.route = package[RunId(doc[s], q)].product.route

(***************************************************************************)
(* The inherited ceiling is never above the level of a package that a      *)
(* point names, and is the lowest one if a point names none or its         *)
(* manifest cannot be read (ADR 0005, implementation note 2).              *)
(***************************************************************************)
CeilingIsWeakest ==
  report # NoDoc =>
    \A i \in DOMAIN report.points :
      LET run == report.points[i].run IN
      IF run = NoRun \/ package[run].product.seal = "manifest_lost"
      THEN report.ceiling = "diagnostic_only"
      ELSE Weaker(report.ceiling, package[run].product.level)

(***************************************************************************)
(* A published report that claims nothing says why, and one that claims    *)
(* has no reason against it; the reasons follow from its points            *)
(* (aggregate_study).                                                      *)
(***************************************************************************)
ReasonsExplain ==
  report # NoDoc =>
    (report.claimed <=> \A x \in ReasonNames : ~ReasonHolds(x, report.points))

(***************************************************************************)
(* The aggregate of a published report claims no more than its packages    *)
(* hold, and says why it does not claim more (aggregate_study; ADR 0005).  *)
(***************************************************************************)
AggregateIsHonest == ClaimNeedsEvidence /\ CeilingIsWeakest /\ ReasonsExplain

\* The abstract view of an invocation: see StudyLedger.
Fate(s, p) ==
  IF p > Len(records[s]) THEN "planned"
  ELSE IF Ok(records[s][p]) THEN "ok" ELSE "failed"
Verdict(s) ==
  IF pc[s] \in {"raised", "interrupted"} THEN "lost"
  ELSE IF pc[s] # "done" THEN "none"
  ELSE IF code[s] = 0 THEN "pass" ELSE "fail"
Ledger == INSTANCE StudyLedger
  WITH fate <- [s \in Studies |-> [p \in Point |-> Fate(s, p)]],
       verdict <- [s \in Studies |-> Verdict(s)]
(***************************************************************************)
(* The invocation keeps the promise of StudyLedger: points in order, each  *)
(* once, none forgotten, and a verdict that fits them.                     *)
(***************************************************************************)
LedgerSpec == Ledger!Spec
=============================================================================
