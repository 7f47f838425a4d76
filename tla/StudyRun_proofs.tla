-------------------------- MODULE StudyRun_proofs --------------------------
(***************************************************************************)
(* Proofs about StudyRun, for any number of invocations, points and        *)
(* documents, and whatever runs leave behind.                              *)
(***************************************************************************)
EXTENDS StudyRun, FiniteSetTheorems, TLAPS

Middle == {"execute", "running", "examine"}

(***************************************************************************)
(* What an invocation holds while a point is on its way: a document that   *)
(* was written, and later the directory of its own run.                    *)
(***************************************************************************)
HandOK(s) ==
  /\ pc[s] \in Middle => executed[s] \in Point
  /\ pc[s] = "execute" => config[executed[s]] \in Docs
  /\ pc[s] = "running" => hand[s].input \in Docs /\ hand[s].run = NoRun
  /\ pc[s] = "examine" /\ hand[s].run # NoRun =>
       /\ package[hand[s].run].owner = s
       /\ hand[s].run = RunId(package[hand[s].run].doc, executed[s])

TypeInv == TypeOK /\ \A s \in Studies : HandOK(s)

-----------------------------------------------------------------------------
\* Facts about the data.

\* The run id of a planned point is one of the run ids.
LEMMA RunIdType == \A d \in Docs, p \in Point : RunId(d, p) \in RunIds
  BY DEF RunId, RunIds, Ids

\* A directory that somebody published holds a package.
LEMMA PublishedType ==
  ASSUME TypeOK, NEW r \in RunIds, Published(r)
  PROVE  package[r] \in PackageType /\ package[r].product \in Product
  BY DEF TypeOK, Published, PackageType, NoPackage

\* A record of a point that never produced a package.
LEMMA FailedType ==
  ASSUME NEW p \in Point, NEW x \in ExecutionProblems
  PROVE  Failed(p, x) \in RecordType
  BY DEF Failed, Record, RecordType, NoRun, Undeclared

\* The record of a point whose package was read.
LEMMA ExaminedType ==
  ASSUME TypeInv, NEW s \in Studies, pc[s] = "examine", hand[s].run # NoRun
  PROVE  /\ Examined(s) \in RecordType
         /\ package[hand[s].run] \in PackageType
         /\ package[hand[s].run].product \in Product
<1> DEFINE k == package[hand[s].run]
<1>1. hand[s].run \in RunIds /\ Published(hand[s].run)
  BY StudyAssumption DEF TypeInv, TypeOK, HandType, HandOK, Published
<1>2. k \in PackageType /\ k.product \in Product
  BY <1>1, PublishedType DEF TypeInv
<1>3. executed[s] \in Point
  BY DEF TypeInv, HandOK, Middle
<1>4. ExitProblems(s) \cup ProblemsOf(k, doc[s], executed[s])
        \in SUBSET (ExecutionProblems \cup AnalysisProblems)
  BY DEF ExitProblems, ProblemsOf, ExecutionProblems
<1>5. Comparison(k, doc[s]) \in {"no", "error", "periodic", "drifting"}
  BY <1>2 DEF Comparison, Product
<1>6. /\ k.product.status \in Statuses \cup {"none"}
      /\ k.product.level \in Levels \cup {Undeclared}
      /\ k.product.route \in Routes \cup {Undeclared}
  BY <1>2 DEF Product
<1>7. Examined(s) \in RecordType
  BY <1>1, <1>3, <1>4, <1>5, <1>6 DEF Examined, Record, RecordType
<1> QED BY <1>2, <1>7

\* What a point does to the flags keeps them Boolean.
LEMMA FlaggedType ==
  ASSUME NEW f \in FlagType, NEW r
  PROVE  Flagged(f, r) \in FlagType
  BY DEF Flagged, FlagType, Ok

\* The three flags after a point.
LEMMA FlaggedFields ==
  ASSUME NEW f \in FlagType, NEW r
  PROVE  /\ Flagged(f, r).all_points_ok <=> f.all_points_ok /\ Ok(r)
         /\ Flagged(f, r).converged <=> f.converged \/ r.compared = "periodic"
         /\ Flagged(f, r).periodicity_failed <=>
              f.periodicity_failed \/ r.compared = "error"
<1>1. Flagged(f, r).all_points_ok = (f.all_points_ok /\ Ok(r))
  BY Zenon DEF Flagged
<1>2. Flagged(f, r).converged = (f.converged \/ r.compared = "periodic")
  BY Zenon DEF Flagged
<1>3. Flagged(f, r).periodicity_failed =
        (f.periodicity_failed \/ r.compared = "error")
  BY Zenon DEF Flagged
<1> QED BY <1>1, <1>2, <1>3, Zenon

LEMMA AppendType ==
  ASSUME TypeOK, NEW s \in Studies, NEW r \in RecordType, AppendRecord(s, r)
  PROVE  /\ records' \in [Studies -> Seq(RecordType)]
         /\ flags' \in [Studies -> FlagType]
<1>1. Flagged(flags[s], r) \in FlagType
  BY FlaggedType DEF TypeOK
<1> QED BY <1>1 DEF TypeOK, AppendRecord

-----------------------------------------------------------------------------
\* The type invariant.

LEMMA TypeInvInit == Init => TypeInv
<1> SUFFICES ASSUME Init PROVE TypeInv OBVIOUS
<1>1. doc \in [Studies -> Docs]
  BY StudyAssumption DEF Init
<1>2. records \in [Studies -> Seq(RecordType)]
  BY DEF Init
<1>3. flags \in [Studies -> FlagType]
  BY DEF Init, FlagType
<1>4. hand \in [Studies -> HandType]
  BY DEF Init, HandType, Idle
<1>5. package \in [RunIds -> PackageType \cup {NoPackage}]
  BY DEF Init
<1>6. TypeOK
  BY <1>1, <1>2, <1>3, <1>4, <1>5, StudyAssumption DEF Init, TypeOK
<1>7. \A s \in Studies : HandOK(s)
  BY DEF Init, HandOK, Middle
<1> QED BY <1>6, <1>7 DEF TypeInv

LEMMA TypeInvStep == TypeInv /\ [Next]_vars => TypeInv'
<1> SUFFICES ASSUME TypeInv, [Next]_vars PROVE TypeInv'
  OBVIOUS
<1> USE StudyAssumption
<1>1. CASE UNCHANGED vars
  BY <1>1 DEF TypeInv, TypeOK, HandOK, vars, Published, RunId
<1>2. ASSUME NEW s \in Studies, WriteConfig(s)
      PROVE  TypeInv'
  <2>1. executed[s] + 1 \in Point /\ executed[s] + 1 \in 0 .. N
    BY <1>2 DEF WriteConfig, MorePoints, TypeInv, TypeOK, Point
  <2>2. config' \in [Point -> Docs \cup {NoDoc}] /\ doc[s] \in Docs
    BY <1>2, <2>1 DEF WriteConfig, TypeInv, TypeOK
  <2>3. TypeOK'
    BY <1>2, <2>1, <2>2 DEF WriteConfig, Goto, TypeInv, TypeOK
  <2>4. ASSUME NEW t \in Studies PROVE HandOK(t)'
    BY <1>2, <2>1, <2>2
    DEF WriteConfig, Goto, TypeInv, TypeOK, HandOK, Middle, RunId
  <2> QED BY <2>3, <2>4 DEF TypeInv
<1>3. ASSUME NEW s \in Studies, ConfigFails(s)
      PROVE  TypeInv'
  <2>1. executed[s] + 1 \in Point /\ executed[s] + 1 \in 0 .. N
    BY <1>3 DEF ConfigFails, MorePoints, TypeInv, TypeOK, Point
  <2>2. records' \in [Studies -> Seq(RecordType)] /\ flags' \in [Studies -> FlagType]
    BY <1>3, <2>1, FailedType, AppendType DEF ConfigFails, TypeInv, ExecutionProblems
  <2>4. TypeOK'
    BY <1>3, <2>1, <2>2 DEF ConfigFails, Goto, TypeInv, TypeOK
  <2>5. ASSUME NEW t \in Studies PROVE HandOK(t)'
    BY <1>3 DEF ConfigFails, Goto, TypeInv, TypeOK, HandOK, Middle, RunId
  <2> QED BY <2>4, <2>5 DEF TypeInv
<1>4. ASSUME NEW s \in Studies, ReadConfig(s)
      PROVE  TypeInv'
  <2>1. config[executed[s]] \in Docs
    BY <1>4 DEF ReadConfig, Goto, TypeInv, HandOK
  <2>2. hand' \in [Studies -> HandType]
    BY <1>4, <2>1 DEF ReadConfig, TypeInv, TypeOK, HandType, Idle
  <2>3. TypeOK'
    BY <1>4, <2>2 DEF ReadConfig, Goto, TypeInv, TypeOK
  <2>4. ASSUME NEW t \in Studies PROVE HandOK(t)'
    BY <1>4, <2>1 DEF ReadConfig, Goto, TypeInv, TypeOK, HandOK, Middle, RunId, Idle
  <2> QED BY <2>3, <2>4 DEF TypeInv
<1>5. ASSUME NEW s \in Studies, RunRaises(s)
      PROVE  TypeInv'
  <2>1. executed[s] \in Point
    BY <1>5 DEF RunRaises, Goto, TypeInv, HandOK, Middle
  <2>2. records' \in [Studies -> Seq(RecordType)] /\ flags' \in [Studies -> FlagType]
    BY <1>5, <2>1, FailedType, AppendType DEF RunRaises, TypeInv, ExecutionProblems
  <2>3. hand' \in [Studies -> HandType]
    BY <1>5 DEF RunRaises, TypeInv, TypeOK, HandType, Idle
  <2>4. TypeOK'
    BY <1>5, <2>2, <2>3 DEF RunRaises, Goto, TypeInv, TypeOK
  <2>5. ASSUME NEW t \in Studies PROVE HandOK(t)'
    BY <1>5 DEF RunRaises, Goto, TypeInv, TypeOK, HandOK, Middle, RunId
  <2> QED BY <2>4, <2>5 DEF TypeInv
<1>6. ASSUME NEW s \in Studies, RunPublishes(s)
      PROVE  TypeInv'
  <2> DEFINE r == RunId(hand[s].input, executed[s])
  <2>1. hand[s].input \in Docs /\ executed[s] \in Point /\ r \in RunIds
    BY <1>6, RunIdType DEF RunPublishes, Goto, TypeInv, HandOK, Middle
  <2>2. PICK p \in Products :
          /\ package' = [package EXCEPT ![r] =
                           [owner |-> s, doc |-> hand[s].input, product |-> p]]
          /\ hand' = [hand EXCEPT ![s] =
                        [hand[s] EXCEPT !.run = r,
                                        !.exit = IF Succeeded(p.status) THEN 0 ELSE 1]]
    BY <1>6 DEF RunPublishes
  <2>3. package' \in [RunIds -> PackageType \cup {NoPackage}]
    BY <2>1, <2>2 DEF TypeInv, TypeOK, PackageType
  <2>4. hand' \in [Studies -> HandType]
    <3>1. hand[s] \in HandType
      BY DEF TypeInv, TypeOK
    <3>2. [hand[s] EXCEPT !.run = r, !.exit = IF Succeeded(p.status) THEN 0 ELSE 1]
            \in HandType
      BY <3>1, <2>1 DEF HandType
    <3> QED BY <2>2, <3>2 DEF TypeInv, TypeOK
  <2>5. TypeOK'
    BY <1>6, <2>3, <2>4 DEF RunPublishes, Goto, TypeInv, TypeOK
  <2>6. ASSUME NEW t \in Studies PROVE HandOK(t)'
    <3>1. CASE t = s
      <4>1. hand'[s].run = r /\ package'[r].owner = s /\ package'[r].doc = hand[s].input
        BY <2>1, <2>2 DEF TypeInv, TypeOK, HandType
      <4>2. pc'[s] = "examine" /\ executed' = executed
        BY <1>6 DEF RunPublishes, Goto, TypeInv, TypeOK
      <4> QED BY <3>1, <4>1, <4>2, <2>1 DEF HandOK, Middle, RunId
    <3>2. CASE t # s
      <4>1. /\ hand'[t] = hand[t] /\ pc'[t] = pc[t]
            /\ executed' = executed /\ config' = config
        BY <1>6, <2>2, <3>2 DEF RunPublishes, Goto, TypeInv, TypeOK
      <4>2. \A q \in RunIds : package[q].owner = t => package'[q] = package[q]
        BY <1>6, <2>1, <2>2 DEF RunPublishes, Published, TypeInv, TypeOK
      <4>3. hand[t].run \in RunIds \cup {NoRun}
        BY DEF TypeInv, TypeOK, HandType
      <4> QED BY <4>1, <4>2, <4>3 DEF TypeInv, HandOK, RunId
    <3> QED BY <3>1, <3>2
  <2> QED BY <2>5, <2>6 DEF TypeInv
<1>7. ASSUME NEW s \in Studies, RunLeavesNothing(s)
      PROVE  TypeInv'
  <2>1. PICK exit \in {0, 1} : hand' = [hand EXCEPT ![s] = [hand[s] EXCEPT !.exit = exit]]
    BY <1>7 DEF RunLeavesNothing
  <2>2. hand' \in [Studies -> HandType]
    <3>1. hand[s] \in HandType
      BY DEF TypeInv, TypeOK
    <3>2. [hand[s] EXCEPT !.exit = exit] \in HandType
      BY <3>1 DEF HandType
    <3> QED BY <2>1, <3>2 DEF TypeInv, TypeOK
  <2>3. TypeOK'
    BY <1>7, <2>2 DEF RunLeavesNothing, Goto, TypeInv, TypeOK
  <2>4. ASSUME NEW t \in Studies PROVE HandOK(t)'
    <3>1. hand'[t].run = hand[t].run /\ hand'[t].input = hand[t].input
      BY <2>1 DEF TypeInv, TypeOK, HandType
    <3> QED
      BY <1>7, <3>1 DEF RunLeavesNothing, Goto, TypeInv, TypeOK, HandOK, Middle, RunId
  <2> QED BY <2>3, <2>4 DEF TypeInv
<1>8. ASSUME NEW s \in Studies, NoRunDir(s)
      PROVE  TypeInv'
  <2>1. executed[s] \in Point
    BY <1>8 DEF NoRunDir, Goto, TypeInv, HandOK, Middle
  <2>2. [Failed(executed[s], "run_dir") EXCEPT !.problems = @ \cup ExitProblems(s)]
          \in RecordType
    BY <2>1 DEF Failed, Record, RecordType, ExitProblems, ExecutionProblems, NoRun,
      Undeclared
  <2>3. records' \in [Studies -> Seq(RecordType)] /\ flags' \in [Studies -> FlagType]
    BY <1>8, <2>2, AppendType DEF NoRunDir, TypeInv
  <2>4. hand' \in [Studies -> HandType]
    BY <1>8 DEF NoRunDir, TypeInv, TypeOK, HandType, Idle
  <2>5. TypeOK'
    BY <1>8, <2>3, <2>4 DEF NoRunDir, Goto, TypeInv, TypeOK
  <2>6. ASSUME NEW t \in Studies PROVE HandOK(t)'
    BY <1>8 DEF NoRunDir, Goto, TypeInv, TypeOK, HandOK, Middle, RunId
  <2> QED BY <2>5, <2>6 DEF TypeInv
<1>9. ASSUME NEW s \in Studies, Examine(s)
      PROVE  TypeInv'
  <2>1. Examined(s) \in RecordType
    BY <1>9, ExaminedType DEF Examine, Goto
  <2>2. records' \in [Studies -> Seq(RecordType)] /\ flags' \in [Studies -> FlagType]
    BY <1>9, <2>1, AppendType DEF Examine, TypeInv
  <2>5. hand' \in [Studies -> HandType]
    BY <1>9 DEF Examine, TypeInv, TypeOK, HandType, Idle
  <2>6. TypeOK'
    BY <1>9, <2>2, <2>5 DEF Examine, Goto, TypeInv, TypeOK
  <2>7. ASSUME NEW t \in Studies PROVE HandOK(t)'
    BY <1>9 DEF Examine, Goto, TypeInv, TypeOK, HandOK, Middle, RunId
  <2> QED BY <2>6, <2>7 DEF TypeInv
<1>10. ASSUME NEW s \in Studies, WriteReport(s)
       PROVE  TypeInv'
  <2>1. code' \in [Studies -> {NoCode, 0, 1}]
    BY <1>10 DEF WriteReport, ExitCode, TypeInv, TypeOK
  <2>2. TypeOK'
    BY <1>10, <2>1 DEF WriteReport, Goto, TypeInv, TypeOK, Ended
  <2>3. ASSUME NEW t \in Studies PROVE HandOK(t)'
    BY <1>10 DEF WriteReport, Goto, TypeInv, TypeOK, HandOK, Middle, RunId
  <2> QED BY <2>2, <2>3 DEF TypeInv
<1>11. ASSUME NEW s \in Studies, ReportFails(s) \/ Interrupt(s)
       PROVE  TypeInv'
  <2>1. TypeOK'
    BY <1>11 DEF ReportFails, Interrupt, Goto, TypeInv, TypeOK, Ended
  <2>2. ASSUME NEW t \in Studies PROVE HandOK(t)'
    BY <1>11 DEF ReportFails, Interrupt, Goto, TypeInv, TypeOK, HandOK, Middle, RunId
  <2> QED BY <2>1, <2>2 DEF TypeInv
<1> QED
  BY <1>1, <1>2, <1>3, <1>4, <1>5, <1>6, <1>7, <1>8, <1>9, <1>10, <1>11
  DEF Next, Step

(***************************************************************************)
(* Type correctness: the point in hand is a planned one, its document      *)
(* exists, and the directory that an invocation reads back is the one its  *)
(* own call published.                                                     *)
(***************************************************************************)
THEOREM TypeCorrect == Spec => []TypeOK
<1>1. Spec => []TypeInv
  BY TypeInvInit, TypeInvStep, PTL DEF Spec
<1>2. TypeInv => TypeOK
  BY DEF TypeInv
<1> QED BY <1>1, <1>2, PTL

-----------------------------------------------------------------------------
(***************************************************************************)
(* The inductive invariant.  An exit code sums up what happened at every   *)
(* point, so an invocation is followed record by record: what a record     *)
(* says of the directory, how the flags follow from the records, and where *)
(* the plan was left.                                                      *)
(***************************************************************************)
RecordOK(s, r, i) ==
  /\ r.point = i
  /\ Ok(r) => /\ r.run = RunId(doc[s], i)
              /\ HoldsEvidence(s, i)
              /\ PlantOf[package[r.run].doc] = PlantOf[doc[s]]
              /\ Periodicity(s) => (r.compared = "periodic" <=> ShowsRepetition(s, i))

RecordsOK(s) == \A i \in DOMAIN records[s] : RecordOK(s, records[s][i], i)

FlagsOK(s) ==
  /\ flags[s].all_points_ok <=> \A i \in DOMAIN records[s] : Ok(records[s][i])
  /\ flags[s].converged <=>
       \E i \in DOMAIN records[s] : records[s][i].compared = "periodic"
  /\ flags[s].periodicity_failed <=>
       \E i \in DOMAIN records[s] : records[s][i].compared = "error"

PlanOK(s) ==
  /\ pc[s] \in Middle => /\ Len(records[s]) + 1 = executed[s]
                         /\ ~(Periodicity(s) /\ flags[s].converged)
  /\ pc[s] \in {"loop", "done", "raised"} => Len(records[s]) = executed[s]
  /\ Periodicity(s) => \A i \in DOMAIN records[s] :
       records[s][i].compared = "periodic" => i = Len(records[s])

CodeOK(s) ==
  /\ pc[s] # "done" => code[s] = NoCode
  /\ pc[s] = "done" => code[s] = ExitCode(s) /\ ~MorePoints(s)

StudyOK(s) == RecordsOK(s) /\ FlagsOK(s) /\ PlanOK(s) /\ CodeOK(s)

StudyInv == TypeInv /\ (\A s \in Studies : StudyOK(s)) /\ ErrorIsNotErased

\* The records of an invocation are a sequence, numbered from one.
LEMMA RecordsType ==
  ASSUME TypeOK, NEW s \in Studies
  PROVE  /\ records[s] \in Seq(RecordType) /\ Len(records[s]) \in Nat
         /\ DOMAIN records[s] = 1 .. Len(records[s])
         /\ flags[s] \in FlagType /\ executed[s] \in Nat
         /\ \A i \in DOMAIN records[s] :
              records[s][i] \in RecordType /\ i \in Nat \ {0}
  BY DEF TypeOK

\* Packages are never replaced, so what is known of one invocation survives
\* every step that leaves its own variables alone.
LEMMA StudyFrame ==
  ASSUME TypeInv, NEW s \in Studies, StudyOK(s), doc' = doc,
         records'[s] = records[s], flags'[s] = flags[s], pc'[s] = pc[s],
         executed'[s] = executed[s], code'[s] = code[s],
         \A r \in RunIds : package[r].owner = s => package'[r] = package[r]
  PROVE  StudyOK(s)'
<1>1. RecordsOK(s)'
  <2> SUFFICES ASSUME NEW i \in DOMAIN records[s]
               PROVE  RecordOK(s, records[s][i], i)'
    BY DEF RecordsOK
  <2>1. RecordOK(s, records[s][i], i)
    BY DEF StudyOK, RecordsOK
  <2>2. records[s][i].point \in Point
    BY RecordsType DEF TypeInv, RecordType
  <2>3. doc[s] \in Docs /\ RunId(doc[s], i) \in RunIds
    BY <2>1, <2>2, RunIdType DEF TypeInv, TypeOK, RecordOK
  <2>4. RunId(doc[s], i)' = RunId(doc[s], i) /\ Periodicity(s)' = Periodicity(s)
    BY DEF RunId, Periodicity
  <2>5. Ok(records[s][i])' = Ok(records[s][i])
    BY DEF Ok
  <2>6. HoldsEvidence(s, i) =>
          package'[RunId(doc[s], i)] = package[RunId(doc[s], i)]
    BY <2>3 DEF HoldsEvidence
  <2> QED BY <2>1, <2>3, <2>4, <2>5, <2>6
    DEF RecordOK, HoldsEvidence, ShowsRepetition
<1>2. FlagsOK(s)'
  BY DEF StudyOK, FlagsOK, Ok
<1>3. PlanOK(s)'
  BY DEF StudyOK, PlanOK, Periodicity
<1>4. CodeOK(s)'
  BY DEF StudyOK, CodeOK, ExitCode, MorePoints, Periodicity, Converged
<1> QED BY <1>1, <1>2, <1>3, <1>4 DEF StudyOK

\* The end of a point: one more record, and the flags that go with it.
LEMMA PointEnds ==
  ASSUME TypeInv, NEW s \in Studies, StudyOK(s), doc' = doc, package' = package,
         NEW r \in RecordType, AppendRecord(s, r),
         RecordOK(s, r, Len(records[s]) + 1),
         executed'[s] = Len(records[s]) + 1,
         ~(Periodicity(s) /\ flags[s].converged),
         pc[s] # "done", pc'[s] = "loop", code'[s] = code[s]
  PROVE  StudyOK(s)'
<1> DEFINE n == Len(records[s])
<1>1. /\ records[s] \in Seq(RecordType) /\ n \in Nat
      /\ DOMAIN records[s] = 1 .. n /\ flags[s] \in FlagType
  BY RecordsType DEF TypeInv
<1>2. records'[s] = Append(records[s], r) /\ flags'[s] = Flagged(flags[s], r)
  BY DEF AppendRecord, TypeInv, TypeOK
<1>3. /\ DOMAIN records'[s] = 1 .. n + 1 /\ Len(records'[s]) = n + 1
      /\ records'[s][n + 1] = r
      /\ \A i \in 1 .. n : records'[s][i] = records[s][i]
  BY <1>1, <1>2
<1>4. Periodicity(s)' = Periodicity(s)
  BY DEF Periodicity
<1>5. \A q, i : RecordOK(s, q, i)' <=> RecordOK(s, q, i)
  BY <1>4 DEF RecordOK, HoldsEvidence, ShowsRepetition, RunId, Ok
<1>6. RecordsOK(s)'
  BY <1>1, <1>3, <1>5 DEF StudyOK, RecordsOK
<1>7. FlagsOK(s)'
  <2>1. /\ flags'[s].all_points_ok <=> flags[s].all_points_ok /\ Ok(r)
        /\ flags'[s].converged <=> flags[s].converged \/ r.compared = "periodic"
        /\ flags'[s].periodicity_failed <=>
             flags[s].periodicity_failed \/ r.compared = "error"
    BY <1>1, <1>2, FlaggedFields
  <2>2. FlagsOK(s)
    BY DEF StudyOK
  <2>3. /\ flags'[s].all_points_ok <=> \A i \in 1 .. n + 1 : Ok(records'[s][i])
        /\ flags'[s].converged <=>
             \E i \in 1 .. n + 1 : records'[s][i].compared = "periodic"
        /\ flags'[s].periodicity_failed <=>
             \E i \in 1 .. n + 1 : records'[s][i].compared = "error"
    <3>1. \A i \in 1 .. n + 1 : i \in 1 .. n \/ i = n + 1
      BY <1>1
    <3>2. n + 1 \in 1 .. n + 1 /\ \A i \in 1 .. n : i \in 1 .. n + 1
      BY <1>1
    <3>3. flags'[s].all_points_ok <=> \A i \in 1 .. n + 1 : Ok(records'[s][i])
      BY <1>1, <1>3, <2>1, <2>2, <3>1, <3>2, Zenon DEF FlagsOK
    <3>4. flags'[s].converged <=>
            \E i \in 1 .. n + 1 : records'[s][i].compared = "periodic"
      BY <1>1, <1>3, <2>1, <2>2, <3>1, <3>2, Zenon DEF FlagsOK
    <3>5. flags'[s].periodicity_failed <=>
            \E i \in 1 .. n + 1 : records'[s][i].compared = "error"
      BY <1>1, <1>3, <2>1, <2>2, <3>1, <3>2, Zenon DEF FlagsOK
    <3> QED BY <3>3, <3>4, <3>5
  <2> QED BY <1>3, <2>3, Zenon DEF FlagsOK, Ok
<1>8. PlanOK(s)'
  <2>1. Periodicity(s) =>
          \A i \in 1 .. n : records[s][i].compared # "periodic"
    BY <1>1 DEF StudyOK, FlagsOK
  <2> QED BY <1>1, <1>3, <1>4, <2>1 DEF PlanOK, Middle
<1>9. CodeOK(s)'
  BY DEF StudyOK, CodeOK
<1> QED BY <1>6, <1>7, <1>8, <1>9 DEF StudyOK

\* A point that failed before its package was read says nothing about it.
LEMMA FailedRecord ==
  ASSUME NEW s \in Studies, NEW r, NEW i, r.problems # {}, r.point = i
  PROVE  RecordOK(s, r, i)
  BY DEF RecordOK, Ok

\* A package that was read without a problem is evidence for its point.
LEMMA ExaminedRecord ==
  ASSUME TypeInv, NEW s \in Studies, pc[s] = "examine", hand[s].run # NoRun
  PROVE  RecordOK(s, Examined(s), executed[s])
<1> DEFINE k == package[hand[s].run]
           p == executed[s]
<1>1. k.product \in Product /\ k.owner = s /\ hand[s].run = RunId(k.doc, p)
  BY ExaminedType DEF TypeInv, HandOK
<1>2. /\ Examined(s).point = p /\ Examined(s).run = hand[s].run
      /\ Examined(s).compared = Comparison(k, doc[s])
      /\ Examined(s).problems = ExitProblems(s) \cup ProblemsOf(k, doc[s], p)
  BY DEF Examined, Record
<1>3. ASSUME Ok(Examined(s))
      PROVE  /\ hand[s].run = RunId(doc[s], p) /\ HoldsEvidence(s, p)
             /\ PlantOf[k.doc] = PlantOf[doc[s]]
             /\ Periodicity(s) =>
                  (Comparison(k, doc[s]) = "periodic" <=> ShowsRepetition(s, p))
  <2>1. \A x \in AnalysisProblems : x \notin ProblemsOf(k, doc[s], p)
    BY <1>2, <1>3 DEF Ok
  <2>2. /\ k.product.seal # "manifest_lost" /\ Succeeded(k.product.status)
        /\ HasIdentity(k, doc[s], p)
        /\ Comparison(k, doc[s]) # "error"
    BY <2>1 DEF ProblemsOf, AnalysisProblems
  <2>3. hand[s].run = RunId(doc[s], p) /\ HoldsEvidence(s, p)
    BY <1>1, <2>2 DEF HasIdentity, HoldsEvidence
  <2>4. Periodicity(s) => Comparison(k, doc[s]) = k.product.samples
    BY <2>2 DEF Periodicity, Comparison
  <2> QED BY <2>2, <2>3, <2>4 DEF HasIdentity, ShowsRepetition
<1> QED BY <1>2, <1>3 DEF RecordOK

-----------------------------------------------------------------------------
\* A published report follows from the records and flags it was made of.
LEMMA ReportIsTrue ==
  ASSUME TypeInv, NEW s \in Studies, StudyOK(s), report' = Report(s)
  PROVE  ErrorIsNotErased'
<1>1. /\ report'.converged = Converged(flags[s])
      /\ report'.points = records[s]
  BY DEF Report
<1>2. FlagsOK(s)
  BY DEF StudyOK
<1>3. ASSUME Converged(flags[s])
      PROVE  /\ \E i \in DOMAIN records[s] : records[s][i].compared = "periodic"
             /\ \A i \in DOMAIN records[s] : records[s][i].compared # "error"
  BY <1>2, <1>3, Zenon DEF FlagsOK, Converged
<1> QED BY <1>1, <1>3 DEF ErrorIsNotErased

LEMMA StudyInvInit == Init => StudyInv
<1> SUFFICES ASSUME Init PROVE StudyInv OBVIOUS
<1>1. TypeInv
  BY TypeInvInit
<1>2. ASSUME NEW s \in Studies PROVE StudyOK(s)
  <2>1. records[s] = <<>> /\ DOMAIN records[s] = {} /\ Len(records[s]) = 0
    BY DEF Init
  <2>2. RecordsOK(s)
    BY <2>1 DEF RecordsOK
  <2>3. FlagsOK(s)
    BY <2>1 DEF FlagsOK, Init
  <2>4. PlanOK(s) /\ CodeOK(s)
    BY <2>1 DEF PlanOK, CodeOK, Middle, Init
  <2> QED BY <2>2, <2>3, <2>4 DEF StudyOK
<1>3. ErrorIsNotErased
  BY DEF Init, ErrorIsNotErased
<1> QED BY <1>1, <1>2, <1>3 DEF StudyInv

\* What a step of one invocation may do to the others.
OthersKeep(s) ==
  /\ doc' = doc
  /\ \A t \in Studies \ {s} :
       /\ records'[t] = records[t] /\ flags'[t] = flags[t] /\ pc'[t] = pc[t]
       /\ executed'[t] = executed[t] /\ code'[t] = code[t]
  /\ \A r \in RunIds : package[r].owner \in Studies => package'[r] = package[r]

LEMMA StepsKeepOthers ==
  ASSUME TypeInv, NEW s \in Studies, Step(s) \/ Interrupt(s)
  PROVE  OthersKeep(s)
<1>1. CASE WriteConfig(s)
  BY <1>1 DEF WriteConfig, Goto, OthersKeep, TypeInv, TypeOK
<1>2. CASE ConfigFails(s)
  BY <1>2 DEF ConfigFails, Goto, AppendRecord, OthersKeep, TypeInv, TypeOK
<1>3. CASE ReadConfig(s)
  BY <1>3 DEF ReadConfig, Goto, OthersKeep, TypeInv, TypeOK
<1>4. CASE RunRaises(s)
  BY <1>4 DEF RunRaises, Goto, AppendRecord, OthersKeep, TypeInv, TypeOK
<1>5. CASE RunPublishes(s)
  <2> DEFINE q == RunId(hand[s].input, executed[s])
  <2>1. \A r \in RunIds : r # q => package'[r] = package[r]
    BY <1>5 DEF RunPublishes, TypeInv, TypeOK
  <2>2. package[q].owner = NoStudy
    BY <1>5 DEF RunPublishes, Published
  <2> QED BY <1>5, <2>1, <2>2, StudyAssumption
    DEF RunPublishes, Goto, OthersKeep, TypeInv, TypeOK
<1>6. CASE RunLeavesNothing(s)
  BY <1>6 DEF RunLeavesNothing, Goto, OthersKeep, TypeInv, TypeOK
<1>7. CASE NoRunDir(s)
  BY <1>7 DEF NoRunDir, Goto, AppendRecord, OthersKeep, TypeInv, TypeOK
<1>8. CASE Examine(s)
  BY <1>8 DEF Examine, Goto, AppendRecord, OthersKeep, TypeInv, TypeOK
<1>9. CASE WriteReport(s)
  BY <1>9 DEF WriteReport, Goto, OthersKeep, TypeInv, TypeOK
<1>10. CASE ReportFails(s) \/ Interrupt(s)
  BY <1>10 DEF ReportFails, Interrupt, Goto, OthersKeep, TypeInv, TypeOK
<1> QED BY <1>1, <1>2, <1>3, <1>4, <1>5, <1>6, <1>7, <1>8, <1>9, <1>10 DEF Step

\* An invocation's own step keeps what is known of it.
LEMMA OwnStep ==
  ASSUME TypeInv, NEW s \in Studies, StudyOK(s), Step(s) \/ Interrupt(s)
  PROVE  StudyOK(s)'
<1> DEFINE n == Len(records[s])
<1>0. /\ PlanOK(s) /\ CodeOK(s) /\ HandOK(s)
      /\ flags[s] \in FlagType /\ n \in Nat /\ executed[s] \in Nat
  BY RecordsType DEF StudyOK, TypeInv
<1>1. CASE WriteConfig(s)
  <2>1. /\ pc[s] = "loop" /\ pc'[s] = "execute" /\ executed'[s] = executed[s] + 1
        /\ UNCHANGED <<doc, package, records, flags, code>>
    BY <1>1 DEF WriteConfig, Goto, TypeInv, TypeOK
  <2>2. RecordsOK(s)' /\ FlagsOK(s)'
    BY <2>1 DEF StudyOK, RecordsOK, RecordOK, FlagsOK, Ok, RunId, HoldsEvidence,
      ShowsRepetition, Periodicity
  <2>3. ~(Periodicity(s) /\ flags[s].converged)
    BY <1>1 DEF WriteConfig, MorePoints
  <2>4. PlanOK(s)'
    BY <1>0, <2>1, <2>3 DEF PlanOK, Middle, Periodicity
  <2>5. CodeOK(s)'
    BY <1>0, <2>1 DEF CodeOK
  <2> QED BY <2>2, <2>4, <2>5 DEF StudyOK
<1>2. CASE ConfigFails(s)
  <2> DEFINE r == Failed(executed[s] + 1, "config_write")
  <2>1. /\ pc[s] = "loop" /\ pc'[s] = "loop" /\ executed'[s] = executed[s] + 1
        /\ AppendRecord(s, r) /\ UNCHANGED <<doc, package, code>>
    BY <1>2 DEF ConfigFails, Goto, TypeInv, TypeOK
  <2>2. n = executed[s] /\ ~(Periodicity(s) /\ flags[s].converged)
    BY <1>0, <1>2, <2>1 DEF PlanOK, ConfigFails, MorePoints
  <2>3. executed[s] + 1 \in Point
    BY <1>2, StudyAssumption DEF ConfigFails, MorePoints, TypeInv, TypeOK, Point
  <2>4. r \in RecordType
    BY <2>3, FailedType DEF ExecutionProblems
  <2>5. r.point = n + 1 /\ r.problems # {}
    BY <2>2 DEF Failed, Record
  <2>6. RecordOK(s, r, n + 1)
    BY <2>5, FailedRecord
  <2> QED BY <2>1, <2>2, <2>4, <2>6, PointEnds
<1>3. CASE ReadConfig(s)
  <2>1. /\ pc[s] = "execute" /\ pc'[s] = "running"
        /\ UNCHANGED <<doc, package, records, flags, executed, code>>
    BY <1>3 DEF ReadConfig, Goto, TypeInv, TypeOK
  <2> QED BY <1>0, <2>1
    DEF StudyOK, RecordsOK, RecordOK, FlagsOK, Ok, RunId, HoldsEvidence,
      ShowsRepetition, Periodicity, PlanOK, CodeOK, Middle
<1>4. CASE RunRaises(s)
  <2> DEFINE r == Failed(executed[s], "executor")
  <2>1. /\ pc[s] = "running" /\ pc'[s] = "loop"
        /\ AppendRecord(s, r) /\ UNCHANGED <<doc, package, executed, code>>
    BY <1>4 DEF RunRaises, Goto, TypeInv, TypeOK
  <2>2. n + 1 = executed[s] /\ ~(Periodicity(s) /\ flags[s].converged)
    BY <1>0, <2>1 DEF PlanOK, Middle
  <2>3. executed[s] \in Point
    BY <1>0, <2>1 DEF HandOK, Middle
  <2>4. r \in RecordType
    BY <2>3, FailedType DEF ExecutionProblems
  <2>5. r.point = n + 1 /\ r.problems # {}
    BY <2>2 DEF Failed, Record
  <2>6. RecordOK(s, r, n + 1)
    BY <2>5, FailedRecord
  <2> QED BY <2>1, <2>2, <2>4, <2>6, PointEnds
<1>5. CASE RunPublishes(s)
  <2>1. /\ pc[s] = "running" /\ pc'[s] = "examine"
        /\ UNCHANGED <<doc, records, flags, executed, code>>
    BY <1>5 DEF RunPublishes, Goto, TypeInv, TypeOK
  <2>2. \A r \in RunIds : package[r].owner \in Studies => package'[r] = package[r]
    BY <1>5, StepsKeepOthers DEF Step, OthersKeep
  <2>3. RecordsOK(s)'
    <3> SUFFICES ASSUME NEW i \in DOMAIN records[s]
                 PROVE  RecordOK(s, records[s][i], i)'
      BY <2>1 DEF RecordsOK
    <3>1. RecordOK(s, records[s][i], i) /\ records[s][i].point \in Point
      BY RecordsType DEF StudyOK, RecordsOK, TypeInv, RecordType
    <3>2. RunId(doc[s], i) \in RunIds
      BY <3>1, RunIdType DEF TypeInv, TypeOK, RecordOK
    <3>3. HoldsEvidence(s, i) =>
            package'[RunId(doc[s], i)] = package[RunId(doc[s], i)]
      BY <2>2, <3>2 DEF HoldsEvidence
    <3> QED BY <2>1, <3>1, <3>3
      DEF RecordOK, HoldsEvidence, ShowsRepetition, Ok, RunId, Periodicity
  <2>4. FlagsOK(s)' /\ PlanOK(s)' /\ CodeOK(s)'
    BY <1>0, <2>1 DEF StudyOK, FlagsOK, PlanOK, CodeOK, Ok, Middle, Periodicity
  <2> QED BY <2>3, <2>4 DEF StudyOK
<1>6. CASE RunLeavesNothing(s)
  <2>1. /\ pc[s] = "running" /\ pc'[s] = "examine"
        /\ UNCHANGED <<doc, package, records, flags, executed, code>>
    BY <1>6 DEF RunLeavesNothing, Goto, TypeInv, TypeOK
  <2> QED BY <1>0, <2>1
    DEF StudyOK, RecordsOK, RecordOK, FlagsOK, Ok, RunId, HoldsEvidence,
      ShowsRepetition, Periodicity, PlanOK, CodeOK, Middle
<1>7. CASE NoRunDir(s)
  <2> DEFINE r == [Failed(executed[s], "run_dir")
                     EXCEPT !.problems = @ \cup ExitProblems(s)]
  <2>1. /\ pc[s] = "examine" /\ pc'[s] = "loop"
        /\ AppendRecord(s, r) /\ UNCHANGED <<doc, package, executed, code>>
    BY <1>7 DEF NoRunDir, Goto, TypeInv, TypeOK
  <2>2. n + 1 = executed[s] /\ ~(Periodicity(s) /\ flags[s].converged)
    BY <1>0, <2>1 DEF PlanOK, Middle
  <2>3. executed[s] \in Point
    BY <1>0, <2>1 DEF HandOK, Middle
  <2>4. r \in RecordType
    BY <2>3 DEF Failed, Record, RecordType, ExitProblems, ExecutionProblems, NoRun,
      Undeclared
  <2>5. r.point = n + 1 /\ r.problems # {}
    BY <2>2 DEF Failed, Record
  <2>6. RecordOK(s, r, n + 1)
    BY <2>5, FailedRecord
  <2> QED BY <2>1, <2>2, <2>4, <2>6, PointEnds
<1>8. CASE Examine(s)
  <2> DEFINE r == Examined(s)
  <2>1. /\ pc[s] = "examine" /\ pc'[s] = "loop" /\ hand[s].run # NoRun
        /\ AppendRecord(s, r) /\ UNCHANGED <<doc, package, executed, code>>
    BY <1>8 DEF Examine, Goto, TypeInv, TypeOK
  <2>2. n + 1 = executed[s] /\ ~(Periodicity(s) /\ flags[s].converged)
    BY <1>0, <2>1 DEF PlanOK, Middle
  <2>3. r \in RecordType /\ RecordOK(s, r, n + 1)
    BY <2>1, <2>2, ExaminedType, ExaminedRecord
  <2> HIDE DEF r
  <2> QED BY <2>1, <2>2, <2>3, PointEnds
<1>9. CASE WriteReport(s)
  <2>1. /\ pc[s] = "loop" /\ pc'[s] = "done" /\ ~MorePoints(s)
        /\ code'[s] = ExitCode(s)
        /\ UNCHANGED <<doc, package, records, flags, executed>>
    BY <1>9 DEF WriteReport, Goto, TypeInv, TypeOK
  <2>2. RecordsOK(s)' /\ FlagsOK(s)' /\ PlanOK(s)'
    BY <1>0, <2>1
    DEF StudyOK, RecordsOK, RecordOK, FlagsOK, Ok, RunId, HoldsEvidence,
      ShowsRepetition, Periodicity, PlanOK, Middle
  <2>3. CodeOK(s)'
    BY <2>1 DEF CodeOK, ExitCode, MorePoints, Periodicity, Converged
  <2> QED BY <2>2, <2>3 DEF StudyOK
<1>10. CASE ReportFails(s) \/ Interrupt(s)
  <2>1. /\ pc[s] # "done" /\ pc'[s] \in {"raised", "interrupted"}
        /\ pc'[s] = "raised" => pc[s] = "loop"
        /\ UNCHANGED <<doc, package, records, flags, executed, code>>
    BY <1>10 DEF ReportFails, Interrupt, Goto, Ended, TypeInv, TypeOK
  <2> QED BY <1>0, <2>1
    DEF StudyOK, RecordsOK, RecordOK, FlagsOK, Ok, RunId, HoldsEvidence,
      ShowsRepetition, Periodicity, PlanOK, CodeOK, Middle
<1> QED BY <1>1, <1>2, <1>3, <1>4, <1>5, <1>6, <1>7, <1>8, <1>9, <1>10 DEF Step

LEMMA StudyInvStep == StudyInv /\ [Next]_vars => StudyInv'
<1> SUFFICES ASSUME StudyInv, [Next]_vars PROVE StudyInv'
  OBVIOUS
<1>1. TypeInv'
  BY TypeInvStep DEF StudyInv
<1>2. CASE UNCHANGED vars
  <2>1. ASSUME NEW s \in Studies PROVE StudyOK(s)'
    BY <1>2, StudyFrame DEF StudyInv, vars
  <2>2. ErrorIsNotErased'
    BY <1>2 DEF StudyInv, vars, ErrorIsNotErased
  <2> QED BY <1>1, <2>1, <2>2 DEF StudyInv
<1>3. ASSUME NEW s \in Studies, Step(s) \/ Interrupt(s)
      PROVE  StudyInv'
  <2>1. StudyOK(s)'
    BY <1>3, OwnStep DEF StudyInv
  <2>2. ASSUME NEW t \in Studies, t # s PROVE StudyOK(t)'
    BY <1>3, <2>2, StepsKeepOthers, StudyFrame DEF StudyInv, OthersKeep
  <2>3. CASE WriteReport(s)
    <3>1. ErrorIsNotErased'
      BY <2>3, ReportIsTrue DEF StudyInv, WriteReport
    <3> QED BY <1>1, <2>1, <2>2, <3>1 DEF StudyInv
  <2>4. CASE ~WriteReport(s)
    <3>1. report' = report
      BY <1>3, <2>4 DEF Step, WriteConfig, ConfigFails, ReadConfig, RunRaises,
        RunPublishes, RunLeavesNothing, NoRunDir, Examine, ReportFails, Interrupt
    <3>2. ErrorIsNotErased'
      BY <3>1 DEF StudyInv, ErrorIsNotErased
    <3> QED BY <1>1, <2>1, <2>2, <3>2 DEF StudyInv
  <2> QED BY <2>3, <2>4
<1> QED BY <1>2, <1>3 DEF Next

LEMMA Invariance == Spec => []StudyInv
  BY StudyInvInit, StudyInvStep, PTL DEF Spec

-----------------------------------------------------------------------------
\* However many invocations work in one directory, and whatever they find in
\* it: a point counts only through the package its own invocation published,
\* under the planned run id and by the planned plant.
THEOREM OwnRunsOnly == Spec => []OkIsOwnRun
<1>1. StudyInv => OkIsOwnRun
  <2> SUFFICES ASSUME StudyInv, NEW s \in Studies, NEW i \in DOMAIN records[s],
                      Ok(records[s][i])
               PROVE  LET r == records[s][i] IN
                      /\ r.run = RunId(doc[s], r.point)
                      /\ package[r.run].owner = s
                      /\ PlantOf[package[r.run].doc] = PlantOf[doc[s]]
    BY DEF OkIsOwnRun
  <2>1. RecordOK(s, records[s][i], i)
    BY DEF StudyInv, StudyOK, RecordsOK
  <2> QED BY <2>1 DEF RecordOK, HoldsEvidence
<1> QED BY <1>1, Invariance, PTL

\* A report that says "converged" has a point that did, and none whose
\* comparison failed, in whatever order they came.
THEOREM ErrorsStay == Spec => []ErrorIsNotErased
<1>1. StudyInv => ErrorIsNotErased
  BY DEF StudyInv
<1> QED BY <1>1, Invariance, PTL

\* What an invocation has behind it when it has no more points and found no
\* fault: every record is evidence, and the plan is complete or ends with the
\* repetition.
LEMMA PassMeans ==
  ASSUME StudyInv, NEW s \in Studies, pc[s] \in {"loop", "done"},
         ExitCode(s) = 0, ~MorePoints(s)
  PROVE  /\ executed[s] \in Point /\ Len(records[s]) = executed[s]
         /\ DOMAIN records[s] = 1 .. executed[s]
         /\ \A i \in 1 .. executed[s] : Ok(records[s][i])
         /\ Periodicity(s) => records[s][executed[s]].compared = "periodic"
         /\ ~Periodicity(s) => executed[s] = N
<1> DEFINE n == executed[s]
<1>1. /\ StudyOK(s) /\ DOMAIN records[s] = 1 .. Len(records[s])
      /\ n \in 0 .. N /\ N \in Nat \ {0}
  BY RecordsType, StudyAssumption DEF StudyInv, TypeInv, TypeOK
<1>2. Len(records[s]) = n
  BY <1>1 DEF StudyOK, PlanOK
<1>3. flags[s].all_points_ok /\ (Periodicity(s) => Converged(flags[s]))
  BY DEF ExitCode
<1>4. \A i \in 1 .. n : Ok(records[s][i])
  BY <1>1, <1>2, <1>3 DEF StudyOK, FlagsOK
<1>5. Periodicity(s) =>
        \E i \in 1 .. n : records[s][i].compared = "periodic" /\ i = n
  BY <1>1, <1>2, <1>3 DEF StudyOK, FlagsOK, PlanOK, Converged
<1>6. ~Periodicity(s) => n = N
  BY <1>1 DEF MorePoints
<1>7. n \in Point
  BY <1>1, <1>5, <1>6 DEF Point
<1> QED BY <1>1, <1>2, <1>4, <1>5, <1>6, <1>7

\* Exit code 0 is what a finished invocation computed from its flags.
LEMMA ExitZero ==
  ASSUME StudyInv, NEW s \in Studies, code[s] = 0
  PROVE  pc[s] = "done" /\ ExitCode(s) = 0 /\ ~MorePoints(s)
  BY DEF StudyInv, StudyOK, CodeOK, NoCode

\* Exit code 0 means that the packages are there: each planned point has its
\* own, intact and successful, up to the one that repeats itself.
THEOREM ExitCodeIsHonest == Spec => []ExitZeroIsWhole
<1>1. StudyInv => ExitZeroIsWhole
  <2> SUFFICES ASSUME StudyInv, NEW s \in Studies, code[s] = 0
               PROVE  \E last \in Point :
                        /\ \A p \in 1 .. last : HoldsEvidence(s, p)
                        /\ IF Periodicity(s)
                           THEN \A p \in 1 .. last : ShowsRepetition(s, p) <=> p = last
                           ELSE last = N
    BY DEF ExitZeroIsWhole
  <2> DEFINE n == executed[s]
  <2>1. ASSUME NEW p \in 1 .. n
        PROVE  /\ HoldsEvidence(s, p)
               /\ Periodicity(s) => (ShowsRepetition(s, p) <=> p = n)
    <3>1. Ok(records[s][p]) /\ RecordOK(s, records[s][p], p)
      BY PassMeans, ExitZero DEF StudyInv, StudyOK, RecordsOK
    <3>2. Periodicity(s) => (records[s][p].compared = "periodic" <=> p = n)
      BY PassMeans, ExitZero DEF StudyInv, StudyOK, PlanOK
    <3> QED BY <3>1, <3>2 DEF RecordOK
  <2>2. n \in Point /\ (~Periodicity(s) => n = N)
    BY PassMeans, ExitZero
  <2> QED BY <2>1, <2>2
<1> QED BY <1>1, Invariance, PTL

-----------------------------------------------------------------------------
(***************************************************************************)
(* The aggregate of a report.  It speaks of packages, but is computed from *)
(* the records; so the invariant adds what a record has copied from the    *)
(* package it names, whether the point was ok or not, and that a report    *)
(* still is the one its finished author would write.                       *)
(***************************************************************************)
CopyOK(s, r) ==
  IF r.run = NoRun
  THEN r.status = "none" /\ r.level = Undeclared /\ r.route = Undeclared
  ELSE LET k == package[r.run] IN
       /\ k.owner = s
       /\ IF k.product.seal = "manifest_lost"
          THEN r.status = "none" /\ r.level = Undeclared /\ r.route = Undeclared
          ELSE /\ r.status = k.product.status
               /\ r.level = k.product.level /\ r.route = k.product.route

CopiesOK(s) == \A i \in DOMAIN records[s] : CopyOK(s, records[s][i])

ReportOK ==
  report # NoDoc => /\ report.by \in Studies /\ pc[report.by] = "done"
                    /\ report = Report(report.by)

AggregateInv == StudyInv /\ (\A s \in Studies : CopiesOK(s)) /\ ReportOK

LEMMA AggregateInvInit == Init => AggregateInv
<1> SUFFICES ASSUME Init PROVE AggregateInv OBVIOUS
<1>1. \A s \in Studies : CopiesOK(s)
  BY DEF Init, CopiesOK
<1>2. ReportOK
  BY DEF Init, ReportOK
<1> QED BY <1>1, <1>2, StudyInvInit DEF AggregateInv

\* Published packages stay, so what was copied from one stays true.
LEMMA CopyFrame ==
  ASSUME TypeInv, NEW s \in Studies, NEW r \in RecordType, CopyOK(s, r),
         \A q \in RunIds : package[q].owner \in Studies => package'[q] = package[q]
  PROVE  CopyOK(s, r)'
<1>1. r.run = NoRun \/ r.run \in RunIds
  BY DEF RecordType
<1>2. r.run # NoRun => package'[r.run] = package[r.run]
  BY <1>1 DEF CopyOK
<1> QED BY <1>2 DEF CopyOK

LEMMA FailedCopy ==
  ASSUME NEW s \in Studies, NEW p, NEW x
  PROVE  CopyOK(s, Failed(p, x))
  BY DEF CopyOK, Failed, Record

LEMMA ExaminedCopy ==
  ASSUME TypeInv, NEW s \in Studies, pc[s] = "examine", hand[s].run # NoRun
  PROVE  CopyOK(s, Examined(s))
<1> DEFINE k == package[hand[s].run]
<1>1. k.owner = s
  BY DEF TypeInv, HandOK
<1>2. /\ Examined(s).run = hand[s].run
      /\ Examined(s).status =
           IF k.product.seal = "manifest_lost" THEN "none" ELSE k.product.status
      /\ Examined(s).level =
           IF k.product.seal = "manifest_lost" THEN Undeclared ELSE k.product.level
      /\ Examined(s).route =
           IF k.product.seal = "manifest_lost" THEN Undeclared ELSE k.product.route
  BY DEF Examined, Record
<1> QED BY <1>1, <1>2 DEF CopyOK

\* A step appends at most one record, which copies from its package.
LEMMA CopiesStep ==
  ASSUME TypeInv, TypeInv', NEW s \in Studies, CopiesOK(s), Step(s) \/ Interrupt(s)
  PROVE  CopiesOK(s)'
<1> DEFINE n == Len(records[s])
<1>0. \A q \in RunIds : package[q].owner \in Studies => package'[q] = package[q]
  BY StepsKeepOthers DEF OthersKeep
<1>1. ASSUME NEW r \in RecordType, AppendRecord(s, r), CopyOK(s, r)
      PROVE  CopiesOK(s)'
  <2>1. records'[s] = Append(records[s], r) /\ records[s] \in Seq(RecordType)
    BY <1>1 DEF AppendRecord, TypeInv, TypeOK
  <2>2. \A i \in DOMAIN records'[s] :
          records'[s][i] \in RecordType /\ CopyOK(s, records'[s][i])
    BY <1>1, <2>1 DEF CopiesOK
  <2>3. \A q \in RecordType : CopyOK(s, q) => CopyOK(s, q)'
    BY <1>0, CopyFrame
  <2> QED BY <2>2, <2>3 DEF CopiesOK, CopyOK
<1>2. CASE records'[s] = records[s]
  <2>1. \A i \in DOMAIN records[s] :
          records[s][i] \in RecordType /\ CopyOK(s, records[s][i])
    BY RecordsType DEF CopiesOK, TypeInv
  <2>2. \A q \in RecordType : CopyOK(s, q) => CopyOK(s, q)'
    BY <1>0, CopyFrame
  <2> QED BY <1>2, <2>1, <2>2 DEF CopiesOK, CopyOK
<1>3. CASE ConfigFails(s)
  <2> DEFINE r == Failed(executed[s] + 1, "config_write")
  <2>1. executed[s] + 1 \in Point
    BY <1>3, StudyAssumption DEF ConfigFails, MorePoints, TypeInv, TypeOK, Point
  <2>2. r \in RecordType /\ CopyOK(s, r) /\ AppendRecord(s, r)
    BY <1>3, <2>1, FailedType, FailedCopy DEF ExecutionProblems, ConfigFails
  <2> HIDE DEF r
  <2> QED BY <1>1, <2>2
<1>4. CASE RunRaises(s)
  <2> DEFINE r == Failed(executed[s], "executor")
  <2>1. executed[s] \in Point
    BY <1>4 DEF RunRaises, Goto, TypeInv, HandOK, Middle
  <2>2. r \in RecordType /\ CopyOK(s, r) /\ AppendRecord(s, r)
    BY <1>4, <2>1, FailedType, FailedCopy DEF ExecutionProblems, RunRaises
  <2> HIDE DEF r
  <2> QED BY <1>1, <2>2
<1>5. CASE NoRunDir(s)
  <2> DEFINE r == [Failed(executed[s], "run_dir")
                     EXCEPT !.problems = @ \cup ExitProblems(s)]
  <2>1. executed[s] \in Point
    BY <1>5 DEF NoRunDir, Goto, TypeInv, HandOK, Middle
  <2>2. r \in RecordType
    BY <2>1 DEF Failed, Record, RecordType, ExitProblems, ExecutionProblems, NoRun,
      Undeclared
  <2>3. CopyOK(s, r)
    BY DEF CopyOK, Failed, Record
  <2>4. AppendRecord(s, r)
    BY <1>5 DEF NoRunDir
  <2> HIDE DEF r
  <2> QED BY <1>1, <2>2, <2>3, <2>4
<1>6. CASE Examine(s)
  <2>1. pc[s] = "examine" /\ hand[s].run # NoRun /\ AppendRecord(s, Examined(s))
    BY <1>6 DEF Examine, Goto
  <2> QED BY <1>1, <2>1, ExaminedType, ExaminedCopy
<1>7. CASE \/ WriteConfig(s) \/ ReadConfig(s) \/ RunPublishes(s) \/ RunLeavesNothing(s)
           \/ WriteReport(s) \/ ReportFails(s) \/ Interrupt(s)
  BY <1>2, <1>7 DEF WriteConfig, ReadConfig, RunPublishes, RunLeavesNothing, WriteReport,
    ReportFails, Interrupt
<1> QED BY <1>3, <1>4, <1>5, <1>6, <1>7 DEF Step

LEMMA AggregateInvStep == AggregateInv /\ [Next]_vars => AggregateInv'
<1> SUFFICES ASSUME AggregateInv, [Next]_vars PROVE AggregateInv'
  OBVIOUS
<1>1. StudyInv' /\ TypeInv /\ TypeInv'
  BY StudyInvStep DEF AggregateInv, StudyInv
<1>2. CASE UNCHANGED vars
  <2>1. \A s \in Studies : CopiesOK(s)'
    BY <1>2 DEF AggregateInv, CopiesOK, CopyOK, vars
  <2>2. ReportOK'
    BY <1>2 DEF AggregateInv, ReportOK, Report, vars
  <2> QED BY <1>1, <2>1, <2>2 DEF AggregateInv
<1>3. ASSUME NEW s \in Studies, Step(s) \/ Interrupt(s)
      PROVE  AggregateInv'
  <2>1. OthersKeep(s)
    BY <1>1, <1>3, StepsKeepOthers
  <2>2. CopiesOK(s)'
    BY <1>1, <1>3, CopiesStep DEF AggregateInv
  <2>3. ASSUME NEW t \in Studies, t # s
        PROVE  CopiesOK(t)'
    <3>1. records'[t] = records[t]
      BY <2>1, <2>3 DEF OthersKeep
    <3>2. \A i \in DOMAIN records[t] :
            records[t][i] \in RecordType /\ CopyOK(t, records[t][i])
      BY <1>1, RecordsType DEF AggregateInv, CopiesOK, TypeInv
    <3>3. \A q \in RecordType : CopyOK(t, q) => CopyOK(t, q)'
      BY <1>1, <2>1, CopyFrame DEF OthersKeep
    <3> QED BY <3>1, <3>2, <3>3 DEF CopiesOK, CopyOK
  <2>4. ReportOK'
    <3>1. CASE WriteReport(s)
      <4>1. /\ report' = Report(s) /\ pc'[s] = "done"
            /\ UNCHANGED <<executed, records, flags>>
        BY <1>1, <3>1 DEF WriteReport, Goto, TypeInv, TypeOK
      <4>2. report'.by = s /\ Report(s)' = Report(s)
        BY <4>1 DEF Report
      <4> QED BY <4>1, <4>2 DEF ReportOK
    <3>2. CASE ~WriteReport(s)
      <4>1. report' = report
        BY <1>3, <3>2 DEF Step, WriteConfig, ConfigFails, ReadConfig, RunRaises,
          RunPublishes, RunLeavesNothing, NoRunDir, Examine, ReportFails, Interrupt
      <4>2. pc[s] # "done"
        BY <1>3, <3>2 DEF Step, WriteConfig, ConfigFails, ReadConfig, RunRaises,
          RunPublishes, RunLeavesNothing, NoRunDir, Examine, ReportFails, Interrupt,
          Goto, Ended
      <4> SUFFICES ASSUME report # NoDoc
                   PROVE  /\ report.by \in Studies /\ pc'[report.by] = "done"
                          /\ report = Report(report.by)'
        BY <4>1 DEF ReportOK
      <4>3. PICK t \in Studies : t = report.by /\ pc[t] = "done" /\ report = Report(t)
        BY DEF AggregateInv, ReportOK
      <4>4. /\ pc'[t] = pc[t] /\ records'[t] = records[t]
            /\ executed'[t] = executed[t] /\ flags'[t] = flags[t]
        BY <2>1, <4>2, <4>3 DEF OthersKeep
      <4>5. Report(t)' = Report(t)
        BY <4>4, Zenon DEF Report
      <4> QED BY <4>1, <4>3, <4>4, <4>5
    <3> QED BY <3>1, <3>2
  <2> QED BY <1>1, <2>2, <2>3, <2>4 DEF AggregateInv
<1> QED BY <1>2, <1>3 DEF Next

LEMMA AggregateInvariance == Spec => []AggregateInv
  BY AggregateInvInit, AggregateInvStep, PTL DEF Spec

\* The parts of a report, in terms of its author.
LEMMA ReportParts ==
  ASSUME AggregateInv, report # NoDoc
  PROVE  \E s \in Studies :
           /\ s = report.by
           /\ report.points = records[s] /\ report.skipped = (executed[s] + 1) .. N
           /\ report.claimed = Claimed(records[s])
           /\ report.ceiling = Ceiling(records[s])
           /\ Len(records[s]) = executed[s] /\ executed[s] \in 0 .. N
           /\ records[s] \in Seq(RecordType) /\ DOMAIN records[s] = 1 .. executed[s]
           /\ CopiesOK(s) /\ RecordsOK(s)
<1>1. /\ report.by \in Studies /\ pc[report.by] = "done"
      /\ report = Report(report.by)
  BY DEF AggregateInv, ReportOK
<1> DEFINE s == report.by
<1>2. /\ Report(s).points = records[s] /\ Report(s).skipped = (executed[s] + 1) .. N
      /\ Report(s).claimed = Claimed(records[s])
      /\ Report(s).ceiling = Ceiling(records[s])
  BY DEF Report
<1>3. /\ StudyOK(s) /\ CopiesOK(s) /\ executed[s] \in 0 .. N
      /\ records[s] \in Seq(RecordType)
      /\ DOMAIN records[s] = 1 .. Len(records[s])
  BY <1>1, RecordsType DEF AggregateInv, StudyInv, TypeInv, TypeOK
<1>4. Len(records[s]) = executed[s] /\ RecordsOK(s)
  BY <1>1, <1>3 DEF StudyOK, PlanOK
<1> QED BY <1>1, <1>2, <1>3, <1>4

\* What is claimed rests on packages that are there and alike.
LEMMA ClaimIsCovered == AggregateInv => ClaimNeedsEvidence
<1> SUFFICES ASSUME AggregateInv, report # NoDoc, report.claimed
             PROVE  LET s == report.by IN
                    /\ N - 2 >= Cardinality(report.skipped)
                    /\ \A p \in Point \ report.skipped :
                         /\ HoldsEvidence(s, p)
                         /\ package[RunId(doc[s], p)].product.status = "QUALIFIED"
                         /\ package[RunId(doc[s], p)].product.level = "comparable"
                         /\ \A q \in Point \ report.skipped :
                              package[RunId(doc[s], p)].product.route =
                                package[RunId(doc[s], q)].product.route
  BY DEF ClaimNeedsEvidence
<1>1. PICK s \in Studies :
        /\ s = report.by /\ report.skipped = (executed[s] + 1) .. N
        /\ report.claimed = Claimed(records[s])
        /\ Len(records[s]) = executed[s] /\ executed[s] \in 0 .. N
        /\ DOMAIN records[s] = 1 .. executed[s]
        /\ CopiesOK(s) /\ RecordsOK(s)
  BY ReportParts
<1> DEFINE rs == records[s]
           n == executed[s]
<1>2. /\ n >= 2 /\ N \in Nat /\ n \in Nat
      /\ \A i \in 1 .. n : Ok(rs[i]) /\ rs[i].status = "QUALIFIED" /\ rs[i].level = "comparable"
      /\ \A i, j \in 1 .. n : rs[i].route = rs[j].route
  <2>1. Claimed(rs)
    BY <1>1
  <2>2. PICK route \in Routes : RoutesOf(rs) = {route}
    BY <2>1 DEF Claimed
  <2>3. \A i \in 1 .. n : rs[i].route = route
    BY <1>1, <2>2 DEF RoutesOf
  <2> QED BY <1>1, <2>1, <2>3, StudyAssumption DEF Claimed
<1>3. Point \ report.skipped = 1 .. n
  BY <1>1, <1>2 DEF Point
<1>4. N - 2 >= Cardinality(report.skipped)
  <2>1. Cardinality((n + 1) .. N) = IF n + 1 > N THEN 0 ELSE N - (n + 1) + 1
    <3>1. n + 1 \in Int /\ N \in Int
      BY <1>2
    <3> QED BY <3>1, FS_Interval, Zenon
  <2> QED BY <1>1, <1>2, <2>1
<1>5. ASSUME NEW p \in 1 .. n
      PROVE  /\ HoldsEvidence(s, p)
             /\ package[RunId(doc[s], p)].product.status = rs[p].status
             /\ package[RunId(doc[s], p)].product.level = rs[p].level
             /\ package[RunId(doc[s], p)].product.route = rs[p].route
  <2>1. RecordOK(s, rs[p], p) /\ CopyOK(s, rs[p]) /\ Ok(rs[p])
    BY <1>1, <1>2 DEF RecordsOK, CopiesOK
  <2>2. /\ HoldsEvidence(s, p) /\ rs[p].run = RunId(doc[s], p)
        /\ package[rs[p].run].product.seal = "whole"
    BY <2>1 DEF RecordOK, HoldsEvidence
  <2>3. rs[p].run # NoRun
    BY <2>2 DEF RunId, NoRun
  <2> QED BY <2>1, <2>2, <2>3 DEF CopyOK
<1> QED BY <1>1, <1>2, <1>3, <1>4, <1>5

\* Among levels there is always a weakest one.
LEMMA WeakestLevel ==
  ASSUME NEW P \in SUBSET Levels, P # {}
  PROVE  \E l \in P : \A m \in P : Weaker(l, m)
<1>1. /\ RUNTIME_EVIDENCE_LEVELS[1] = "diagnostic_only"
      /\ RUNTIME_EVIDENCE_LEVELS[2] = "functional"
      /\ RUNTIME_EVIDENCE_LEVELS[3] = "limited"
      /\ RUNTIME_EVIDENCE_LEVELS[4] = "comparable"
  BY DEF RUNTIME_EVIDENCE_LEVELS
<1>2. \A i, j \in 1 .. 4 :
        i <= j => Weaker(RUNTIME_EVIDENCE_LEVELS[i], RUNTIME_EVIDENCE_LEVELS[j])
  BY DEF Weaker
<1>3. \A m \in P : \E i \in 1 .. 4 : m = RUNTIME_EVIDENCE_LEVELS[i]
  BY DEF Levels
<1> DEFINE First(i) == /\ RUNTIME_EVIDENCE_LEVELS[i] \in P
                       /\ \A j \in 1 .. 4 : j < i => RUNTIME_EVIDENCE_LEVELS[j] \notin P
<1>4. \E i \in 1 .. 4 : First(i)
  <2>1. \/ RUNTIME_EVIDENCE_LEVELS[1] \in P \/ RUNTIME_EVIDENCE_LEVELS[2] \in P
        \/ RUNTIME_EVIDENCE_LEVELS[3] \in P \/ RUNTIME_EVIDENCE_LEVELS[4] \in P
    BY <1>3
  <2>2. First(1) \/ First(2) \/ First(3) \/ First(4)
    BY <2>1
  <2> QED BY <2>2
<1>5. PICK i \in 1 .. 4 : First(i)
  BY <1>4
<1>6. ASSUME NEW m \in P PROVE Weaker(RUNTIME_EVIDENCE_LEVELS[i], m)
  <2>1. PICK j \in 1 .. 4 : m = RUNTIME_EVIDENCE_LEVELS[j]
    BY <1>3
  <2>2. i <= j
    BY <1>5, <2>1
  <2> QED BY <1>2, <2>1, <2>2
<1> QED BY <1>5, <1>6

LEMMA CeilingBelow ==
  ASSUME NEW rs \in Seq(RecordType), NEW i \in DOMAIN rs
  PROVE  Weaker(Ceiling(rs), LevelOf(rs[i]))
<1> DEFINE published == {LevelOf(rs[j]) : j \in DOMAIN rs}
<1>1. published \in SUBSET Levels /\ LevelOf(rs[i]) \in published
  <2>1. "diagnostic_only" \in Levels
    BY DEF Levels, RUNTIME_EVIDENCE_LEVELS
  <2>2. \A r \in RecordType : LevelOf(r) \in Levels
    BY <2>1 DEF RecordType, LevelOf
  <2> QED BY <2>2
<1>2. \E l \in published : \A m \in published : Weaker(l, m)
  BY <1>1, WeakestLevel
<1>3. Ceiling(rs) = CHOOSE l \in published : \A m \in published : Weaker(l, m)
  BY DEF Ceiling
<1>4. \A m \in published : Weaker(Ceiling(rs), m)
  BY <1>2, <1>3
<1> QED BY <1>1, <1>4

\* Only the lowest level is weaker than the lowest.
LEMMA WeakerThanLowest ==
  ASSUME NEW l, Weaker(l, "diagnostic_only")
  PROVE  l = "diagnostic_only"
  BY DEF Weaker, RUNTIME_EVIDENCE_LEVELS

LEMMA CeilingIsInherited == AggregateInv => CeilingIsWeakest
<1> SUFFICES ASSUME AggregateInv, report # NoDoc, NEW i \in DOMAIN report.points
             PROVE  LET run == report.points[i].run IN
                    IF run = NoRun \/ package[run].product.seal = "manifest_lost"
                    THEN report.ceiling = "diagnostic_only"
                    ELSE Weaker(report.ceiling, package[run].product.level)
  BY DEF CeilingIsWeakest
<1>1. PICK s \in Studies :
        /\ report.points = records[s] /\ report.ceiling = Ceiling(records[s])
        /\ records[s] \in Seq(RecordType) /\ CopiesOK(s)
  BY ReportParts
<1> DEFINE r == records[s][i]
<1>2. CopyOK(s, r) /\ r \in RecordType /\ Weaker(report.ceiling, LevelOf(r))
  BY <1>1, CeilingBelow DEF CopiesOK
<1>3. CASE r.run = NoRun \/ package[r.run].product.seal = "manifest_lost"
  <2>1. LevelOf(r) = "diagnostic_only"
    BY <1>2, <1>3 DEF CopyOK, LevelOf
  <2> QED BY <1>1, <1>2, <1>3, <2>1, WeakerThanLowest
<1>4. CASE ~(r.run = NoRun \/ package[r.run].product.seal = "manifest_lost")
  <2>1. r.run \in RunIds /\ Published(r.run)
    BY <1>2, <1>4, StudyAssumption DEF CopyOK, RecordType, Published
  <2>2. package[r.run].product.level \in Levels
    BY <2>1, PublishedType DEF AggregateInv, StudyInv, TypeInv, Product
  <2>3. Undeclared \notin Levels
    BY DEF Undeclared, Levels, RUNTIME_EVIDENCE_LEVELS
  <2>4. LevelOf(r) = package[r.run].product.level
    BY <1>2, <1>4, <2>2, <2>3 DEF CopyOK, LevelOf
  <2> QED BY <1>1, <1>2, <1>4, <2>4
<1> QED BY <1>3, <1>4

\* The reasons are the exact opposite of the claim, whatever the records say.
LEMMA ReasonsAreComplete ==
  ASSUME NEW rs \in Seq(RecordType)
  PROVE  Claimed(rs) <=> \A x \in ReasonNames : ~ReasonHolds(x, rs)
<1>0. /\ DOMAIN rs = 1 .. Len(rs) /\ Len(rs) \in Nat
      /\ \A i \in DOMAIN rs : rs[i] \in RecordType
  OBVIOUS
<1>1. /\ ReasonHolds("empty_study", rs) <=> rs = <<>>
      /\ ReasonHolds("single_point_study", rs) <=> Len(rs) = 1
      /\ ReasonHolds("duplicate_points", rs) <=> DuplicatePoints(rs)
      /\ ReasonHolds("point_identity_incomplete", rs) <=> Undeclared \in RoutesOf(rs)
      /\ ReasonHolds("point_route_not_declared", rs) <=> Undeclared \in RoutesOf(rs)
  BY Zenon DEF ReasonHolds
<1>2. /\ ReasonHolds("route_identity_differs", rs) <=>
           \/ Undeclared \in RoutesOf(rs)
           \/ \E i, j \in DOMAIN rs : rs[i].route # rs[j].route
      /\ ReasonHolds("point_execution_failed", rs) <=>
           \E i \in DOMAIN rs : rs[i].problems \cap ExecutionProblems # {}
      /\ ReasonHolds("point_analysis_failed", rs) <=>
           \E i \in DOMAIN rs : rs[i].problems \cap AnalysisProblems # {}
      /\ ReasonHolds("point_not_qualified", rs) <=>
           \E i \in DOMAIN rs : rs[i].status # "QUALIFIED"
      /\ ReasonHolds("points_not_all_comparable", rs) <=>
           \E i \in DOMAIN rs : rs[i].level # "comparable"
      /\ ReasonHolds("point_evidence_level_not_declared", rs) <=>
           \E i \in DOMAIN rs : rs[i].level = Undeclared
  BY Zenon DEF ReasonHolds
<1>3. ASSUME Claimed(rs)
      PROVE  \A x \in ReasonNames : ~ReasonHolds(x, rs)
  <2>1. /\ rs # <<>> /\ Len(rs) # 1 /\ ~DuplicatePoints(rs)
        /\ \A i \in DOMAIN rs : rs[i].status = "QUALIFIED" /\ rs[i].level = "comparable"
    BY <1>0, <1>3 DEF Claimed
  <2>2. /\ Undeclared \notin RoutesOf(rs)
        /\ \A i, j \in DOMAIN rs : rs[i].route = rs[j].route
    BY <1>3 DEF Claimed, RoutesOf, Routes, Undeclared
  <2>3. \A i \in DOMAIN rs : rs[i].problems = {}
    BY <1>3 DEF Claimed, Ok
  <2> QED BY <1>1, <1>2, <2>1, <2>2, <2>3 DEF ReasonNames, Undeclared
<1>4. ASSUME \A x \in ReasonNames : ~ReasonHolds(x, rs)
      PROVE  Claimed(rs)
  <2>1. /\ rs # <<>> /\ Len(rs) # 1 /\ ~DuplicatePoints(rs)
        /\ \A i \in DOMAIN rs : rs[i].status = "QUALIFIED" /\ rs[i].level = "comparable"
        /\ Undeclared \notin RoutesOf(rs)
        /\ \A i, j \in DOMAIN rs : rs[i].route = rs[j].route
        /\ \A i \in DOMAIN rs : /\ rs[i].problems \cap ExecutionProblems = {}
                                /\ rs[i].problems \cap AnalysisProblems = {}
    BY <1>1, <1>2, <1>4 DEF ReasonNames
  <2>2. Len(rs) >= 2 /\ 1 \in DOMAIN rs
    BY <1>0, <2>1
  <2>3. \A i \in DOMAIN rs : Ok(rs[i])
    BY <1>0, <2>1 DEF RecordType, Ok
  <2>4. rs[1].route \in Routes
    BY <1>0, <2>1, <2>2 DEF RecordType, RoutesOf
  <2>5. RoutesOf(rs) = {rs[1].route}
    BY <2>1, <2>2 DEF RoutesOf
  <2> QED BY <2>1, <2>2, <2>3, <2>4, <2>5 DEF Claimed
<1> QED BY <1>3, <1>4

\* The aggregate of a published report, however many invocations share the
\* directory and whatever their runs leave: comparability is claimed only over
\* intact, qualified, comparable packages of one route, the ceiling is below
\* every package that a point names, and the reasons are complete.
THEOREM AggregateOfPackages == Spec => []AggregateIsHonest
<1>1. AggregateInv => ReasonsExplain
  <2> SUFFICES ASSUME AggregateInv, report # NoDoc
               PROVE  report.claimed <=> \A x \in ReasonNames : ~ReasonHolds(x, report.points)
    BY DEF ReasonsExplain
  <2>1. PICK s \in Studies :
          /\ report.points = records[s] /\ report.claimed = Claimed(records[s])
          /\ records[s] \in Seq(RecordType)
    BY ReportParts
  <2> QED BY <2>1, ReasonsAreComplete
<1>2. AggregateInv => AggregateIsHonest
  BY <1>1, ClaimIsCovered, CeilingIsInherited DEF AggregateIsHonest
<1> QED BY <1>2, AggregateInvariance, PTL

-----------------------------------------------------------------------------
\* The refinement of StudyLedger.
Fates == [s \in Studies |-> [p \in Point |-> Fate(s, p)]]
Verdicts == [s \in Studies |-> Verdict(s)]

LEMMA LedgerInit == Init => Ledger!Init
<1> SUFFICES ASSUME Init PROVE Ledger!Init OBVIOUS
<1>1. ASSUME NEW s \in Studies
      PROVE  Verdict(s) = "none" /\ \A p \in Point : Fate(s, p) = "planned"
  BY StudyAssumption DEF Init, Verdict, Fate, Point
<1> QED BY <1>1 DEF Ledger!Init, Ledger!Point, Point

\* A step of one invocation does not touch the ledger of another.
LEMMA OtherLedgers ==
  ASSUME StudyInv, NEW s \in Studies, OthersKeep(s), NEW t \in Studies, t # s
  PROVE  Fates'[t] = Fates[t] /\ Verdicts'[t] = Verdicts[t]
<1>1. records'[t] = records[t] /\ pc'[t] = pc[t] /\ code'[t] = code[t]
  BY DEF OthersKeep
<1> QED BY <1>1 DEF Fates, Verdicts, Fate, Verdict, Ok

\* A step that ends no point and no invocation does not show.
LEMMA Silent ==
  ASSUME StudyInv, NEW s \in Studies, OthersKeep(s), records'[s] = records[s],
         pc[s] \notin Ended, pc'[s] \notin Ended
  PROVE  UNCHANGED <<Fates, Verdicts>>
<1>1. Verdict(s) = "none" /\ Verdict(s)' = "none"
  BY DEF Verdict, Ended
<1>2. \A p \in Point : Fate(s, p)' = Fate(s, p)
  BY DEF Fate, Ok
<1>3. \A t \in Studies : Fates'[t] = Fates[t] /\ Verdicts'[t] = Verdicts[t]
  BY <1>1, <1>2, OtherLedgers DEF Fates, Verdicts
<1> QED BY <1>3 DEF Fates, Verdicts

\* A point that ends is an attempt of the first open point.
LEMMA Attempted ==
  ASSUME StudyInv, NEW s \in Studies, OthersKeep(s), NEW r, AppendRecord(s, r),
         Len(records[s]) + 1 \in Point,
         pc[s] \notin Ended, pc'[s] \notin Ended
  PROVE  Ledger!Attempt(s, Len(records[s]) + 1)
<1> DEFINE n == Len(records[s])
           f == IF Ok(r) THEN "ok" ELSE "failed"
<1>1. /\ n \in Nat /\ records[s] \in Seq(RecordType) /\ N \in Nat
      /\ records'[s] = Append(records[s], r)
  BY RecordsType, StudyAssumption DEF StudyInv, TypeInv, TypeOK, AppendRecord
<1>2. Verdict(s) = "none" /\ Verdict(s)' = "none"
  BY DEF Verdict, Ended
<1>3. \A p \in Point : Fate(s, p) = "planned" <=> p > n
  BY DEF Fate
<1>4. ASSUME NEW p \in Point
      PROVE  Fate(s, p)' = IF p = n + 1 THEN f ELSE Fate(s, p)
  <2>1. p \in Nat /\ p >= 1 /\ Len(records'[s]) = n + 1 /\ records'[s][n + 1] = r
    BY <1>1 DEF Point
  <2>2. p <= n => records'[s][p] = records[s][p]
    BY <1>1, <2>1
  <2> QED BY <1>1, <2>1, <2>2 DEF Fate, Ok
<1>5. \A t \in Studies : Verdicts'[t] = Verdicts[t]
  BY <1>2, OtherLedgers DEF Verdicts
<1>6. Verdicts' = Verdicts
  BY <1>5 DEF Verdicts
<1>7. Fates'[s] = [Fates[s] EXCEPT ![n + 1] = f]
  BY <1>4 DEF Fates
<1>8. Fates' = [Fates EXCEPT ![s][n + 1] = f]
  <2>1. \A t \in Studies : t # s => Fates'[t] = Fates[t]
    BY OtherLedgers
  <2>2. DOMAIN Fates = Studies /\ DOMAIN Fates' = Studies
    BY DEF Fates
  <2>3. /\ Fates = [t \in Studies |-> Fates[t]]
        /\ Fates' = [t \in Studies |-> Fates'[t]]
    BY DEF Fates
  <2> HIDE DEF n, f
  <2> QED BY <1>7, <2>1, <2>2, <2>3
<1>9. /\ n + 1 \in Ledger!Open(s)
      /\ \A q \in Ledger!Open(s) : n + 1 <= q
  <2>1. Ledger!Open(s) = {p \in Point : Fate(s, p) = "planned"}
    BY DEF Ledger!Open, Ledger!Point, Point
  <2> QED BY <1>1, <1>3, <2>1 DEF Point
<1>10. f \in {"ok", "failed"}
  OBVIOUS
<1>11. Verdicts[s] = "none"
  BY <1>2 DEF Verdicts
<1> HIDE DEF n, f
<1> QED BY <1>6, <1>8, <1>9, <1>10, <1>11 DEF Ledger!Attempt, Fates, Verdicts, n

\* The end of an invocation is its verdict.
LEMMA Concluded ==
  ASSUME StudyInv, NEW s \in Studies, OthersKeep(s),
         WriteReport(s) \/ ReportFails(s) \/ Interrupt(s)
  PROVE  Ledger!Pass(s) \/ Ledger!Refuse(s)
<1>1. /\ Verdict(s) = "none" /\ records'[s] = records[s]
      /\ pc[s] \notin Ended /\ pc'[s] \in Ended
  BY DEF WriteReport, ReportFails, Interrupt, Goto, Verdict, Ended, StudyInv, TypeInv,
    TypeOK
<1>2. \A t \in Studies : Fates'[t] = Fates[t]
  <2>1. \A p \in Point : Fate(s, p)' = Fate(s, p)
    BY <1>1 DEF Fate, Ok
  <2> QED BY <2>1, OtherLedgers DEF Fates
<1>3. Fates' = Fates
  BY <1>2 DEF Fates
<1>4. Verdicts' = [Verdicts EXCEPT ![s] = Verdict(s)']
  <2>1. \A t \in Studies : t # s => Verdicts'[t] = Verdicts[t]
    BY OtherLedgers
  <2> QED BY <2>1 DEF Verdicts
<1>5. CASE Verdict(s)' = "pass"
  <2>1. pc'[s] = "done" /\ code'[s] = 0
    BY <1>1, <1>5 DEF Verdict, Ended
  <2>2. pc[s] = "loop" /\ ExitCode(s) = 0 /\ ~MorePoints(s)
    BY <2>1 DEF WriteReport, ReportFails, Interrupt, Goto, StudyInv, TypeInv, TypeOK
  <2>3. ASSUME NEW p \in Point
        PROVE  Fate(s, p) # "failed" /\ (p = 1 => Fate(s, p) = "ok")
    <3>1. /\ executed[s] \in Nat \ {0} /\ Len(records[s]) = executed[s] /\ p \in Nat
          /\ p >= 1 /\ \A i \in 1 .. executed[s] : Ok(records[s][i])
      BY <2>2, PassMeans, StudyAssumption DEF Point
    <3> QED BY <3>1 DEF Fate
  <2>4. 1 \in Point
    BY StudyAssumption DEF Point
  <2> QED BY <1>1, <1>3, <1>4, <1>5, <2>3, <2>4
    DEF Ledger!Pass, Ledger!Point, Point, Fates, Verdicts
<1>6. CASE Verdict(s)' # "pass"
  <2>1. Verdict(s)' \in {"fail", "lost"}
    BY <1>1, <1>6 DEF Verdict, Ended
  <2> QED BY <1>1, <1>3, <1>4, <2>1 DEF Ledger!Refuse, Fates, Verdicts
<1> QED BY <1>5, <1>6

\* Every step shows in the ledger as one of its steps or not at all.
LEMMA LedgerStep ==
  StudyInv /\ [Next]_vars => [Ledger!Next]_<<Fates, Verdicts>>
<1> SUFFICES ASSUME StudyInv, [Next]_vars
             PROVE  Ledger!Next \/ UNCHANGED <<Fates, Verdicts>>
  OBVIOUS
<1>1. CASE UNCHANGED vars
  <2>1. UNCHANGED <<records, pc, code>>
    BY <1>1 DEF vars
  <2>2. \A s \in Studies : Verdict(s)' = Verdict(s) /\ \A p \in Point : Fate(s, p)' = Fate(s, p)
    BY <2>1 DEF Verdict, Fate, Ok
  <2> QED BY <2>2 DEF Fates, Verdicts
<1>2. ASSUME NEW s \in Studies, Step(s) \/ Interrupt(s)
      PROVE  Ledger!Next \/ UNCHANGED <<Fates, Verdicts>>
  <2> DEFINE n == Len(records[s])
  <2>1. OthersKeep(s)
    BY <1>2, StepsKeepOthers DEF StudyInv
  <2>2. CASE WriteConfig(s) \/ ReadConfig(s) \/ RunPublishes(s) \/ RunLeavesNothing(s)
    <3>1. records' = records /\ pc[s] \notin Ended /\ pc'[s] \notin Ended
      BY <2>2 DEF WriteConfig, ReadConfig, RunPublishes, RunLeavesNothing, Goto, Ended,
        StudyInv, TypeInv, TypeOK
    <3> QED BY <2>1, <3>1, Silent
  <2>3. CASE ConfigFails(s)
    <3>1. pc[s] = "loop" /\ pc'[s] = "loop" /\ executed[s] \in 0 .. N /\ executed[s] < N
      BY <2>3 DEF ConfigFails, Goto, MorePoints, StudyInv, TypeInv, TypeOK
    <3>2. n + 1 \in Point
      BY <3>1, StudyAssumption DEF StudyInv, StudyOK, PlanOK, Point
    <3>3. AppendRecord(s, Failed(executed[s] + 1, "config_write"))
      BY <2>3 DEF ConfigFails
    <3>4. Ledger!Attempt(s, n + 1)
      BY <2>1, <3>1, <3>2, <3>3, Attempted DEF Ended
    <3> QED BY <3>2, <3>4 DEF Ledger!Next, Ledger!Point, Point
  <2>4. CASE RunRaises(s) \/ NoRunDir(s) \/ Examine(s)
    <3>1. pc[s] \in Middle /\ pc'[s] = "loop"
      BY <2>4 DEF RunRaises, NoRunDir, Examine, Goto, Middle, StudyInv, TypeInv, TypeOK
    <3>2. n + 1 \in Point
      BY <3>1 DEF StudyInv, TypeInv, HandOK, StudyOK, PlanOK
    <3>3. \E r : AppendRecord(s, r)
      BY <2>4 DEF RunRaises, NoRunDir, Examine
    <3>4. Ledger!Attempt(s, n + 1)
      BY <2>1, <3>1, <3>2, <3>3, Attempted DEF Ended, Middle
    <3> QED BY <3>2, <3>4 DEF Ledger!Next, Ledger!Point, Point
  <2>5. CASE WriteReport(s) \/ ReportFails(s) \/ Interrupt(s)
    BY <2>1, <2>5, Concluded DEF Ledger!Next
  <2> QED BY <1>2, <2>2, <2>3, <2>4, <2>5 DEF Step
<1> QED BY <1>1, <1>2 DEF Next

\* Every invocation keeps the promise of StudyLedger: it attempts its points
\* in order and each once, forgets none, and passes only over points that did
\* not fail.
THEOREM LedgerKept == Spec => LedgerSpec
<1>1. Spec => Ledger!Init /\ [][Ledger!Next]_<<Fates, Verdicts>>
  BY LedgerInit, LedgerStep, Invariance, PTL DEF Spec
<1> QED BY <1>1, PTL DEF LedgerSpec, Ledger!Spec, Fates, Verdicts
=============================================================================
