--------------------------- MODULE RunLoop_proofs ---------------------------
(***************************************************************************)
(* Theorems about RunLoop, for every timebase, checkpoint interval, set of *)
(* faults, kind of stop and number of runs.                                *)
(***************************************************************************)
EXTENDS RunLoop, SequenceTheorems, TLAPS

(***************************************************************************)
(* Facts about the operators the actions are built from.                   *)
(***************************************************************************)
LEMMA PCFacts ==
  PCs = {"load", "restore", "reset", "initial", "advance", "sample", "control",
         "endpoint", "checkpoint", "negotiate", "resume", "resume_locals",
         "resume_start", "initial_checks", "top", "act", "drive", "settle",
         "step_file", "hooks", "graded", "idle", "last_checkpoint",
         "last_step_file", "publish", "finalize"}
  BY DEF PCs, TryBlock, AdapterCalls

LEMMA ClockType == ASSUME NEW p \in Plant PROVE Clock(p) \in Nat
<1>1. p.trace \in Seq(Nat)
  BY DEF Plant
<1>2. Len(p.trace) \in Nat
  BY <1>1
<1>3. (IF p.origin = "initial" THEN StartTime ELSE 0) \in Nat
  BY TimebaseAssumption
<1> DEFINE origin == IF p.origin = "initial" THEN StartTime ELSE 0
           ticks == Len(p.trace)
<1>4. Clock(p) = origin + ticks
  BY DEF Clock
<1> HIDE DEF origin, ticks
<1> QED
  BY <1>2, <1>3, <1>4 DEF origin, ticks

LEMMA StepsType == Steps \in Nat
<1> DEFINE n == Duration + Period - 1
<1>1. n \in Nat /\ Period \in Nat /\ Period > 0
  BY TimebaseAssumption
<1>2. n \div Period \in Nat
  <2> HIDE DEF n
  <2> QED
    BY <1>1
<1> QED
  BY <1>2 DEF Steps

LEMMA FailType ==
  ASSUME TypeOK, NEW category \in Categories, Fail(category)
  PROVE  failure' \in Failure /\ machine' \in Statuses /\ pc' \in PCs
  BY PCFacts DEF Fail, Failure, Statuses

LEMMA RejectsType ==
  ASSUME TypeOK, NEW kinds \in SUBSET {"safety", "validity", "applicability"},
         Rejects(kinds, "check_failure")
  PROVE  /\ failure' \in Failure /\ machine' \in Statuses /\ pc' \in PCs
         /\ report' \in Report
<1>1. "check_failure" \in Categories
  BY DEF Categories
<1>2. report' \in Report
  BY DEF Rejects, TypeOK, Report
<1> QED
  BY <1>1, <1>2, FailType DEF Rejects

LEMMA EscapeType == ASSUME TypeOK, Escape PROVE TypeOK'
<1> DEFINE entry == [dir |-> "tmp", samples |-> <<>>, passed |-> FALSE,
                     manifest |-> IF pc = "finalize" THEN machine ELSE "none",
                     failure |-> NoFailure, files |-> files,
                     latest |-> latest, spec |-> loop.spec]
<1>1. NoFailure \in Failure
  BY DEF NoFailure, Failure
<1>2. loop.spec \in Specs
  BY DEF TypeOK, Loop
<1>3. files \in SUBSET Checkpoint /\ latest \in SUBSET Checkpoint
      /\ machine \in Statuses
  BY DEF TypeOK
<1>5. entry \in Package
  BY <1>1, <1>2, <1>3 DEF Package
<1>6. store' = [store EXCEPT ![run] = entry]
  BY DEF Escape
<1> HIDE DEF entry
<1>7. store' \in [Runs -> Package]
  BY <1>5, <1>6 DEF TypeOK
<1> QED
  BY <1>7, PCFacts DEF Escape, TypeOK

LEMMA StopType ==
  ASSUME TypeOK, NEW category \in {"interrupted", "cancelled"}, Stop(category)
  PROVE  TypeOK'
<1>1. CASE machine' = "INCOMPLETE" /\ ~Escape
  <2>1. category \in Categories
    BY DEF Categories
  <2>2. failure' = [category |-> category, recoverable |-> TRUE,
                    checkpoint_available |-> TRUE]
    BY <1>1 DEF Stop
  <2>3. failure' \in Failure
    BY <2>1, <2>2 DEF Failure
  <2>4. machine' \in Statuses
    BY <1>1 DEF Statuses
  <2> QED
    BY <1>1, <2>3, <2>4, PCFacts DEF Stop, TypeOK
<1>2. CASE Escape
  BY <1>2, EscapeType
<1> QED
  BY <1>1, <1>2 DEF Stop

LEMMA StartAdvanceType ==
  ASSUME TypeOK, NEW action \in Nat, NEW end \in Nat, end >= loop.time,
         NEW then \in {"sample", "drive", "endpoint"},
         StartAdvance(action, end, then)
  PROVE  adv' \in Advance /\ pc' \in PCs
<1>1. loop.time \in Nat
  BY DEF TypeOK, Loop
<1>2. end - loop.time \in Nat
  BY <1>1
<1> QED
  BY <1>2, PCFacts DEF StartAdvance, Advance

LEMMA WriteCheckpointType ==
  ASSUME TypeOK, NEW next \in Nat, WriteCheckpoint(next)
  PROVE  latest' \in SUBSET Checkpoint
<1>1. CheckpointOf(next) \in Checkpoint
  BY DEF CheckpointOf, TypeOK, Loop, Checkpoint
<1> QED
  BY <1>1 DEF WriteCheckpoint, TypeOK

LEMMA WriteStepFileType ==
  ASSUME TypeOK, WriteStepFile PROVE files' \in SUBSET Checkpoint
  BY DEF WriteStepFile, TypeOK

LEMMA BeginType ==
  ASSUME TypeOK, NEW s \in Specs, NEW source \in 0..MaxRuns,
         NEW step \in Nat \cup {-1}, Begin(s, source, step)
  PROVE  TypeOK'
<1>1. loop' \in Loop
  BY DEF Begin, FreshLoop, Loop
<1>2. plant' \in Plant /\ adv' \in Advance
  BY DEF Begin, FreshPlant, Plant, NoAdvance, Advance
<1>3. report' \in Report /\ failure' \in Failure /\ machine' \in Statuses
  BY DEF Begin, AllPassed, Report, NoFailure, Failure, Statuses
<1>4. run' \in 0..MaxRuns
  BY PolicyAssumption DEF Begin, TypeOK
<1> QED
  BY <1>1, <1>2, <1>3, <1>4, PCFacts DEF Begin, TypeOK

(***************************************************************************)
(* Type correctness.  A checkpoint is only read by a call that named a     *)
(* source, so the two go together.                                         *)
(***************************************************************************)
Loading == {"load", "restore", "resume", "resume_locals", "resume_start"}
SourceOK == pc \in Loading => loop.source \in Runs
TypeInv == TypeOK /\ SourceOK

LEMMA LoadableType ==
  ASSUME TypeInv, pc \in Loading PROVE Loadable \subseteq Checkpoint
<1>1. Source \in Package
  BY DEF TypeInv, SourceOK, TypeOK, Source
<1>2. Source.files \subseteq Checkpoint /\ Source.latest \subseteq Checkpoint
  BY <1>1 DEF Package
<1> QED
  BY <1>2 DEF Loadable, Named

LEMMA TypeStep == TypeInv /\ [Next]_vars => TypeInv'
<1> SUFFICES ASSUME TypeInv, [Next]_vars PROVE TypeInv'
  OBVIOUS
<1> USE DEF TypeInv
<1>1. CASE Negotiate
  <2>1. "missing_capability" \in Categories
    BY DEF Categories
  <2>2. TypeOK'
    BY <1>1, <2>1, FailType, PCFacts DEF Negotiate, TypeOK
  <2>3. loop.source # 0 => loop.source \in Runs
    BY PolicyAssumption DEF TypeOK, Loop, Runs
  <2> QED
    BY <1>1, <2>2, <2>3 DEF Negotiate, Fail, SourceOK, Loading
<1>2. CASE LoadRejected
  <2>1. "runtime_error" \in Categories
    BY DEF Categories
  <2> QED
    BY <1>2, <2>1, FailType DEF LoadRejected, Fail, TypeOK, SourceOK, Loading
<1>3. CASE RestorePlant \/ RestoreController
  <2>1. pc \in Loading /\ pc' \in {"restore", "resume"}
    BY <1>3 DEF RestorePlant, RestoreController, Loading
  <2>2. CASE RestorePlant
    <3>1. PICK c \in Loadable : plant' = c.plant
      BY <2>2 DEF RestorePlant
    <3>2. c.plant \in Plant
      BY <2>1, LoadableType DEF Checkpoint
    <3> QED
      BY <2>1, <2>2, <3>1, <3>2, PCFacts
      DEF RestorePlant, TypeOK, SourceOK, Loading
  <2>3. CASE RestoreController
    <3>1. PICK c \in Loadable : /\ ctl' = c.controller
                              /\ loop' = [loop EXCEPT !.cstate = c.controller]
      BY <2>3 DEF RestoreController
    <3>2. c.controller \in Nat
      BY <2>1, LoadableType DEF Checkpoint
    <3>3. loop' \in Loop /\ loop'.source = loop.source
      BY <3>1, <3>2 DEF TypeOK, Loop
    <3> QED
      BY <2>1, <2>3, <3>1, <3>2, <3>3, PCFacts
      DEF RestoreController, TypeOK, SourceOK, Loading
  <2> QED
    BY <1>3, <2>2, <2>3
<1>4. CASE ResumeSamples \/ ResumeLocals \/ ResumeStart
  <2>1. /\ pc \in Loading /\ pc' \in {"resume_locals", "resume_start", "top"}
        /\ UNCHANGED <<run, plant, ctl, adv, report, machine, failure, files,
                       latest, cancelled, store>>
    BY <1>4 DEF ResumeSamples, ResumeLocals, ResumeStart, Loading
  <2>2. \A c \in Loadable :
          /\ c.samples \in Seq(Row) /\ c.next \in Nat /\ c.lastAction \in Nat
          /\ c.time \in Nat /\ c.start \in Nat
    BY <2>1, LoadableType DEF Checkpoint
  <2>3. loop' \in Loop /\ loop'.source = loop.source
    <3>1. CASE ResumeSamples
      BY <2>2, <3>1 DEF ResumeSamples, TypeOK, Loop
    <3>2. CASE ResumeLocals
      BY <2>2, <3>2 DEF ResumeLocals, TypeOK, Loop
    <3>3. CASE ResumeStart
      BY <2>2, <3>3 DEF ResumeStart, TypeOK, Loop
    <3> QED
      BY <1>4, <3>1, <3>2, <3>3
  <2> QED
    BY <2>1, <2>3, PCFacts DEF TypeOK, SourceOK, Loading
<1>5. CASE ResetAdapters
  <2>1. plant' \in Plant
    BY <1>5 DEF ResetAdapters, Plant
  <2>2. loop' \in Loop
    BY <1>5 DEF ResetAdapters, TypeOK, Loop
  <2> QED
    BY <1>5, <2>1, <2>2, PCFacts DEF ResetAdapters, TypeOK, SourceOK, Loading
<1>6. CASE InitialObservation \/ InitialChecks
  <2>1. Clock(plant) \in Nat
    BY ClockType DEF TypeOK
  <2>2. loop' \in Loop
    <3>1. CASE InitialObservation
      BY <2>1, <3>1 DEF InitialObservation, TypeOK, Loop
    <3>2. CASE InitialChecks
      BY <3>2 DEF InitialChecks, TypeOK, Loop
    <3> QED
      BY <1>6, <3>1, <3>2
  <2>3. CASE InitialObservation
    BY <2>2, <2>3, PCFacts DEF InitialObservation, TypeOK, SourceOK, Loading
  <2>4. CASE InitialChecks /\ pc' = "top" /\ UNCHANGED <<report, machine, failure>>
    BY <2>2, <2>4, PCFacts DEF InitialChecks, TypeOK, SourceOK, Loading
  <2>5. CASE InitialChecks
             /\ Rejects({"validity", "applicability", "safety"}, "check_failure")
    BY <2>2, <2>5, RejectsType
    DEF InitialChecks, TypeOK, SourceOK, Loading, Rejects, Fail
  <2> QED
    BY <1>6, <2>3, <2>4, <2>5 DEF InitialChecks
<1>7. CASE PollCancel
  <2>1. TypeOK'
    BY <1>7, StopType DEF PollCancel
  <2> QED
    BY <1>7, <2>1 DEF PollCancel, Stop, Escape, SourceOK, Loading
<1>8. CASE OpenWindow
  <2>1. loop' \in Loop
    BY <1>8 DEF OpenWindow, TypeOK, Loop
  <2>2. CASE ~WindowFits
    <3>1. "runtime_error" \in Categories
      BY DEF Categories
    <3> QED
      BY <1>8, <2>1, <2>2, <3>1, FailType
      DEF OpenWindow, TypeOK, SourceOK, Loading, Fail
  <2>3. CASE WindowFits
    <3>1. loop.time \in Nat /\ loop.lastAction \in Nat
      BY DEF TypeOK, Loop
    <3>2. CASE Offset > 0
      <4>1. StartAdvance(loop.lastAction, loop.time + Offset, "sample")
        BY <1>8, <2>3, <3>2 DEF OpenWindow
      <4>2. loop.time + Offset \in Nat /\ loop.time + Offset >= loop.time
        BY <3>1, TimebaseAssumption
      <4>3. adv' \in Advance /\ pc' \in PCs /\ pc' = "advance"
        BY <3>1, <4>1, <4>2, StartAdvanceType DEF StartAdvance
      <4> QED
        BY <1>8, <2>1, <2>3, <3>2, <4>3
        DEF OpenWindow, TypeOK, SourceOK, Loading
    <3>3. CASE ~(Offset > 0)
      BY <1>8, <2>1, <2>3, <3>3, PCFacts
      DEF OpenWindow, TypeOK, SourceOK, Loading
    <3> QED
      BY <3>2, <3>3
  <2> QED
    BY <2>2, <2>3
<1>9. CASE AdvancePlant
  <2> DEFINE segment == Least(PlantStep, adv.left)
             added == [i \in 1..segment |-> adv.action]
  <2>1. segment \in Nat /\ adv.left - segment \in Nat
    BY <1>9, TimebaseAssumption DEF AdvancePlant, TypeOK, Advance, Least
  <2>2. added \in Seq(Nat)
    BY <2>1 DEF TypeOK, Advance
  <2>3. plant.trace \o added \in Seq(Nat)
    BY <2>2 DEF TypeOK, Plant
  <2>4. /\ plant' = [plant EXCEPT !.trace = plant.trace \o added]
        /\ adv' = [adv EXCEPT !.left = adv.left - segment]
    BY <1>9 DEF AdvancePlant, TypeOK, Plant
  <2>5. plant' \in Plant
    BY <2>3, <2>4 DEF TypeOK, Plant
  <2> HIDE DEF segment
  <2>6. adv' \in Advance
    BY <2>1, <2>4 DEF TypeOK, Advance
  <2> QED
    BY <1>9, <2>5, <2>6 DEF AdvancePlant, TypeOK, SourceOK, Loading
<1>10. CASE AdvanceReturns
  <2>1. Clock(plant) \in Nat
    BY ClockType DEF TypeOK
  <2>2. loop' \in Loop
    BY <1>10, <2>1 DEF AdvanceReturns, TypeOK, Loop
  <2>3. "plant_advance_failure" \in Categories
    BY DEF Categories
  <2>4. adv.then \in {"sample", "drive", "endpoint"}
    BY DEF TypeOK, Advance
  <2>5. CASE Clock(plant) # adv.end
    BY <1>10, <2>2, <2>3, <2>5, FailType
    DEF AdvanceReturns, TypeOK, SourceOK, Loading, Fail
  <2>6. CASE Clock(plant) = adv.end
    BY <1>10, <2>2, <2>4, <2>6, PCFacts
    DEF AdvanceReturns, TypeOK, SourceOK, Loading
  <2> QED
    BY <2>5, <2>6
<1>11. CASE AdapterRaises
  <2>1. {"runtime_error", "plant_advance_failure", "plant_execution_failure"}
           \subseteq Categories
    BY DEF Categories
  <2> QED
    BY <1>11, <2>1, FailType DEF AdapterRaises, TypeOK, SourceOK, Loading, Fail
<1>12. CASE Observe
  <2>1. "check_failure" \in Categories
    BY DEF Categories
  <2>2. CASE pc' = "control" /\ UNCHANGED <<report, machine, failure>>
    BY <1>12, <2>2, PCFacts DEF Observe, TypeOK, SourceOK, Loading
  <2>3. CASE report' = [report EXCEPT !.validity = FALSE]
             /\ Fail("check_failure")
    <3>1. report' \in Report
      BY <2>3 DEF TypeOK, Report
    <3> QED
      BY <1>12, <2>1, <2>3, <3>1, FailType
      DEF Observe, TypeOK, SourceOK, Loading, Fail
  <2>4. CASE Rejects({"safety", "validity", "applicability"}, "check_failure")
    BY <1>12, <2>4, RejectsType
    DEF Observe, TypeOK, SourceOK, Loading, Rejects, Fail
  <2> QED
    BY <1>12, <2>2, <2>3, <2>4 DEF Observe
<1>13. CASE Control
  <2>1. loop.time + Delay \in Nat /\ ctl + 1 \in Nat
    BY TimebaseAssumption DEF TypeOK, Loop
  <2>2. loop' \in Loop /\ ctl' \in Nat
    BY <1>13, <2>1 DEF Control, TypeOK, Loop
  <2>3. "timing_violation" \in Categories
    BY DEF Categories
  <2>4. CASE Fail("timing_violation")
    BY <1>13, <2>2, <2>3, <2>4, FailType
    DEF Control, TypeOK, SourceOK, Loading, Fail
  <2>5. CASE pc' = "act" /\ UNCHANGED <<machine, failure>>
    BY <1>13, <2>2, <2>5, PCFacts DEF Control, TypeOK, SourceOK, Loading
  <2> QED
    BY <1>13, <2>4, <2>5 DEF Control
<1>14. CASE ProjectAction
  <2>1. {"check_failure", "action_invalid"} \subseteq Categories
    BY DEF Categories
  <2>2. CASE loop.target > loop.time
             /\ StartAdvance(loop.lastAction, loop.target, "drive")
             /\ UNCHANGED <<report, machine, failure>>
    <3>1. /\ loop.lastAction \in Nat /\ loop.target \in Nat
          /\ loop.time \in Nat /\ loop.target >= loop.time
      BY <2>2 DEF TypeOK, Loop
    <3>2. adv' \in Advance /\ pc' \in PCs /\ pc' = "advance"
      BY <2>2, <3>1, StartAdvanceType DEF StartAdvance
    <3> QED
      BY <1>14, <2>2, <3>2 DEF ProjectAction, TypeOK, SourceOK, Loading
  <2>3. CASE pc' = "drive" /\ UNCHANGED <<adv, report, machine, failure>>
    BY <1>14, <2>3, PCFacts DEF ProjectAction, TypeOK, SourceOK, Loading
  <2>4. CASE Rejects({"safety", "applicability"}, "check_failure")
             /\ UNCHANGED adv
    BY <1>14, <2>4, RejectsType
    DEF ProjectAction, TypeOK, SourceOK, Loading, Rejects, Fail
  <2>5. CASE Fail("action_invalid") /\ UNCHANGED <<report, adv>>
    BY <1>14, <2>1, <2>5, FailType
    DEF ProjectAction, TypeOK, SourceOK, Loading, Fail
  <2> QED
    BY <1>14, <2>2, <2>3, <2>4, <2>5 DEF ProjectAction
<1>15. CASE Drive
  <2>1. /\ loop.time \in Nat /\ loop.action \in Nat /\ loop.cycle \in Nat
        /\ loop.start \in Nat
    BY DEF TypeOK, Loop
  <2>2. CASE Endpoint > loop.time
    <3>1. Endpoint \in Int
      BY <2>1, TimebaseAssumption DEF Endpoint, WindowAt, Least
    <3>2. Endpoint \in Nat /\ Endpoint >= loop.time
      BY <2>1, <2>2, <3>1
    <3>3. adv' \in Advance /\ pc' \in PCs /\ pc' = "advance"
      BY <1>15, <2>1, <2>2, <3>2, StartAdvanceType DEF Drive, StartAdvance
    <3> QED
      BY <1>15, <3>3 DEF Drive, TypeOK, SourceOK, Loading
  <2>3. CASE ~(Endpoint > loop.time)
    BY <1>15, <2>3, PCFacts DEF Drive, TypeOK, SourceOK, Loading
  <2> QED
    BY <2>2, <2>3
<1>16. CASE CloseWindow
  <2> DEFINE row == [index |-> loop.index, time |-> loop.time,
                     action |-> loop.action]
  <2>1. {"check_failure", "plant_advance_failure"} \subseteq Categories
    BY DEF Categories
  <2>2. CASE /\ loop' = [loop EXCEPT !.samples = Append(@, row)]
             /\ pc' = "settle" /\ UNCHANGED <<report, machine, failure>>
    <3>1. row \in Row
      BY DEF TypeOK, Loop, Row
    <3>2. Append(loop.samples, row) \in Seq(Row)
      BY <3>1 DEF TypeOK, Loop
    <3> HIDE DEF row
    <3>3. loop' \in Loop
      BY <2>2, <3>2 DEF TypeOK, Loop
    <3> QED
      BY <1>16, <2>2, <3>3, PCFacts DEF CloseWindow, TypeOK, SourceOK, Loading
  <2>3. CASE report' = [report EXCEPT !.validity = FALSE]
             /\ Fail("check_failure") /\ UNCHANGED loop
    <3>1. report' \in Report
      BY <2>3 DEF TypeOK, Report
    <3> QED
      BY <1>16, <2>1, <2>3, <3>1, FailType
      DEF CloseWindow, TypeOK, SourceOK, Loading, Fail
  <2>4. CASE Fail("plant_advance_failure") /\ UNCHANGED <<report, loop>>
    BY <1>16, <2>1, <2>4, FailType
    DEF CloseWindow, TypeOK, SourceOK, Loading, Fail
  <2>5. CASE Rejects({"validity"}, "check_failure") /\ UNCHANGED loop
    BY <1>16, <2>5, RejectsType
    DEF CloseWindow, TypeOK, SourceOK, Loading, Rejects, Fail
  <2> QED
    BY <1>16, <2>2, <2>3, <2>4, <2>5 DEF CloseWindow
<1>17. CASE Settle
  <2>1. Clock(plant) \in Nat
    BY ClockType DEF TypeOK
  <2>2. loop' \in Loop
    BY <1>17, <2>1 DEF Settle, TypeOK, Loop
  <2> QED
    BY <1>17, <2>2, PCFacts DEF Settle, TypeOK, SourceOK, Loading
<1>18. CASE PeriodicCheckpoint \/ PeriodicStepFile
  <2>1. "runtime_error" \in Categories
    BY DEF Categories
  <2>2. CASE PeriodicCheckpoint /\ WriteCheckpoint(loop.index + 1)
             /\ pc' = "step_file" /\ UNCHANGED <<machine, failure>>
    <3>1. loop.index + 1 \in Nat
      BY DEF TypeOK, Loop
    <3>2. latest' \in SUBSET Checkpoint
      BY <2>2, <3>1, WriteCheckpointType
    <3> QED
      BY <2>2, <3>2, PCFacts DEF PeriodicCheckpoint, TypeOK, SourceOK, Loading
  <2>3. CASE PeriodicCheckpoint /\ Fail("runtime_error") /\ UNCHANGED latest
    BY <2>1, <2>3, FailType
    DEF PeriodicCheckpoint, TypeOK, SourceOK, Loading, Fail
  <2>4. CASE PeriodicCheckpoint /\ pc' = "hooks"
             /\ UNCHANGED <<latest, machine, failure>>
    BY <2>4, PCFacts DEF PeriodicCheckpoint, TypeOK, SourceOK, Loading
  <2>5. CASE PeriodicStepFile /\ WriteStepFile /\ pc' = "hooks"
             /\ UNCHANGED <<machine, failure>>
    BY <2>5, WriteStepFileType, PCFacts
    DEF PeriodicStepFile, TypeOK, SourceOK, Loading
  <2>6. CASE PeriodicStepFile /\ Fail("runtime_error") /\ UNCHANGED files
    BY <2>1, <2>6, FailType
    DEF PeriodicStepFile, TypeOK, SourceOK, Loading, Fail
  <2> QED
    BY <1>18, <2>2, <2>3, <2>4, <2>5, <2>6
    DEF PeriodicCheckpoint, PeriodicStepFile
<1>19. CASE NextWindow
  <2>1. loop.index + 1 \in Nat
    BY DEF TypeOK, Loop
  <2>2. loop' = [loop EXCEPT !.index = loop.index + 1]
    BY <1>19 DEF NextWindow
  <2>3. loop' \in Loop
    BY <2>1, <2>2 DEF TypeOK, Loop
  <2> QED
    BY <1>19, <2>3, PCFacts DEF NextWindow, TypeOK, SourceOK, Loading
<1>20. CASE Qualify
  <2>1. "runtime_error" \in Categories
    BY DEF Categories
  <2>2. CASE machine' = "RUN_OK"
    <3>1. report' \in Report
      BY <1>20, <2>2 DEF Qualify, Fail, TypeOK, Report
    <3>2. machine' \in Statuses
      BY <2>2 DEF Statuses
    <3> QED
      BY <1>20, <2>2, <3>1, <3>2, PCFacts
      DEF Qualify, Fail, TypeOK, SourceOK, Loading
  <2>3. CASE Fail("runtime_error") /\ UNCHANGED report
    BY <1>20, <2>1, <2>3, FailType DEF Qualify, TypeOK, SourceOK, Loading, Fail
  <2> QED
    BY <1>20, <2>2, <2>3 DEF Qualify
<1>21. CASE Grade
  <2>1. machine' \in Statuses
    BY <1>21 DEF Grade, Statuses
  <2> QED
    BY <1>21, <2>1, PCFacts DEF Grade, TypeOK, SourceOK, Loading
<1>22. CASE LastCheckpoint \/ LastStepFile
  <2>1. CASE LastCheckpoint /\ WriteCheckpoint(Len(loop.samples))
             /\ pc' = "last_step_file" /\ UNCHANGED failure
    <3>1. loop.samples \in Seq(Row)
      BY DEF TypeOK, Loop
    <3>2. Len(loop.samples) \in Nat
      BY <3>1
    <3>3. latest' \in SUBSET Checkpoint
      BY <2>1, <3>2, WriteCheckpointType
    <3> QED
      BY <2>1, <3>3, PCFacts DEF LastCheckpoint, TypeOK, SourceOK, Loading
  <2>2. CASE LastStepFile /\ WriteStepFile /\ pc' = "publish"
             /\ UNCHANGED failure
    BY <2>2, WriteStepFileType, PCFacts
    DEF LastStepFile, TypeOK, SourceOK, Loading
  <2>3. CASE CheckpointLost
    <3>1. failure' \in Failure
      BY <2>3 DEF CheckpointLost, TypeOK, Failure
    <3>2. pc' = "publish"
      BY <2>3 DEF CheckpointLost
    <3>3. UNCHANGED latest /\ files' \in SUBSET Checkpoint
      BY <1>22, <3>2 DEF LastCheckpoint, LastStepFile, WriteStepFile, TypeOK
    <3> QED
      BY <1>22, <3>1, <3>2, <3>3, PCFacts
      DEF LastCheckpoint, LastStepFile, TypeOK, SourceOK, Loading
  <2> QED
    BY <1>22, <2>1, <2>2, <2>3 DEF LastCheckpoint, LastStepFile
<1>23. CASE WriteManifest
  BY <1>23, PCFacts DEF WriteManifest, TypeOK, SourceOK, Loading
<1>24. CASE Finalize
  <2> DEFINE entry ==
        [dir |-> "published", manifest |-> machine, samples |-> loop.samples,
         passed |-> SafetyPassed, failure |-> failure, files |-> files,
         latest |-> latest, spec |-> loop.spec]
  <2>1. loop.samples \in Seq(Row) /\ loop.spec \in Specs
    BY DEF TypeOK, Loop
  <2>2. SafetyPassed \in BOOLEAN
    BY DEF SafetyPassed
  <2>3. entry \in Package
    BY <2>1, <2>2 DEF TypeOK, Package
  <2>4. store' = [store EXCEPT ![run] = entry]
    BY <1>24 DEF Finalize
  <2> HIDE DEF entry
  <2>5. store' \in [Runs -> Package]
    BY <2>3, <2>4 DEF TypeOK
  <2> QED
    BY <1>24, <2>5, PCFacts DEF Finalize, TypeOK, SourceOK, Loading
<1>25. CASE BeginFresh
  <2>1. PICK s \in Specs : Begin(s, 0, 0)
    BY <1>25 DEF BeginFresh
  <2>2. TypeOK'
    BY <2>1, BeginType, PolicyAssumption
  <2> QED
    BY <2>1, <2>2 DEF Begin, SourceOK, Loading
<1>26. CASE BeginResume
  <2>1. PICK s \in Specs, source \in Runs :
          \E step \in {c.next : c \in store[source].files} \cup {-1} :
            Begin(s, source, step)
    BY <1>26 DEF BeginResume
  <2>2. PICK step \in {c.next : c \in store[source].files} \cup {-1} :
          Begin(s, source, step)
    BY <2>1
  <2>3. store[source].files \subseteq Checkpoint
    BY DEF TypeOK, Package
  <2>4. step \in Nat \cup {-1}
    BY <2>3 DEF Checkpoint
  <2>5. TypeOK'
    BY <2>2, <2>4, BeginType DEF Runs
  <2> QED
    BY <2>2, <2>5 DEF Begin, SourceOK, Loading
<1>27. CASE RequestCancel
  BY <1>27 DEF RequestCancel, TypeOK, SourceOK, Loading
<1>28. CASE BoundaryStop
  <2>1. TypeOK'
    BY <1>28, StopType DEF BoundaryStop
  <2> QED
    BY <1>28, <2>1 DEF BoundaryStop, Stop, Escape, SourceOK, Loading
<1>29. CASE AsyncStop
  <2>1. TypeOK'
    BY <1>29, StopType DEF AsyncStop
  <2> QED
    BY <1>29, <2>1 DEF AsyncStop, Stop, Escape, SourceOK, Loading
<1>30. CASE Crash
  <2>1. TypeOK'
    BY <1>30, EscapeType DEF Crash
  <2> QED
    BY <1>30, <2>1 DEF Crash, Escape, SourceOK, Loading
<1>31. CASE UNCHANGED vars
  BY <1>31 DEF vars, TypeOK, SourceOK, Loading
<1> QED
  BY ONLY [Next]_vars, <1>1, <1>2, <1>3, <1>4, <1>5, <1>6, <1>7, <1>8, <1>9,
     <1>10, <1>11, <1>12, <1>13, <1>14, <1>15, <1>16, <1>17, <1>18, <1>19,
     <1>20, <1>21, <1>22, <1>23, <1>24, <1>25, <1>26, <1>27, <1>28, <1>29,
     <1>30, <1>31
  DEF Next, Step

LEMMA TypeInit == Init => TypeInv
<1> SUFFICES ASSUME Init PROVE TypeInv
  OBVIOUS
<1>1. (CHOOSE s \in Specs : TRUE) \in Specs
  BY PolicyAssumption
<1>2. loop \in Loop
  BY <1>1, PolicyAssumption DEF Init, FreshLoop, Loop
<1>3. plant \in Plant /\ adv \in Advance /\ report \in Report
  BY DEF Init, FreshPlant, Plant, NoAdvance, Advance, AllPassed, Report
<1>4. failure \in Failure /\ machine \in Statuses
  BY DEF Init, NoFailure, Failure, Statuses
<1>5. EmptyDir \in Package
  BY <1>1 DEF EmptyDir, Package, NoFailure, Failure, Row
<1>6. store \in [Runs -> Package]
  BY <1>5 DEF Init
<1>7. pc \in PCs /\ pc = "idle"
  BY PCFacts DEF Init
<1>8. run \in 0..MaxRuns /\ ctl \in Nat
  BY PolicyAssumption DEF Init
<1>9. files \in SUBSET Checkpoint /\ cancelled \in BOOLEAN
  BY DEF Init
<1>10. latest \in SUBSET Checkpoint
  BY DEF Init
<1> QED
  BY <1>2, <1>3, <1>4, <1>6, <1>7, <1>8, <1>9, <1>10
  DEF TypeInv, TypeOK, SourceOK, Loading

\* The variables of every reachable state hold the values the code gives them.
THEOREM TypeCorrect == Spec => []TypeOK
<1>1. TypeInv => TypeOK
  BY DEF TypeInv
<1> QED
  BY <1>1, TypeInit, TypeStep, PTL DEF Spec

(***************************************************************************)
(* The packages are honest.  The argument follows a call: as long as it is *)
(* in the try block nothing has failed and the samples count the windows   *)
(* that were closed; the ways out of the block set the status, the failure *)
(* and the recoverable flag together; every checkpoint, also one read from *)
(* an earlier run, holds as many samples as the window it continues with.  *)
(***************************************************************************)
Starting == {"negotiate", "load", "restore", "resume", "reset", "initial",
             "initial_checks"}
InWindow == {"advance", "sample", "control", "act", "drive", "endpoint"}
Closing == {"settle", "checkpoint", "step_file", "hooks"}
LastWrites == {"last_checkpoint", "last_step_file"}
Publishing == {"publish", "finalize"}
Completed == {"QUALIFIED", "DISQUALIFIED"}

CountOK ==
  /\ pc \in Starting => Len(loop.samples) = 0 /\ loop.index = 0
  /\ pc = "resume_locals" =>
       /\ loop.index = 0 /\ Len(loop.samples) <= Steps
       /\ \A c \in Loadable : Len(loop.samples) = c.next
  /\ pc \in {"resume_start", "top"} =>
       Len(loop.samples) = loop.index /\ loop.index <= Steps
  /\ pc \in InWindow => Len(loop.samples) = loop.index /\ loop.index < Steps
  /\ pc \in Closing => Len(loop.samples) = loop.index + 1 /\ loop.index < Steps
  /\ pc \in LastWrites => Len(loop.samples) <= Steps
  /\ pc = "graded" => Len(loop.samples) = Steps
  /\ pc \in Publishing /\ machine \in Completed => Len(loop.samples) = Steps

CheckpointOK(c) == c.next = Len(c.samples) /\ c.next <= Steps
FilesOK ==
  /\ \A c \in files \cup latest : CheckpointOK(c) /\ c.spec = loop.spec
  /\ \A c, d \in latest : c = d

StatusOK ==
  /\ pc \in TryBlock => /\ failure = NoFailure /\ report.safety
                        /\ report.validity /\ report.applicability
  /\ pc \in TryBlock \ {"graded"} => machine = "RUNNING"
  /\ pc = "graded" => machine = "RUN_OK"
  /\ pc \in LastWrites =>
       /\ machine = "INCOMPLETE" /\ failure.category # "none"
       /\ failure.recoverable
  /\ pc = "last_step_file" => latest # {}
  /\ pc \in Publishing =>
       /\ \/ /\ machine \in Completed /\ failure = NoFailure
             /\ report.safety /\ report.validity /\ report.applicability
          \/ /\ machine = "RUN_FAILED" /\ failure.category # "none"
             /\ ~failure.recoverable
          \/ /\ machine = "INCOMPLETE" /\ failure.category # "none"
             /\ failure.recoverable
       /\ failure.checkpoint_available => latest # {}

StoreOK ==
  /\ FailureNeverLooksQualified /\ CheckpointClaimIsHonest
  /\ \A r \in Runs : \A c \in store[r].files \cup store[r].latest :
       CheckpointOK(c)
  /\ \A r \in Runs : \A c, d \in store[r].latest : c = d

PackageInv == TypeInv /\ CountOK /\ FilesOK /\ StatusOK /\ StoreOK

LEMMA PackageInit == Init => PackageInv
<1> SUFFICES ASSUME Init PROVE PackageInv
  OBVIOUS
<1>1. TypeInv
  BY TypeInit
<1>2. CountOK /\ FilesOK /\ StatusOK
  BY DEF Init, CountOK, FilesOK, StatusOK, Starting, InWindow, Closing,
         LastWrites, Publishing, TryBlock, AdapterCalls
<1>3. \A r \in Runs : /\ store[r].dir = "none" /\ store[r].files = {}
                     /\ store[r].latest = {}
  BY DEF Init, EmptyDir
<1>4. StoreOK
  BY <1>3 DEF StoreOK, FailureNeverLooksQualified, CheckpointClaimIsHonest
<1> QED
  BY <1>1, <1>2, <1>4 DEF PackageInv

\* What a call has written is honest once the call is.
LEMMA StoreStep ==
  ASSUME PackageInv, [Next]_vars PROVE StoreOK'
<1> USE DEF PackageInv
<1>1. CASE UNCHANGED store
  BY <1>1 DEF StoreOK, FailureNeverLooksQualified, CheckpointClaimIsHonest,
              CheckpointOK
<1>2. CASE Escape
  <2> DEFINE entry ==
        [dir |-> "tmp", samples |-> <<>>, passed |-> FALSE,
         manifest |-> IF pc = "finalize" THEN machine ELSE "none",
         failure |-> NoFailure, files |-> files, latest |-> latest,
         spec |-> loop.spec]
  <2>1. entry.dir = "tmp" /\ entry.files = files /\ entry.latest = latest
    OBVIOUS
  <2>2. store' = [store EXCEPT ![run] = entry]
    BY <1>2 DEF Escape
  <2> HIDE DEF entry
  <2>3. \A r \in Runs : \/ store'[r] = store[r]
                        \/ /\ store'[r].dir = "tmp" /\ store'[r].files = files
                           /\ store'[r].latest = latest
    BY <2>1, <2>2 DEF TypeInv, TypeOK
  <2> QED
    BY <2>3 DEF StoreOK, FailureNeverLooksQualified, CheckpointClaimIsHonest,
                CheckpointOK, FilesOK
<1>3. CASE Finalize
  <2> DEFINE entry ==
        [dir |-> "published", manifest |-> machine, samples |-> loop.samples,
         passed |-> SafetyPassed, failure |-> failure, files |-> files,
         latest |-> latest, spec |-> loop.spec]
  <2>1. \A r \in Runs : store'[r] = store[r] \/ store'[r] = entry
    BY <1>3 DEF Finalize, TypeInv, TypeOK
  <2>2. pc = "finalize"
    BY <1>3 DEF Finalize
  <2>3. /\ machine \in {"QUALIFIED", "DISQUALIFIED", "RUN_FAILED", "INCOMPLETE"}
        /\ SafetyPassed <=> machine \in {"QUALIFIED", "DISQUALIFIED"}
        /\ SafetyPassed <=> failure.category = "none"
        /\ failure.recoverable <=> machine = "INCOMPLETE"
    BY <2>2 DEF StatusOK, Publishing, Completed, SafetyPassed, NoFailure
  <2>4. SafetyPassed => Len(loop.samples) = Steps
    BY <2>2, <2>3 DEF CountOK, Publishing, Completed
  <2>5. failure.checkpoint_available =>
          \E c \in latest : c.spec = loop.spec
    BY <2>2 DEF StatusOK, FilesOK, Publishing
  <2>6. /\ \A c \in files \cup latest : CheckpointOK(c)
        /\ \A c, d \in latest : c = d
    BY DEF FilesOK
  <2>7. FailureNeverLooksQualified'
    BY <2>1, <2>3, <2>4 DEF StoreOK, FailureNeverLooksQualified
  <2>8. CheckpointClaimIsHonest'
    BY <2>1, <2>3, <2>5 DEF StoreOK, CheckpointClaimIsHonest
  <2> QED
    BY <2>1, <2>6, <2>7, <2>8 DEF StoreOK, CheckpointOK
<1>4. UNCHANGED store \/ Escape \/ Finalize
  BY DEF Next, Step, vars, Negotiate, LoadRejected, RestorePlant,
         RestoreController, ResumeSamples, ResumeLocals, ResumeStart,
         ResetAdapters, InitialObservation, InitialChecks, PollCancel,
         OpenWindow, AdvancePlant, AdvanceReturns, AdapterRaises, Observe,
         Control, ProjectAction, Drive, CloseWindow, Settle,
         PeriodicCheckpoint, PeriodicStepFile, NextWindow, Qualify, Grade,
         LastCheckpoint, LastStepFile, WriteManifest, BeginFresh, BeginResume,
         Begin, RequestCancel, BoundaryStop, AsyncStop, Stop, Crash
<1> QED
  BY <1>1, <1>2, <1>3, <1>4

\* In the try block a call has closed no more windows than the run has.
LEMMA SamplesBounded ==
  ASSUME PackageInv, pc \in TryBlock PROVE Len(loop.samples) <= Steps
<1>1. loop.index \in Nat
  BY DEF PackageInv, TypeInv, TypeOK, Loop
<1> QED
  BY <1>1, StepsType DEF PackageInv, CountOK, Starting, InWindow, Closing,
     TryBlock, AdapterCalls

LEMMA FailKeepsCount ==
  ASSUME NEW category \in Categories, Fail(category) PROVE CountOK'
  BY DEF Fail, CountOK, Starting, InWindow, Closing, LastWrites, Publishing,
         Completed

LEMMA StopKeepsCount ==
  ASSUME PackageInv, pc \in TryBlock, NEW category, Stop(category)
  PROVE  CountOK'
<1>1. Len(loop.samples) <= Steps
  BY SamplesBounded
<1>2. CASE Escape
  BY <1>2 DEF Escape, CountOK, Starting, InWindow, Closing, LastWrites,
      Publishing
<1>3. CASE pc' = "last_checkpoint" /\ loop' = loop
  BY <1>1, <1>3 DEF CountOK, Starting, InWindow, Closing, LastWrites,
      Publishing
<1> QED
  BY <1>2, <1>3 DEF Stop

\* The document a call resumes from continues with the window after its
\* samples, and there is one.
LEMMA LoadableNext ==
  ASSUME PackageInv, pc \in Loading
  PROVE  \A c, d \in Loadable : CheckpointOK(c) /\ c.next = d.next
<1>1. loop.source \in Runs
  BY DEF PackageInv, TypeInv, SourceOK
<1>2. \A c \in Loadable : c \in Source.files \cup Source.latest
  BY DEF Loadable, Named
<1>3. \A c \in Loadable : CheckpointOK(c)
  BY <1>1, <1>2 DEF PackageInv, StoreOK, Source
<1>4. \A c, d \in Source.latest : c = d
  BY <1>1 DEF PackageInv, StoreOK, Source
<1>5. ASSUME NEW c \in Loadable, NEW d \in Loadable PROVE c.next = d.next
  <2>1. CASE loop.step = -1
    BY <1>4, <2>1 DEF Loadable, Named
  <2>2. CASE loop.step # -1
    BY <2>2 DEF Loadable, Named
  <2> QED
    BY <2>1, <2>2
<1> QED
  BY <1>3, <1>5

\* The samples count the closed windows.
LEMMA CountStep ==
  ASSUME PackageInv, [Next]_vars PROVE CountOK'
<1> USE DEF PackageInv
<1>1. /\ loop.samples \in Seq(Row) /\ loop.index \in Nat /\ Steps \in Nat
      /\ Len(loop.samples) \in Nat
  BY StepsType DEF TypeInv, TypeOK, Loop
<1>2. {"missing_capability", "runtime_error", "plant_advance_failure",
       "plant_execution_failure", "timing_violation", "check_failure",
       "action_invalid"}
         \subseteq Categories
  BY DEF Categories
<1>3. \A category \in Categories : Fail(category) => CountOK'
  BY FailKeepsCount
<1>4. \A category : pc \in TryBlock /\ Stop(category) => CountOK'
  BY StopKeepsCount
<1>5. Escape => CountOK'
  BY DEF Escape, CountOK, Starting, InWindow, Closing, LastWrites,
      Publishing
<1>6. UNCHANGED <<pc, loop, machine, store>> => CountOK'
  BY DEF CountOK, Loadable, Named, Source
<1>7. CASE Negotiate
  BY <1>7, <1>2, <1>3
  DEF Negotiate, CountOK, Starting, InWindow, Closing, LastWrites,
      Publishing
<1>8. CASE LoadRejected
  BY <1>8, <1>2, <1>3 DEF LoadRejected
<1>9. CASE RestorePlant \/ RestoreController
  <2>1. loop'.samples = loop.samples /\ loop'.index = loop.index
    BY <1>9 DEF RestorePlant, RestoreController, TypeInv, TypeOK, Loop
  <2>2. pc \in Starting /\ pc' \in {"restore", "resume"}
    BY <1>9 DEF RestorePlant, RestoreController, Starting
  <2> QED
    BY <2>1, <2>2
    DEF CountOK, Starting, InWindow, Closing, LastWrites, Publishing
<1>10. CASE ResumeSamples \/ ResumeLocals \/ ResumeStart
  <2>1. pc \in Loading
    BY <1>10 DEF ResumeSamples, ResumeLocals, ResumeStart, Loading
  <2>2. CASE ResumeSamples
    <3>1. PICK c \in Loadable : loop' = [loop EXCEPT !.samples = c.samples]
      BY <2>2 DEF ResumeSamples
    <3>2. /\ loop'.samples = c.samples /\ loop'.index = loop.index
          /\ loop'.source = loop.source /\ loop'.step = loop.step
          /\ loop'.spec = loop.spec
      BY <3>1 DEF TypeInv, TypeOK, Loop
    <3>3. Loadable' = Loadable
      BY <2>2, <3>2 DEF ResumeSamples, Loadable, Named, Source
    <3>4. c.next = Len(c.samples) /\ c.next <= Steps
      BY <2>1, LoadableNext DEF CheckpointOK
    <3>5. \A d \in Loadable : d.next = c.next
      BY <2>1, LoadableNext
    <3>6. loop.index = 0 /\ pc' = "resume_locals"
      BY <2>2 DEF ResumeSamples, CountOK, Starting
    <3> QED
      BY <3>2, <3>3, <3>4, <3>5, <3>6
      DEF CountOK, Starting, InWindow, Closing, LastWrites, Publishing
  <2>3. CASE ResumeLocals
    <3>1. PICK c \in Loadable :
            loop' = [loop EXCEPT !.index = c.next, !.lastAction = c.lastAction,
                                 !.time = c.time]
      BY <2>3 DEF ResumeLocals
    <3>2. loop'.samples = loop.samples /\ loop'.index = c.next
      BY <3>1 DEF TypeInv, TypeOK, Loop
    <3>3. c.next <= Steps
      BY <2>1, LoadableNext DEF CheckpointOK
    <3>4. Len(loop.samples) = c.next /\ pc' = "resume_start"
      BY <2>3 DEF ResumeLocals, CountOK
    <3> QED
      BY <3>2, <3>3, <3>4
      DEF CountOK, Starting, InWindow, Closing, LastWrites, Publishing
  <2>4. CASE ResumeStart
    <3>1. /\ loop'.samples = loop.samples /\ loop'.index = loop.index
          /\ pc' = "top"
      BY <2>4 DEF ResumeStart, TypeInv, TypeOK, Loop
    <3>2. Len(loop.samples) = loop.index /\ loop.index <= Steps
      BY <2>4 DEF ResumeStart, CountOK
    <3> QED
      BY <3>1, <3>2
      DEF CountOK, Starting, InWindow, Closing, LastWrites, Publishing
  <2> QED
    BY <1>10, <2>2, <2>3, <2>4
<1>11. CASE ResetAdapters
  <2>1. loop'.samples = loop.samples /\ loop'.index = loop.index
    BY <1>11 DEF ResetAdapters, TypeInv, TypeOK, Loop
  <2> QED
    BY <1>11, <1>1, <1>2, <1>3, <2>1
    DEF ResetAdapters, CountOK, Starting, InWindow, Closing, LastWrites,
      Publishing
<1>12. CASE InitialObservation \/ InitialChecks
  <2>1. CASE Fail("check_failure")
    BY <1>2, <1>3, <2>1
  <2>2. CASE pc' \in {"initial_checks", "top"}
    <3>1. loop'.samples = loop.samples /\ loop'.index = loop.index
      BY <1>12 DEF InitialObservation, InitialChecks, TypeInv, TypeOK, Loop
    <3>2. Len(loop.samples) = 0 /\ loop.index = 0
      BY <1>12 DEF InitialObservation, InitialChecks, CountOK, Starting
    <3> QED
      BY <1>1, <2>2, <3>1, <3>2
      DEF CountOK, Starting, InWindow, Closing, LastWrites, Publishing
  <2> QED
    BY <1>12, <2>1, <2>2 DEF InitialObservation, InitialChecks, Rejects
<1>13. CASE PollCancel
  BY <1>13, <1>4 DEF PollCancel, TryBlock
<1>14. CASE OpenWindow
  <2>1. loop'.samples = loop.samples /\ loop'.index = loop.index
    BY <1>14 DEF OpenWindow, TypeInv, TypeOK, Loop
  <2> QED
    BY <1>14, <1>1, <1>2, <1>3, <2>1
    DEF OpenWindow, StartAdvance, CountOK, Starting, InWindow, Closing,
        LastWrites, Publishing
<1>15. CASE AdvancePlant
  BY <1>15, <1>6 DEF AdvancePlant
<1>16. CASE AdvanceReturns
  <2>1. loop'.samples = loop.samples /\ loop'.index = loop.index
    BY <1>16 DEF AdvanceReturns, TypeInv, TypeOK, Loop
  <2>2. adv.then \in InWindow
    BY DEF TypeInv, TypeOK, Advance, InWindow
  <2> QED
    BY <1>16, <1>2, <1>3, <2>1, <2>2
    DEF AdvanceReturns, CountOK, Starting, InWindow, Closing, LastWrites,
      Publishing
<1>17. CASE AdapterRaises
  BY <1>17, <1>2, <1>3 DEF AdapterRaises
<1>18. CASE Observe
  BY <1>18, <1>2, <1>3
  DEF Observe, Rejects, CountOK, Starting, InWindow, Closing, LastWrites,
      Publishing
<1>19. CASE Control
  <2>1. loop'.samples = loop.samples /\ loop'.index = loop.index
    BY <1>19 DEF Control, TypeInv, TypeOK, Loop
  <2> QED
    BY <1>19, <1>1, <1>2, <1>3, <2>1
    DEF Control, CountOK, Starting, InWindow, Closing, LastWrites,
      Publishing
<1>20. CASE ProjectAction
  BY <1>20, <1>2, <1>3
  DEF ProjectAction, StartAdvance, Rejects, CountOK, Starting, InWindow,
      Closing, LastWrites,
      Publishing
<1>21. CASE Drive
  BY <1>21
  DEF Drive, StartAdvance, CountOK, Starting, InWindow, Closing, LastWrites,
      Publishing
<1>22. CASE CloseWindow
  <2> DEFINE row == [index |-> loop.index, time |-> loop.time,
                     action |-> loop.action]
  <2>1. CASE /\ loop' = [loop EXCEPT !.samples = Append(loop.samples, row)]
             /\ pc' = "settle"
    <3>1. row \in Row
      BY DEF TypeInv, TypeOK, Loop, Row
    <3> HIDE DEF row
    <3>2. /\ loop'.samples = Append(loop.samples, row)
          /\ loop'.index = loop.index
      BY <2>1 DEF TypeInv, TypeOK, Loop
    <3>3. Len(loop'.samples) = Len(loop.samples) + 1
      BY <1>1, <3>1, <3>2
    <3> QED
      BY <1>22, <1>1, <2>1, <3>2, <3>3
      DEF CloseWindow, CountOK, Starting, InWindow, Closing, LastWrites,
          Publishing
  <2>2. CASE \E category \in Categories : Fail(category)
    BY <1>3, <2>2
  <2> QED
    BY <1>22, <1>2, <2>1, <2>2 DEF CloseWindow, Rejects
<1>23. CASE Settle
  <2>1. loop'.samples = loop.samples /\ loop'.index = loop.index
    BY <1>23 DEF Settle, TypeInv, TypeOK, Loop
  <2> QED
    BY <1>23, <1>1, <1>2, <1>3, <2>1
    DEF Settle, CountOK, Starting, InWindow, Closing, LastWrites,
      Publishing
<1>24. CASE PeriodicCheckpoint \/ PeriodicStepFile
  BY <1>24, <1>2, <1>3
  DEF PeriodicCheckpoint, PeriodicStepFile, CountOK, Starting, InWindow,
      Closing, LastWrites, Publishing
<1>25. CASE NextWindow
  <2>1. loop' = [loop EXCEPT !.index = loop.index + 1]
    BY <1>25 DEF NextWindow
  <2>2. loop'.samples = loop.samples /\ loop'.index = loop.index + 1
    BY <2>1 DEF TypeInv, TypeOK, Loop
  <2> QED
    BY <1>25, <1>1, <2>2
    DEF NextWindow, CountOK, Starting, InWindow, Closing, LastWrites,
      Publishing
<1>26. CASE Qualify
  <2>1. CASE Fail("runtime_error")
    BY <1>2, <1>3, <2>1
  <2>2. CASE pc' = "graded" /\ UNCHANGED loop
    BY <1>26, <1>1, <2>2
    DEF Qualify, CountOK, Starting, InWindow, Closing, LastWrites,
      Publishing
  <2> QED
    BY <1>26, <2>1, <2>2 DEF Qualify
<1>27. CASE Grade
  BY <1>27, <1>1 DEF Grade, CountOK, Starting, InWindow, Closing, LastWrites,
      Publishing
<1>28. CASE LastCheckpoint \/ LastStepFile
  <2>1. /\ loop' = loop /\ machine' = machine /\ Len(loop.samples) <= Steps
        /\ pc' \in {"last_step_file", "publish"} /\ machine = "INCOMPLETE"
    BY <1>28
    DEF LastCheckpoint, LastStepFile, CheckpointLost, StatusOK, CountOK,
        LastWrites
  <2> QED
    BY <2>1
    DEF Completed, CountOK, Starting, InWindow, Closing, LastWrites, Publishing
<1>29. CASE WriteManifest
  BY <1>29 DEF WriteManifest, CountOK, Starting, InWindow, Closing, LastWrites,
      Publishing
<1>30. CASE Finalize
  BY <1>30 DEF Finalize, CountOK, Starting, InWindow, Closing, LastWrites,
      Publishing
<1>31. CASE BeginFresh
  BY <1>31
  DEF BeginFresh, Begin, FreshLoop, CountOK, Starting, InWindow, Closing,
      LastWrites, Publishing
<1>32. CASE BeginResume
  BY <1>32
  DEF BeginResume, Begin, FreshLoop, CountOK, Starting, InWindow, Closing,
      LastWrites, Publishing
<1>33. CASE RequestCancel
  BY <1>33, <1>6 DEF RequestCancel
<1>34. CASE BoundaryStop
  BY <1>34, <1>4 DEF BoundaryStop, TryBlock
<1>35. CASE AsyncStop
  BY <1>35, <1>4 DEF AsyncStop, TryBlock
<1>36. CASE Crash
  BY <1>36, <1>5 DEF Crash
<1>37. CASE UNCHANGED vars
  BY <1>37, <1>6 DEF vars
<1> QED
  BY ONLY [Next]_vars, <1>7, <1>8, <1>9, <1>10, <1>11, <1>12, <1>13,
     <1>14, <1>15, <1>16, <1>17, <1>18, <1>19, <1>20, <1>21, <1>22, <1>23,
     <1>24, <1>25, <1>26, <1>27, <1>28, <1>29, <1>30, <1>31, <1>32, <1>33,
     <1>34, <1>35, <1>36, <1>37
  DEF Next, Step

\* A checkpoint holds the samples up to the window it continues with.
LEMMA WriteCheckpointOK ==
  ASSUME PackageInv, NEW next \in Nat, WriteCheckpoint(next),
         next = Len(loop.samples), next <= Steps, loop' = loop, files' = files
  PROVE  FilesOK'
<1> DEFINE new == CheckpointOf(next)
<1>1. new.next = next /\ new.samples = loop.samples /\ new.spec = loop.spec
  BY DEF CheckpointOf
<1>2. latest' = {new}
  BY DEF WriteCheckpoint
<1> HIDE DEF new
<1>3. \A c \in files : CheckpointOK(c) /\ c.spec = loop.spec
  BY DEF PackageInv, FilesOK
<1> QED
  BY <1>1, <1>2, <1>3 DEF FilesOK, CheckpointOK

LEMMA WriteStepFileOK ==
  ASSUME PackageInv, WriteStepFile, loop' = loop, latest' = latest
  PROVE  FilesOK'
<1>1. files' \subseteq files \cup latest
  BY DEF WriteStepFile
<1> QED
  BY <1>1 DEF PackageInv, FilesOK, CheckpointOK

LEMMA FilesStep ==
  ASSUME PackageInv, [Next]_vars PROVE FilesOK'
<1> USE DEF PackageInv
<1>1. UNCHANGED <<files, latest, loop>> => FilesOK'
  BY DEF FilesOK, CheckpointOK
<1>2. CASE UNCHANGED <<files, latest>> /\ loop'.spec = loop.spec
  BY <1>2 DEF FilesOK, CheckpointOK
<1>3. CASE files' = {} /\ latest' = {}
  BY <1>3 DEF FilesOK
<1>4. CASE PeriodicCheckpoint
  <2>1. CASE WriteCheckpoint(loop.index + 1)
    <3>1. loop.index + 1 \in Nat /\ loop.index \in Nat /\ Steps \in Nat
      BY StepsType DEF TypeInv, TypeOK, Loop
    <3>2. loop.index + 1 = Len(loop.samples) /\ loop.index + 1 <= Steps
      BY <1>4, <3>1 DEF PeriodicCheckpoint, CountOK, Closing
    <3> QED
      BY <1>4, <2>1, <3>1, <3>2, WriteCheckpointOK DEF PeriodicCheckpoint
  <2>2. CASE UNCHANGED <<files, latest>>
    BY <1>1, <1>4, <2>2 DEF PeriodicCheckpoint
  <2> QED
    BY <1>4, <2>1, <2>2 DEF PeriodicCheckpoint
<1>5. CASE LastCheckpoint
  <2>1. CASE WriteCheckpoint(Len(loop.samples))
    <3>1. loop.samples \in Seq(Row)
      BY DEF TypeInv, TypeOK, Loop
    <3>2. Len(loop.samples) \in Nat /\ Len(loop.samples) <= Steps
      BY <1>5, <3>1 DEF LastCheckpoint, CountOK, LastWrites
    <3> QED
      BY <1>5, <2>1, <3>2, WriteCheckpointOK DEF LastCheckpoint
  <2>2. CASE UNCHANGED <<files, latest>>
    BY <1>1, <1>5, <2>2 DEF LastCheckpoint
  <2> QED
    BY <1>5, <2>1, <2>2 DEF LastCheckpoint
<1>19. CASE PeriodicStepFile \/ LastStepFile
  BY <1>1, <1>19, WriteStepFileOK DEF PeriodicStepFile, LastStepFile
<1>6. CASE BeginFresh \/ BeginResume
  BY <1>3, <1>6 DEF BeginFresh, BeginResume, Begin
<1>7. CASE \/ Negotiate \/ LoadRejected \/ AdvancePlant \/ AdapterRaises
             \/ Observe \/ ProjectAction \/ Drive \/ Qualify \/ Grade
            \/ WriteManifest \/ Finalize \/ RequestCancel
  BY <1>1, <1>7
  DEF Negotiate, LoadRejected, AdvancePlant, AdapterRaises, Observe,
      ProjectAction, Drive, Qualify, Grade, WriteManifest, Finalize,
      RequestCancel
<1>8. CASE PollCancel \/ BoundaryStop \/ AsyncStop \/ Crash \/ UNCHANGED vars
  BY <1>1, <1>8
  DEF PollCancel, BoundaryStop, AsyncStop, Crash, Stop, Escape, vars
<1>9. CASE RestorePlant \/ RestoreController
  BY <1>2, <1>9 DEF RestorePlant, RestoreController, TypeInv, TypeOK, Loop
<1>10. CASE ResumeSamples \/ ResumeLocals \/ ResumeStart
  BY <1>2, <1>10
  DEF ResumeSamples, ResumeLocals, ResumeStart, TypeInv, TypeOK, Loop
<1>11. CASE ResetAdapters
  BY <1>2, <1>11 DEF ResetAdapters, TypeInv, TypeOK, Loop
<1>12. CASE InitialObservation \/ InitialChecks
  BY <1>2, <1>12 DEF InitialObservation, InitialChecks, TypeInv, TypeOK, Loop
<1>13. CASE OpenWindow
  BY <1>2, <1>13 DEF OpenWindow, TypeInv, TypeOK, Loop
<1>14. CASE AdvanceReturns
  BY <1>2, <1>14 DEF AdvanceReturns, TypeInv, TypeOK, Loop
<1>15. CASE Control
  BY <1>2, <1>15 DEF Control, TypeInv, TypeOK, Loop
<1>16. CASE CloseWindow
  BY <1>2, <1>16 DEF CloseWindow, TypeInv, TypeOK, Loop
<1>17. CASE Settle
  BY <1>2, <1>17 DEF Settle, TypeInv, TypeOK, Loop
<1>18. CASE NextWindow
  BY <1>2, <1>18 DEF NextWindow, TypeInv, TypeOK, Loop
<1> QED
  BY ONLY [Next]_vars, <1>4, <1>5, <1>6, <1>7, <1>8, <1>9, <1>10, <1>11,
     <1>12, <1>13, <1>14, <1>15, <1>16, <1>17, <1>18, <1>19
  DEF Next, Step

\* An exception of the try block makes a failed, unrecoverable run that
\* announces the periodic checkpoint exactly when there is one.
LEMMA FailStatus ==
  ASSUME TypeInv, NEW category \in Categories, Fail(category),
         UNCHANGED latest
  PROVE  StatusOK'
<1>1. category # "none"
  BY DEF Categories
<1> DEFINE record == [category |-> category, recoverable |-> FALSE,
                      checkpoint_available |-> latest # {}]
<1>3. record.category # "none" /\ ~record.recoverable
      /\ (record.checkpoint_available => latest # {})
  BY <1>1
<1>2. failure' = record /\ machine' = "RUN_FAILED" /\ pc' = "publish"
  BY DEF Fail
<1> HIDE DEF record
<1> QED
  BY <1>2, <1>3
  DEF StatusOK, TryBlock, AdapterCalls, LastWrites, Publishing, Completed

LEMMA StopStatus ==
  ASSUME NEW category \in {"interrupted", "cancelled"}, Stop(category)
  PROVE  StatusOK'
<1>1. CASE Escape
  BY <1>1 DEF Escape, StatusOK, TryBlock, AdapterCalls, LastWrites, Publishing
<1>2. CASE /\ pc' = "last_checkpoint" /\ machine' = "INCOMPLETE"
           /\ failure' = [category |-> category, recoverable |-> TRUE,
                          checkpoint_available |-> TRUE]
  <2>1. failure'.category # "none" /\ failure'.recoverable
    BY <1>2
  <2> QED
    BY <1>2, <2>1 DEF StatusOK, TryBlock, AdapterCalls, LastWrites, Publishing
<1> QED
  BY <1>1, <1>2 DEF Stop

LEMMA StatusStep ==
  ASSUME PackageInv, [Next]_vars PROVE StatusOK'
<1> USE DEF PackageInv
<1>1. {"missing_capability", "runtime_error", "plant_advance_failure",
       "plant_execution_failure", "timing_violation", "check_failure",
       "action_invalid"}
         \subseteq Categories
  BY DEF Categories
<1>2. \A category \in Categories :
        Fail(category) /\ UNCHANGED latest => StatusOK'
  BY FailStatus
<1>3. \A category \in {"interrupted", "cancelled"} :
        Stop(category) => StatusOK'
  BY StopStatus
<1>4. Escape => StatusOK'
  BY DEF Escape, StatusOK, TryBlock, AdapterCalls, LastWrites, Publishing
<1>5. ASSUME pc \in TryBlock \ {"graded"}, pc' \in TryBlock \ {"graded"},
             UNCHANGED <<machine, failure, report>>
      PROVE  StatusOK'
  BY <1>5 DEF StatusOK, LastWrites, Publishing, TryBlock, AdapterCalls
<1>6. CASE Negotiate
  BY <1>6, <1>1, <1>2, <1>5
  DEF Negotiate, TryBlock, AdapterCalls
<1>7. CASE LoadRejected
  BY <1>7, <1>1, <1>2, <1>5
  DEF LoadRejected
<1>8. CASE RestorePlant \/ RestoreController
  BY <1>8, <1>5
  DEF RestorePlant, RestoreController, TryBlock, AdapterCalls
<1>9. CASE ResumeSamples \/ ResumeLocals \/ ResumeStart
  BY <1>9, <1>5
  DEF ResumeSamples, ResumeLocals, ResumeStart, TryBlock, AdapterCalls
<1>10. CASE ResetAdapters
  BY <1>10, <1>1, <1>2, <1>5
  DEF ResetAdapters, TryBlock, AdapterCalls
<1>11. CASE InitialObservation \/ InitialChecks
  BY <1>11, <1>1, <1>2, <1>5
  DEF InitialObservation, InitialChecks, Rejects, TryBlock, AdapterCalls
<1>12. CASE PollCancel
  BY <1>12, <1>3
  DEF PollCancel
<1>13. CASE OpenWindow
  BY <1>13, <1>1, <1>2, <1>5
  DEF OpenWindow, StartAdvance, TryBlock, AdapterCalls
<1>14. CASE AdvancePlant
  BY <1>14, <1>1, <1>2, <1>5
  DEF AdvancePlant, TryBlock, AdapterCalls
<1>15. CASE AdvanceReturns
  <2>1. adv.then \in TryBlock \ {"graded"}
    BY DEF TypeInv, TypeOK, Advance, TryBlock, AdapterCalls
  <2> QED
    BY <1>15, <1>1, <1>2, <1>5, <2>1
    DEF AdvanceReturns, TryBlock, AdapterCalls
<1>16. CASE AdapterRaises
  BY <1>16, <1>1, <1>2, <1>5
  DEF AdapterRaises
<1>17. CASE Observe
  BY <1>17, <1>1, <1>2, <1>5
  DEF Observe, Rejects, TryBlock, AdapterCalls
<1>18. CASE Control
  BY <1>18, <1>1, <1>2, <1>5
  DEF Control, TryBlock, AdapterCalls
<1>19. CASE ProjectAction
  BY <1>19, <1>1, <1>2, <1>5
  DEF ProjectAction, Rejects, StartAdvance, TryBlock, AdapterCalls
<1>20. CASE Drive
  BY <1>20, <1>1, <1>2, <1>5
  DEF Drive, StartAdvance, TryBlock, AdapterCalls
<1>21. CASE CloseWindow
  BY <1>21, <1>1, <1>2, <1>5
  DEF CloseWindow, Rejects, TryBlock, AdapterCalls
<1>22. CASE Settle
  BY <1>22, <1>1, <1>2, <1>5
  DEF Settle, TryBlock, AdapterCalls
<1>23. CASE PeriodicCheckpoint \/ PeriodicStepFile
  BY <1>23, <1>1, <1>2, <1>5
  DEF PeriodicCheckpoint, PeriodicStepFile, TryBlock, AdapterCalls
<1>24. CASE NextWindow
  BY <1>24, <1>1, <1>2, <1>5
  DEF NextWindow, TryBlock, AdapterCalls
<1>25. CASE Qualify
  <2>1. CASE Fail("runtime_error")
    BY <1>25, <1>1, <1>2, <2>1 DEF Qualify
  <2>2. CASE /\ \E passes \in BOOLEAN :
                  report' = [report EXCEPT !.qualification = passes]
             /\ machine' = "RUN_OK" /\ pc' = "graded" /\ UNCHANGED failure
    <3>1. /\ report'.safety = report.safety
          /\ report'.validity = report.validity
          /\ report'.applicability = report.applicability
      BY <2>2 DEF TypeInv, TypeOK, Report
    <3> QED
      BY <1>25, <2>2, <3>1
      DEF Qualify, StatusOK, TryBlock, AdapterCalls, LastWrites, Publishing
  <2> QED
    BY <1>25, <2>1, <2>2 DEF Qualify
<1>26. CASE Grade
  BY <1>26
  DEF Grade, NoFailure, StatusOK, TryBlock, AdapterCalls, LastWrites,
      Publishing, Completed
<1>27. CASE LastCheckpoint \/ LastStepFile
  <2>1. /\ machine = "INCOMPLETE" /\ failure.category # "none"
        /\ failure.recoverable
    BY <1>27 DEF LastCheckpoint, LastStepFile, StatusOK, LastWrites
  <2>2. CASE CheckpointLost
    <3>1. /\ failure'.category = failure.category
          /\ failure'.recoverable = failure.recoverable
          /\ ~failure'.checkpoint_available
      BY <2>2 DEF CheckpointLost, TypeInv, TypeOK, Failure
    <3>2. pc' = "publish" /\ machine' = machine
      BY <1>27, <2>2 DEF CheckpointLost, LastCheckpoint, LastStepFile
    <3> QED
      BY <2>1, <3>1, <3>2
      DEF StatusOK, TryBlock, AdapterCalls, LastWrites, Publishing
  <2>3. CASE ~CheckpointLost
    <3>1. /\ latest' # {} /\ pc' \in {"last_step_file", "publish"}
          /\ failure' = failure /\ machine' = machine
      BY <1>27, <2>3
      DEF LastCheckpoint, LastStepFile, WriteCheckpoint, StatusOK
    <3> QED
      BY <2>1, <3>1
      DEF StatusOK, TryBlock, AdapterCalls, LastWrites, Publishing
  <2> QED
    BY <2>2, <2>3
<1>28. CASE WriteManifest
  BY <1>28
  DEF WriteManifest, StatusOK, TryBlock, AdapterCalls, LastWrites, Publishing,
      Completed
<1>29. CASE Finalize
  BY <1>29
  DEF Finalize, StatusOK, TryBlock, AdapterCalls, LastWrites, Publishing,
      Completed
<1>30. CASE BeginFresh \/ BeginResume
  BY <1>30
  DEF BeginFresh, BeginResume, Begin, AllPassed, StatusOK, TryBlock,
      AdapterCalls, LastWrites, Publishing, Completed
<1>31. CASE RequestCancel
  BY <1>31
  DEF RequestCancel, StatusOK
<1>32. CASE BoundaryStop
  BY <1>32, <1>3
  DEF BoundaryStop
<1>33. CASE AsyncStop
  BY <1>33, <1>3
  DEF AsyncStop
<1>34. CASE Crash
  BY <1>34, <1>4
  DEF Crash
<1>35. CASE UNCHANGED vars
  BY <1>35
  DEF vars, StatusOK
<1> QED
  BY ONLY [Next]_vars, <1>6, <1>7, <1>8, <1>9, <1>10, <1>11, <1>12, <1>13,
     <1>14, <1>15, <1>16, <1>17, <1>18, <1>19, <1>20, <1>21, <1>22, <1>23,
     <1>24, <1>25, <1>26, <1>27, <1>28, <1>29, <1>30, <1>31, <1>32, <1>33,
     <1>34, <1>35
  DEF Next, Step

LEMMA PackageStep == PackageInv /\ [Next]_vars => PackageInv'
<1> SUFFICES ASSUME PackageInv, [Next]_vars PROVE PackageInv'
  OBVIOUS
<1>1. TypeInv'
  BY TypeStep DEF PackageInv
<1> QED
  BY <1>1, CountStep, FilesStep, StatusStep, StoreStep DEF PackageInv

\* No package of a run that failed, was stopped or missed a window can pass
\* for a completed one.
THEOREM PackagesNeverLookQualified == Spec => []FailureNeverLooksQualified
<1>1. PackageInv => FailureNeverLooksQualified
  BY DEF PackageInv, StoreOK
<1> QED
  BY <1>1, PackageInit, PackageStep, PTL DEF Spec

\* What a package says about its checkpoint and about recovery is true.
THEOREM CheckpointClaimsAreHonest == Spec => []CheckpointClaimIsHonest
<1>1. PackageInv => CheckpointClaimIsHonest
  BY DEF PackageInv, StoreOK
<1> QED
  BY <1>1, PackageInit, PackageStep, PTL DEF Spec

(***************************************************************************)
(* The windows and the deadline: how far n closed windows reach.           *)
(***************************************************************************)
Reach(n) == Least(n * Period, Duration)

LEMMA Grows ==
  ASSUME NEW m \in Nat, NEW n \in Nat, m <= n, NEW k \in Nat
  PROVE  m * k \in Nat /\ n * k \in Nat /\ m * k <= n * k
<1>1. PICK d \in Nat : n = m + d
  <2>1. n - m \in Nat /\ n = m + (n - m)
    OBVIOUS
  <2> QED
    BY <2>1
<1>2. m * k \in Nat /\ d * k \in Nat
  OBVIOUS
<1>3. n * k = m * k + d * k
  BY <1>1
<1> QED
  BY <1>2, <1>3

\* The division that counts the windows.
LEMMA StepsAre ==
  /\ Steps \in Nat \ {0} /\ Duration <= Steps * Period
  /\ (Steps - 1) * Period < Duration
<1> DEFINE n == Duration + Period - 1
<1>1. n \in Nat /\ Period \in Nat /\ Period > 0 /\ Duration > 0 /\ Duration \in Nat
  BY TimebaseAssumption
<1>2. Steps = n \div Period
  BY DEF Steps
<1>3. Period * (n \div Period) <= n /\ n < Period * ((n \div Period) + 1)
  <2> HIDE DEF n
  <2> QED
    BY <1>1
<1>4. Period * Steps <= n /\ n < Period * Steps + Period
  BY <1>1, <1>2, <1>3, StepsType
<1>5. Period * Steps >= Duration /\ Period * Steps <= Duration + Period - 1
  <2>1. Period * Steps \in Nat
    BY <1>1, StepsType
  <2> QED
    BY <1>1, <1>4, <2>1
<1> HIDE DEF n
<1>6. Period * Steps = Steps * Period /\ (Steps - 1) * Period = Steps * Period - Period
  BY <1>1, StepsType
<1>7. Steps # 0
  BY <1>1, <1>5
<1> QED
  BY <1>1, <1>5, <1>6, <1>7, StepsType

LEMMA ReachFacts ==
  /\ Reach(0) = 0 /\ Steps \in Nat \ {0}
  /\ \A n \in Nat :
       /\ Reach(n) \in Nat /\ Reach(n) <= Duration
       /\ Reach(n + 1) = Least(Reach(n) + Period, Duration)
       /\ n >= Steps => Reach(n) = Duration
       /\ n < Steps => Reach(n) = n * Period /\ n * Period < Duration
<1>1. Period \in Nat \ {0} /\ Duration \in Nat \ {0}
  BY TimebaseAssumption
<1>2. Reach(0) = 0
  BY <1>1 DEF Reach, Least
<1>3. ASSUME NEW n \in Nat
      PROVE  /\ Reach(n) \in Nat /\ Reach(n) <= Duration
             /\ Reach(n + 1) = Least(Reach(n) + Period, Duration)
             /\ n >= Steps => Reach(n) = Duration
             /\ n < Steps => Reach(n) = n * Period /\ n * Period < Duration
  <2>1. n * Period \in Nat /\ (n + 1) * Period = n * Period + Period
    BY <1>1
  <2>2. n >= Steps => n * Period >= Steps * Period
    BY <1>1, StepsAre, Grows
  <2>3. n < Steps => n * Period <= (Steps - 1) * Period
    <3>1. Steps - 1 \in Nat
      BY StepsAre
    <3>2. n < Steps => n <= Steps - 1
      BY StepsAre
    <3> QED
      BY <1>1, <3>1, <3>2, Grows
  <2>4. Steps * Period \in Nat /\ (Steps - 1) * Period \in Int
    BY <1>1, StepsAre
  <2> DEFINE a == n * Period
             b == Steps * Period
             c == (Steps - 1) * Period
  <2>5. a \in Nat /\ b \in Nat /\ c \in Int /\ Duration <= b /\ c < Duration
        /\ (n >= Steps => a >= b) /\ (n < Steps => a <= c)
        /\ Reach(n) = Least(a, Duration) /\ Reach(n + 1) = Least(a + Period, Duration)
    BY <2>1, <2>2, <2>3, <2>4, StepsAre DEF Reach
  <2> HIDE DEF a, b, c
  <2>6. /\ Reach(n) \in Nat /\ Reach(n) <= Duration
        /\ Reach(n + 1) = Least(Reach(n) + Period, Duration)
        /\ n >= Steps => Reach(n) = Duration
        /\ n < Steps => Reach(n) = a /\ a < Duration
    BY <1>1, <2>5 DEF Least
  <2> QED
    BY <2>6 DEF a
<1> QED
  BY <1>2, <1>3, StepsAre

(***************************************************************************)
(* A completed run reaches its deadline, wherever the runs before it were  *)
(* stopped.  An interrupt inside a window saves a plant that is ahead of   *)
(* the saved time, so no relation of the two holds in general: the time is *)
(* never ahead of the plant, and where they agree the plant is at least as *)
(* far as the closed windows reach.  A run that has closed them all is at  *)
(* the deadline, also when its time was not saved any more.                *)
(*                                                                         *)
(* The locals are set one after the other, and a stop between two of the   *)
(* assignments saves a start that is still zero.  That is the start of a   *)
(* plant whose clock begins at zero; for any other the deadline is kept    *)
(* only when no exception falls between two steps of the loop.             *)
(***************************************************************************)
StartsAtZero == StartTime = 0 \/ AsyncStops = {}

Origin(p) == IF p.origin = "initial" THEN StartTime ELSE 0
OnCourse(p, time, start, n) ==
  /\ time <= Clock(p)
  /\ time = Clock(p) => /\ start = Origin(p) /\ Reach(n) <= Len(p.trace)
                        /\ Len(p.trace) <= Duration
  /\ n >= Steps => start = Origin(p) /\ Len(p.trace) = Duration
UnderWay == (TryBlock \ {"graded"}) \cup LastWrites

\* where the start of the run is still zero
Unset == {"resume_locals", "resume_start", "initial_checks"}
CourseOK ==
  pc \in UnderWay /\ (StartTime = 0 \/ pc \notin Unset) =>
    OnCourse(plant, loop.time, loop.start, Len(loop.samples))

\* The window in hand begins where the windows before it reach, or later.
Located ==
  /\ loop.start = Origin(plant) /\ loop.start + Reach(loop.index) <= loop.cycle
  /\ loop.cycle <= loop.time
WindowOK ==
  /\ pc = "advance" /\ Clock(plant) = adv.end - adv.left =>
       /\ Located /\ loop.cycle <= adv.end /\ adv.end <= loop.start + Duration
  /\ pc = "sample" /\ Clock(plant) = loop.time => Located
  /\ pc \in {"control", "act", "drive", "endpoint", "settle"} => Located
  /\ pc = "act" => loop.target <= Endpoint
  /\ pc = "settle" => Clock(plant) = Endpoint

StartOK ==
  /\ pc \in Starting \ {"initial_checks"} => loop.time = 0 /\ loop.start = 0
  /\ pc \in {"initial", "initial_checks"} => plant.trace = <<>>
  /\ pc = "initial_checks" => loop.time = Clock(plant) /\ loop.start = 0
  /\ pc \in Loading \ {"load"} => \A c \in Loadable : c.plant = plant
  /\ pc = "resume_locals" =>
       /\ loop.time = 0 /\ loop.start = 0
       /\ \A c \in Loadable : loop.samples = c.samples
  /\ pc = "resume_start" =>
       /\ loop.start = 0
       /\ \A c \in Loadable : loop.samples = c.samples /\ loop.time = c.time

OneEach(saved) == \A c, d \in saved : c.next = d.next => c = d
SavedOnCourse(saved) ==
  \A c \in saved : OnCourse(c.plant, c.time, c.start, c.next)
SavesOK ==
  /\ OneEach(files) /\ SavedOnCourse(files \cup latest)
  /\ \A r \in Runs : /\ OneEach(store[r].files)
                     /\ SavedOnCourse(store[r].files \cup store[r].latest)

Finished == {"RUN_OK", "QUALIFIED", "DISQUALIFIED"}
DoneOK == machine \in Finished =>
            loop.start = Origin(plant) /\ Len(plant.trace) = Duration

CourseInv ==
  PackageInv /\ StartOK /\ CourseOK /\ WindowOK /\ SavesOK /\ DoneOK

LEMMA ClockIs ==
  ASSUME NEW p \in Plant
  PROVE  /\ Origin(p) \in Nat /\ Len(p.trace) \in Nat
         /\ Clock(p) = Origin(p) + Len(p.trace) /\ Clock(p) \in Nat
<1>1. p.trace \in Seq(Nat)
  BY DEF Plant
<1>2. Len(p.trace) \in Nat
  BY <1>1
<1>3. Origin(p) \in Nat
  BY TimebaseAssumption DEF Origin
<1>4. Clock(p) = Origin(p) + Len(p.trace)
  BY DEF Clock, Origin
<1> QED
  BY <1>2, <1>3, <1>4

\* The numbers of a state.
LEMMA Numbers ==
  ASSUME TypeInv
  PROVE  /\ loop.time \in Nat /\ loop.start \in Nat /\ loop.cycle \in Nat
         /\ loop.index \in Nat /\ loop.target \in Nat
         /\ loop.samples \in Seq(Row) /\ Len(loop.samples) \in Nat
         /\ adv.end \in Nat /\ adv.left \in Nat /\ plant \in Plant
         /\ Period \in Nat \ {0} /\ Duration \in Nat \ {0}
         /\ PlantStep \in Nat \ {0}
         /\ Offset \in Nat /\ Delay \in Nat /\ StartTime \in Nat
         /\ Origin(plant) \in Nat /\ Len(plant.trace) \in Nat
         /\ Clock(plant) \in Nat
         /\ Clock(plant) = Origin(plant) + Len(plant.trace)
<1>1. /\ loop.time \in Nat /\ loop.start \in Nat /\ loop.cycle \in Nat
      /\ loop.index \in Nat /\ loop.target \in Nat
      /\ loop.samples \in Seq(Row)
  BY DEF TypeInv, TypeOK, Loop
<1>2. adv.end \in Nat /\ adv.left \in Nat /\ plant \in Plant
  BY DEF TypeInv, TypeOK, Advance
<1> QED
  BY <1>1, <1>2, ClockIs, TimebaseAssumption

\* The end of a window, and how far it is from the start of the run.
LEMMA EndpointIs ==
  ASSUME TypeInv, Located
  PROVE  /\ Endpoint \in Int /\ Endpoint <= loop.start + Duration
         /\ loop.start + Reach(loop.index + 1) <= Endpoint
<1>1. Endpoint = loop.cycle + Least(Period, loop.start + Duration - loop.cycle)
  BY DEF Endpoint, WindowAt
<1>2. /\ Reach(loop.index) \in Nat
      /\ Reach(loop.index + 1) = Least(Reach(loop.index) + Period, Duration)
  BY ReachFacts, Numbers
<1>3. loop.start + Reach(loop.index) <= loop.cycle
  BY DEF Located
<1> DEFINE reach == Reach(loop.index)  next == Reach(loop.index + 1)
<1> HIDE DEF reach, next
<1>4. /\ reach \in Nat /\ next = Least(reach + Period, Duration)
      /\ loop.start + reach <= loop.cycle
  BY <1>2, <1>3 DEF reach, next
<1> DEFINE s == loop.start  c == loop.cycle  e == Endpoint
<1>5. /\ s \in Nat /\ c \in Nat /\ Period \in Nat /\ Duration \in Nat
      /\ e = c + (IF Period <= s + Duration - c THEN Period ELSE s + Duration - c)
      /\ next = (IF reach + Period <= Duration THEN reach + Period ELSE Duration)
      /\ reach \in Nat /\ s + reach <= c
  BY <1>1, <1>4, Numbers DEF Least
<1> HIDE DEF s, c, e
<1>6. e \in Int /\ e <= s + Duration /\ s + next <= e
  BY <1>5
<1> QED
  BY <1>6 DEF s, e, next

LEMMA CourseInit == Init => CourseInv
<1> SUFFICES ASSUME Init PROVE CourseInv
  OBVIOUS
<1>1. pc = "idle" /\ machine = "CREATED" /\ files = {} /\ latest = {}
  BY DEF Init
<1>2. \A r \in Runs : store[r].files = {} /\ store[r].latest = {}
  BY DEF Init, EmptyDir
<1>3. StartOK /\ CourseOK /\ WindowOK /\ DoneOK
  BY <1>1 DEF StartOK, CourseOK, WindowOK, DoneOK, Starting, Loading, UnderWay,
              LastWrites, TryBlock, AdapterCalls, Finished
<1>4. SavesOK
  BY <1>1, <1>2 DEF SavesOK, OneEach, SavedOnCourse
<1> QED
  BY <1>3, <1>4, PackageInit DEF CourseInv

\* A call resumes from one document.
LEMMA LoadableIsOne ==
  ASSUME CourseInv, pc \in Loading PROVE \A c, d \in Loadable : c = d
<1>1. loop.source \in Runs
  BY DEF CourseInv, PackageInv, TypeInv, SourceOK
<1>2. OneEach(Source.files) /\ \A c, d \in Source.latest : c = d
  BY <1>1 DEF CourseInv, PackageInv, SavesOK, StoreOK, Source
<1>3. ASSUME NEW c \in Loadable, NEW d \in Loadable PROVE c = d
  <2>1. CASE loop.step = -1
    BY <1>2, <2>1 DEF Loadable, Named
  <2>2. CASE loop.step # -1
    BY <1>2, <2>2 DEF Loadable, Named, OneEach
  <2> QED
    BY <2>1, <2>2
<1> QED
  BY <1>3

\* What resuming does to the locals, of the document c the call resumes from.
LEMMA ResumeIs ==
  ASSUME CourseInv,
         \/ RestorePlant \/ RestoreController
         \/ ResumeSamples \/ ResumeLocals \/ ResumeStart
  PROVE  \E c \in Loadable :
           /\ Loadable = {c} /\ Loadable' = {c} /\ plant' = c.plant
           /\ OnCourse(c.plant, c.time, c.start, c.next)
           /\ c.next = Len(c.samples)
           /\ loop'.samples = IF pc \in {"load", "restore"} THEN loop.samples
                              ELSE c.samples
           /\ loop'.time = IF pc \in {"resume_locals", "resume_start"}
                           THEN c.time ELSE 0
           /\ loop'.start = IF pc = "resume_start" THEN c.start ELSE 0
<1> USE DEF CourseInv, PackageInv
<1>1. pc \in Loading
  BY DEF RestorePlant, RestoreController, ResumeSamples, ResumeLocals,
         ResumeStart, Loading
<1>2. PICK c \in Loadable : TRUE
  BY DEF RestorePlant, RestoreController, ResumeSamples, ResumeLocals,
         ResumeStart
<1>3. Loadable = {c}
  BY <1>1, <1>2, LoadableIsOne
<1>4. /\ loop'.source = loop.source /\ loop'.step = loop.step
      /\ loop'.spec = loop.spec /\ UNCHANGED store
  BY DEF RestorePlant, RestoreController, ResumeSamples, ResumeLocals,
         ResumeStart, TypeInv, TypeOK, Loop
<1>5. Loadable' = {c}
  BY <1>3, <1>4 DEF Loadable, Named, Source
<1>6. /\ OnCourse(c.plant, c.time, c.start, c.next)
      /\ c.next = Len(c.samples)
  <2>1. loop.source \in Runs
    BY <1>1 DEF TypeInv, SourceOK
  <2>2. c \in Source.files \cup Source.latest
    BY <1>2 DEF Loadable, Named
  <2> QED
    BY <2>1, <2>2 DEF SavesOK, SavedOnCourse, StoreOK, CheckpointOK, Source
<1>7. CASE RestorePlant
  <2>1. pc = "load" /\ loop' = loop /\ plant' = c.plant
    BY <1>3, <1>7 DEF RestorePlant
  <2>2. loop.time = 0 /\ loop.start = 0
    BY <2>1 DEF StartOK, Starting
  <2> QED
    BY <1>2, <1>3, <1>5, <1>6, <2>1, <2>2
<1>8. CASE RestoreController
  <2>1. pc = "restore" /\ plant' = plant
        /\ loop' = [loop EXCEPT !.cstate = c.controller]
    BY <1>3, <1>8 DEF RestoreController
  <2>2. /\ loop'.samples = loop.samples /\ loop'.time = loop.time
        /\ loop'.start = loop.start
    BY <2>1 DEF TypeInv, TypeOK, Loop
  <2>3. loop.time = 0 /\ loop.start = 0 /\ plant = c.plant
    BY <1>2, <2>1 DEF StartOK, Starting, Loading
  <2> QED
    BY <1>2, <1>3, <1>5, <1>6, <2>1, <2>2, <2>3
<1>9. CASE ResumeSamples
  <2>1. pc = "resume" /\ plant' = plant
        /\ loop' = [loop EXCEPT !.samples = c.samples]
    BY <1>3, <1>9 DEF ResumeSamples
  <2>2. /\ loop'.samples = c.samples /\ loop'.time = loop.time
        /\ loop'.start = loop.start
    BY <2>1 DEF TypeInv, TypeOK, Loop
  <2>3. loop.time = 0 /\ loop.start = 0 /\ plant = c.plant
    BY <1>2, <2>1 DEF StartOK, Starting, Loading
  <2> QED
    BY <1>2, <1>3, <1>5, <1>6, <2>1, <2>2, <2>3
<1>10. CASE ResumeLocals
  <2>1. pc = "resume_locals" /\ plant' = plant
        /\ loop' = [loop EXCEPT !.index = c.next, !.lastAction = c.lastAction,
                                !.time = c.time]
    BY <1>3, <1>10 DEF ResumeLocals
  <2>2. /\ loop'.samples = loop.samples /\ loop'.time = c.time
        /\ loop'.start = loop.start
    BY <2>1 DEF TypeInv, TypeOK, Loop
  <2>3. loop.samples = c.samples /\ loop.start = 0 /\ plant = c.plant
    BY <1>2, <2>1 DEF StartOK, Loading
  <2> QED
    BY <1>2, <1>3, <1>5, <1>6, <2>1, <2>2, <2>3
<1>11. CASE ResumeStart
  <2>1. pc = "resume_start" /\ plant' = plant
        /\ loop' = [loop EXCEPT !.start = c.start]
    BY <1>3, <1>11 DEF ResumeStart
  <2>2. /\ loop'.samples = loop.samples /\ loop'.time = loop.time
        /\ loop'.start = c.start
    BY <2>1 DEF TypeInv, TypeOK, Loop
  <2>3. loop.samples = c.samples /\ loop.time = c.time /\ plant = c.plant
    BY <1>2, <2>1 DEF StartOK, Loading
  <2> QED
    BY <1>2, <1>3, <1>5, <1>6, <2>1, <2>2, <2>3
<1> QED
  BY <1>7, <1>8, <1>9, <1>10, <1>11

\* What a call knows until its first window.
LEMMA StartStep ==
  ASSUME CourseInv, [Next]_vars PROVE StartOK'
<1> USE DEF CourseInv, PackageInv
<1> DEFINE Early == Starting \cup Loading
<1>1. CASE UNCHANGED <<pc, plant, loop, store>>
  BY <1>1 DEF StartOK, Loadable, Named, Source, Clock
<1>2. CASE pc' \notin Early
  BY <1>2 DEF StartOK, Starting, Loading
<1>3. CASE BeginFresh \/ BeginResume
  BY <1>3 DEF BeginFresh, BeginResume, Begin, FreshLoop, StartOK, Starting,
              Loading
<1>4. CASE Negotiate
  BY <1>4 DEF Negotiate, Fail, StartOK, Starting, Loading
<1>5. CASE \/ RestorePlant \/ RestoreController
           \/ ResumeSamples \/ ResumeLocals \/ ResumeStart
  <2>1. PICK c \in Loadable :
          /\ Loadable' = {c} /\ plant' = c.plant
          /\ loop'.samples = IF pc \in {"load", "restore"} THEN loop.samples
                             ELSE c.samples
          /\ loop'.time = IF pc \in {"resume_locals", "resume_start"}
                          THEN c.time ELSE 0
          /\ loop'.start = IF pc = "resume_start" THEN c.start ELSE 0
    BY <1>5, ResumeIs
  <2>2. CASE pc' \in {"restore", "resume"}
    <3>1. pc \in {"load", "restore"}
      BY <1>5, <2>2 DEF RestorePlant, RestoreController, ResumeSamples,
                        ResumeLocals, ResumeStart
    <3> QED
      BY <2>1, <2>2, <3>1 DEF StartOK, Starting, Loading
  <2>3. CASE pc' = "resume_locals"
    <3>1. pc = "resume"
      BY <1>5, <2>3 DEF RestorePlant, RestoreController, ResumeSamples,
                        ResumeLocals, ResumeStart
    <3> QED
      BY <2>1, <2>3, <3>1 DEF StartOK, Starting, Loading
  <2>4. CASE pc' = "resume_start"
    <3>1. pc = "resume_locals"
      BY <1>5, <2>4 DEF RestorePlant, RestoreController, ResumeSamples,
                        ResumeLocals, ResumeStart
    <3> QED
      BY <2>1, <2>4, <3>1 DEF StartOK, Starting, Loading
  <2>5. CASE pc' = "top"
    BY <1>2, <2>5 DEF Starting, Loading
  <2> QED
    BY <1>5, <2>2, <2>3, <2>4, <2>5
    DEF RestorePlant, RestoreController, ResumeSamples, ResumeLocals,
        ResumeStart
<1>6. CASE ResetAdapters
  <2>1. loop'.time = loop.time /\ loop'.start = loop.start
    BY <1>6 DEF ResetAdapters, TypeInv, TypeOK, Loop
  <2>2. plant'.trace = <<>> /\ pc' = "initial"
    BY <1>6 DEF ResetAdapters
  <2>3. loop.time = 0 /\ loop.start = 0
    BY <1>6 DEF ResetAdapters, StartOK, Starting
  <2> QED
    BY <2>1, <2>2, <2>3 DEF StartOK, Starting, Loading
<1>7. CASE InitialObservation
  <2>1. loop'.time = Clock(plant) /\ loop'.start = loop.start
    BY <1>7 DEF InitialObservation, TypeInv, TypeOK, Loop
  <2>2. plant' = plant /\ pc = "initial" /\ pc' = "initial_checks"
    BY <1>7 DEF InitialObservation
  <2>3. plant.trace = <<>> /\ loop.start = 0
    BY <2>2 DEF StartOK, Starting
  <2> QED
    BY <2>1, <2>2, <2>3 DEF StartOK, Starting, Loading, Clock
<1>8. adv.then \notin Early
  BY DEF TypeInv, TypeOK, Advance, Starting, Loading
<1>9. CASE \/ InitialChecks \/ LoadRejected \/ AdapterRaises \/ Finalize
           \/ PollCancel \/ OpenWindow \/ AdvanceReturns \/ Observe \/ Control
           \/ ProjectAction \/ Drive \/ CloseWindow \/ Settle
           \/ PeriodicCheckpoint \/ PeriodicStepFile \/ NextWindow \/ Qualify
           \/ Grade \/ LastCheckpoint \/ LastStepFile \/ WriteManifest
           \/ BoundaryStop \/ AsyncStop \/ Crash
  BY <1>2, <1>8, <1>9
  DEF InitialChecks, LoadRejected, AdapterRaises, Finalize, PollCancel,
      OpenWindow, StartAdvance, AdvanceReturns, Observe, Control,
      ProjectAction, Drive, CloseWindow, Settle, PeriodicCheckpoint,
      PeriodicStepFile, NextWindow, Qualify, Grade, LastCheckpoint,
      LastStepFile, CheckpointLost, WriteManifest, BoundaryStop, AsyncStop,
      Crash, Rejects, Stop, Escape, Fail, Starting, Loading
<1>10. CASE AdvancePlant
  BY <1>2, <1>10 DEF AdvancePlant, Starting, Loading
<1>11. CASE RequestCancel \/ UNCHANGED vars
  BY <1>1, <1>11 DEF RequestCancel, vars
<1> QED
  BY ONLY [Next]_vars, <1>3, <1>4, <1>5, <1>6, <1>7, <1>9, <1>10, <1>11
  DEF Next, Step

\* A checkpoint saves a plant that is on course.
LEMMA WriteOnCourse ==
  ASSUME NEW next, WriteCheckpoint(next), SavedOnCourse(files),
         OnCourse(plant, loop.time, loop.start, next)
  PROVE  SavedOnCourse(files \cup latest')
<1> DEFINE new == CheckpointOf(next)
<1>1. /\ new.next = next /\ new.plant = plant /\ new.time = loop.time
      /\ new.start = loop.start
  BY DEF CheckpointOf
<1>2. latest' = {new}
  BY DEF WriteCheckpoint
<1> HIDE DEF new
<1> QED
  BY <1>1, <1>2 DEF SavedOnCourse

LEMMA SavesStep ==
  ASSUME CourseInv, [Next]_vars PROVE SavesOK'
<1> USE DEF CourseInv, PackageInv
<1>1. CASE UNCHANGED <<files, latest, store>>
  BY <1>1 DEF SavesOK, OneEach, SavedOnCourse
<1>2. CASE files' = {} /\ latest' = {} /\ UNCHANGED store
  BY <1>2 DEF SavesOK, OneEach, SavedOnCourse
<1>3. CASE /\ UNCHANGED <<files, latest>>
           /\ \A r \in Runs :
                \/ store'[r] = store[r]
                \/ store'[r].files = files /\ store'[r].latest = latest
  BY <1>3 DEF SavesOK, OneEach, SavedOnCourse
<1>4. ASSUME NEW next, WriteCheckpoint(next), UNCHANGED <<files, store>>,
             OnCourse(plant, loop.time, loop.start, next)
      PROVE  SavesOK'
  <2>1. SavedOnCourse(files \cup latest')
    BY <1>4, WriteOnCourse DEF SavesOK, SavedOnCourse
  <2> QED
    BY <1>4, <2>1 DEF SavesOK, OneEach, SavedOnCourse
<1>5. CASE Escape
  <2> DEFINE entry ==
        [dir |-> "tmp", samples |-> <<>>, passed |-> FALSE,
         manifest |-> IF pc = "finalize" THEN machine ELSE "none",
         failure |-> NoFailure, files |-> files, latest |-> latest,
         spec |-> loop.spec]
  <2>1. entry.files = files /\ entry.latest = latest
    OBVIOUS
  <2>2. store' = [store EXCEPT ![run] = entry]
    BY <1>5 DEF Escape
  <2> HIDE DEF entry
  <2>3. \A r \in Runs : \/ store'[r] = store[r]
                        \/ store'[r].files = files /\ store'[r].latest = latest
    BY <2>1, <2>2 DEF TypeInv, TypeOK
  <2> QED
    BY <1>3, <1>5, <2>3 DEF Escape
<1>6. CASE Finalize
  <2> DEFINE entry ==
        [dir |-> "published", manifest |-> machine, samples |-> loop.samples,
         passed |-> SafetyPassed, failure |-> failure, files |-> files,
         latest |-> latest, spec |-> loop.spec]
  <2>1. entry.files = files /\ entry.latest = latest
    OBVIOUS
  <2>2. store' = [store EXCEPT ![run] = entry]
    BY <1>6 DEF Finalize
  <2> HIDE DEF entry
  <2>3. \A r \in Runs : \/ store'[r] = store[r]
                        \/ store'[r].files = files /\ store'[r].latest = latest
    BY <2>1, <2>2 DEF TypeInv, TypeOK
  <2> QED
    BY <1>3, <1>6, <2>3 DEF Finalize
<1>7. CASE PeriodicCheckpoint
  <2>1. pc = "checkpoint" /\ UNCHANGED <<files, store>>
    BY <1>7 DEF PeriodicCheckpoint
  <2>2. OnCourse(plant, loop.time, loop.start, loop.index + 1)
    BY <2>1 DEF CourseOK, CountOK, Closing, UnderWay, Unset, TryBlock,
                AdapterCalls
  <2> QED
    BY <1>1, <1>4, <1>7, <2>1, <2>2 DEF PeriodicCheckpoint
<1>8. CASE LastCheckpoint
  <2>1. OnCourse(plant, loop.time, loop.start, Len(loop.samples))
    BY <1>8 DEF LastCheckpoint, CourseOK, UnderWay, Unset, LastWrites
  <2> QED
    BY <1>1, <1>4, <1>8, <2>1 DEF LastCheckpoint, CheckpointLost
<1>9. CASE PeriodicStepFile \/ LastStepFile
  <2>1. CASE WriteStepFile
    <3>1. UNCHANGED <<latest, store>>
      BY <1>9 DEF PeriodicStepFile, LastStepFile
    <3>2. OneEach(files')
      BY <2>1 DEF WriteStepFile, SavesOK, OneEach, FilesOK
    <3>3. files' \subseteq files \cup latest
      BY <2>1 DEF WriteStepFile
    <3> QED
      BY <3>1, <3>2, <3>3 DEF SavesOK, OneEach, SavedOnCourse
  <2>2. CASE UNCHANGED files
    BY <1>1, <1>9, <2>2 DEF PeriodicStepFile, LastStepFile
  <2> QED
    BY <1>9, <2>1, <2>2 DEF PeriodicStepFile, LastStepFile
<1> QED
  BY <1>1, <1>2, <1>5, <1>6, <1>7, <1>8, <1>9
  DEF Next, Step, vars, Negotiate, LoadRejected, RestorePlant,
      RestoreController, ResumeSamples, ResumeLocals, ResumeStart,
      ResetAdapters, InitialObservation, InitialChecks, PollCancel, OpenWindow,
      AdvancePlant, AdvanceReturns, AdapterRaises, Observe, Control,
      ProjectAction, Drive, CloseWindow, Settle, NextWindow, Qualify, Grade,
      WriteManifest, BeginFresh, BeginResume, Begin, RequestCancel,
      BoundaryStop, AsyncStop, Stop, Crash

\* A run is finished by Qualify alone, which finds all windows closed.
LEMMA DoneStep ==
  ASSUME CourseInv, [Next]_vars PROVE DoneOK'
<1> USE DEF CourseInv, PackageInv
<1>1. CASE UNCHANGED <<plant, loop>> /\ machine \in Finished
  BY <1>1 DEF DoneOK, Origin
<1>2. CASE machine' \notin Finished
  BY <1>2 DEF DoneOK
<1>3. CASE Qualify
  <2>1. pc = "top" /\ loop.index >= Steps /\ UNCHANGED <<plant, loop>>
    BY <1>3 DEF Qualify
  <2>2. OnCourse(plant, loop.time, loop.start, loop.index)
    BY <2>1 DEF CourseOK, UnderWay, Unset, TryBlock, CountOK
  <2>3. loop.start = Origin(plant) /\ Len(plant.trace) = Duration
    BY <2>1, <2>2 DEF OnCourse
  <2> QED
    BY <2>1, <2>3 DEF DoneOK, Origin
<1>4. CASE pc \in TryBlock \ {"graded"} /\ ~Qualify
  <2>1. machine = "RUNNING"
    BY <1>4 DEF StatusOK
  <2>2. machine' \in {"RUNNING", "RUN_FAILED", "INCOMPLETE"}
    BY <1>4, <2>1
    DEF Next, Step, vars, Negotiate, LoadRejected, RestorePlant,
      RestoreController, ResumeSamples, ResumeLocals, ResumeStart,
      ResetAdapters, InitialObservation, InitialChecks, PeriodicStepFile,
      LastStepFile, CheckpointLost, Rejects, PollCancel, OpenWindow,
      AdvancePlant, AdvanceReturns, AdapterRaises, Observe, Control,
      ProjectAction, Drive, CloseWindow, Settle, PeriodicCheckpoint, NextWindow,
      Grade, LastCheckpoint, WriteManifest, Finalize, BeginFresh, BeginResume,
      Begin, RequestCancel, BoundaryStop, AsyncStop, Stop, Escape, Crash, Fail,
      TryBlock
  <2> QED
    BY <1>2, <2>2 DEF Finished
<1>5. CASE pc \notin TryBlock \ {"graded"}
  <2>1. UNCHANGED <<plant, loop>> \/ machine' = "RUNNING"
    BY <1>5
    DEF Next, Step, vars, Negotiate, LoadRejected, RestorePlant,
      RestoreController, ResumeSamples, ResumeLocals, ResumeStart,
      ResetAdapters, InitialObservation, InitialChecks, PeriodicStepFile,
      LastStepFile, CheckpointLost, PollCancel, OpenWindow,
      AdvancePlant, AdvanceReturns, AdapterRaises, Observe, Control,
      ProjectAction, Drive, CloseWindow, Settle, PeriodicCheckpoint, NextWindow,
      Qualify, Grade, LastCheckpoint, WriteManifest, Finalize, BeginFresh,
      BeginResume, Begin, RequestCancel, BoundaryStop, AsyncStop, Stop, Escape,
      Crash, TryBlock, AdapterCalls
  <2>2. pc = "graded" => machine \in Finished
    BY DEF StatusOK, Finished
  <2>3. machine' \in Finished => machine \in Finished
    BY <1>5, <2>2
    DEF Next, Step, vars, Negotiate, LoadRejected, RestorePlant,
      RestoreController, ResumeSamples, ResumeLocals, ResumeStart,
      ResetAdapters, InitialObservation, InitialChecks, PeriodicStepFile,
      LastStepFile, CheckpointLost, PollCancel, OpenWindow,
      AdvancePlant, AdvanceReturns, AdapterRaises, Observe, Control,
      ProjectAction, Drive, CloseWindow, Settle, PeriodicCheckpoint, NextWindow,
      Qualify, Grade, LastCheckpoint, WriteManifest, Finalize, BeginFresh,
      BeginResume, Begin, RequestCancel, BoundaryStop, AsyncStop, Stop, Escape,
      Crash, Fail, Rejects, Finished, TryBlock, AdapterCalls
  <2> QED
    BY <1>1, <1>2, <2>1, <2>3 DEF Finished
<1> QED
  BY <1>3, <1>4, <1>5

\* Before the first window a plant is on course wherever it is.
LEMMA StartOnCourse == ASSUME NEW p \in Plant PROVE OnCourse(p, 0, 0, 0)
<1> DEFINE o == Origin(p)  l == Len(p.trace)  k == Clock(p)
<1>1. o \in Nat /\ l \in Nat /\ k = o + l /\ Duration \in Nat
  BY ClockIs, TimebaseAssumption
<1> HIDE DEF o, l, k
<1>2. 0 <= k /\ (0 = k => 0 = o /\ l = 0 /\ l <= Duration)
  BY <1>1
<1>3. Reach(0) = 0 /\ ~(0 >= Steps)
  BY ReachFacts
<1> QED
  BY <1>2, <1>3 DEF OnCourse, o, l, k

\* What a segment of _advance_segments does.
LEMMA AdvanceIs ==
  ASSUME TypeInv, AdvancePlant
  PROVE  \E segment \in Nat \ {0} :
           /\ plant' \in Plant /\ Origin(plant') = Origin(plant)
           /\ Len(plant'.trace) = Len(plant.trace) + segment
           /\ Clock(plant') = Clock(plant) + segment
           /\ adv'.left = adv.left - segment /\ adv'.end = adv.end
           /\ adv'.left \in Nat
<1> DEFINE segment == Least(PlantStep, adv.left)
           added == [i \in 1..segment |-> adv.action]
<1>1. adv.left > 0 /\ adv.left \in Nat /\ PlantStep \in Nat \ {0}
  BY Numbers DEF AdvancePlant
<1>2. segment \in Nat \ {0} /\ adv.left - segment \in Nat
  BY <1>1 DEF Least
<1>3. /\ plant' = [plant EXCEPT !.trace = plant.trace \o added]
      /\ adv' = [adv EXCEPT !.left = adv.left - segment]
  BY DEF AdvancePlant, TypeInv, TypeOK, Plant
<1>4. adv.action \in Nat /\ plant.trace \in Seq(Nat)
  BY DEF TypeInv, TypeOK, Advance, Plant
<1> HIDE DEF segment
<1>5. added \in Seq(Nat) /\ Len(added) = segment
  BY <1>2, <1>4
<1>6. /\ plant.trace \o added \in Seq(Nat)
      /\ Len(plant.trace \o added) = Len(plant.trace) + segment
  <2> DEFINE before == plant.trace
  <2>1. before \in Seq(Nat)
    BY <1>4
  <2> HIDE DEF before, added
  <2>2. before \o added \in Seq(Nat)
    BY <1>5, <2>1
  <2>3. Len(before \o added) = Len(before) + Len(added)
    BY <1>5, <2>1
  <2> QED
    BY <1>5, <2>2, <2>3 DEF before
<1>7. /\ plant' \in Plant /\ plant'.origin = plant.origin
      /\ plant'.trace = plant.trace \o added
  BY <1>3, <1>6 DEF TypeInv, TypeOK, Plant
<1>8. adv'.left = adv.left - segment /\ adv'.end = adv.end
  BY <1>3 DEF TypeInv, TypeOK, Advance
<1>9. Origin(plant') = Origin(plant)
  BY <1>7 DEF Origin
<1>10. Clock(plant') = Clock(plant) + segment
  <2>1. Clock(plant') = Origin(plant') + Len(plant'.trace)
    BY <1>7, ClockIs
  <2>2. Clock(plant') = Origin(plant) + (Len(plant.trace) + segment)
    BY <1>6, <1>7, <1>9, <2>1
  <2> QED
    BY <1>2, <2>2, Numbers
<1> QED
  BY <1>2, <1>6, <1>7, <1>8, <1>9, <1>10

\* A plant at the end of its window has done what the closed windows reach.
LEMMA AtEndpoint ==
  ASSUME TypeInv, Located, Clock(plant) = Endpoint
  PROVE  /\ loop.start = Origin(plant)
         /\ Reach(loop.index + 1) <= Len(plant.trace)
         /\ Len(plant.trace) <= Duration
         /\ loop.index + 1 >= Steps => Len(plant.trace) = Duration
<1> DEFINE next == Reach(loop.index + 1)  ticks == Len(plant.trace)
<1>0. loop.index \in Nat
  BY Numbers
<1>1. loop.index + 1 \in Nat
  BY <1>0
<1>2. /\ next \in Nat /\ ticks \in Nat
      /\ loop.index + 1 >= Steps => next = Duration
  BY <1>1, ReachFacts, ClockIs, Numbers
<1>3. /\ loop.start = Origin(plant) /\ Clock(plant) = loop.start + ticks
      /\ loop.start + next <= Clock(plant)
      /\ Clock(plant) <= loop.start + Duration
  BY EndpointIs, ClockIs, Numbers DEF Located
<1> HIDE DEF next, ticks
<1>4. next <= ticks /\ ticks <= Duration
  BY <1>2, <1>3, Numbers
<1> QED
  BY <1>2, <1>3, <1>4, Numbers DEF next, ticks

LEMMA CourseStep ==
  ASSUME StartsAtZero, CourseInv, [Next]_vars PROVE CourseOK'
<1> USE DEF CourseInv, PackageInv
<1>1. CASE pc' \notin UnderWay
  BY <1>1 DEF CourseOK
<1>2. CASE /\ pc \in UnderWay /\ (StartTime = 0 \/ pc \notin Unset)
           /\ plant' = plant /\ loop'.time = loop.time
           /\ loop'.start = loop.start /\ loop'.samples = loop.samples
  BY <1>2 DEF CourseOK
<1>3. CASE pc' \in Starting \ {"initial_checks"}
  <2>1. loop'.time = 0 /\ loop'.start = 0
    BY <1>3, StartStep DEF StartOK
  <2>2. Len(loop'.samples) = 0
    BY <1>3, CountStep DEF CountOK
  <2>3. plant' \in Plant
    BY TypeStep DEF TypeInv, TypeOK
  <2> QED
    BY <2>1, <2>2, <2>3, StartOnCourse DEF CourseOK
<1>4. CASE InitialObservation \/ (InitialChecks /\ pc' = "top")
  <2>1. plant.trace = <<>> /\ Len(loop.samples) = 0
    BY <1>4 DEF InitialObservation, InitialChecks, StartOK, CountOK, Starting
  <2>2. Len(plant.trace) = 0
    BY <2>1
  <2>3. /\ Clock(plant) = Origin(plant) /\ Reach(0) = 0 /\ ~(0 >= Steps)
        /\ StartTime = 0 => Origin(plant) = 0
    <3>1. Reach(0) = 0 /\ ~(0 >= Steps)
      BY ReachFacts
    <3>2. Clock(plant) = Origin(plant)
      BY <2>2, Numbers
    <3>3. StartTime = 0 => Origin(plant) = 0
      BY DEF Origin
    <3> QED
      BY <3>1, <3>2, <3>3
  <2>4. ASSUME NEW start \in Nat, start = Origin(plant)
        PROVE  OnCourse(plant, Clock(plant), start, 0)
    BY <2>2, <2>3, <2>4, Numbers DEF OnCourse
  <2>5. /\ loop'.samples = loop.samples /\ plant' = plant
        /\ loop'.time = Clock(plant)
    BY <1>4 DEF InitialObservation, InitialChecks, Rejects, Fail, StartOK,
                TypeInv, TypeOK, Loop
  <2>6. CASE InitialObservation
    <3>1. loop'.start = 0 /\ pc' = "initial_checks"
      BY <2>6 DEF InitialObservation, StartOK, Starting, TypeInv, TypeOK, Loop
    <3>2. StartTime = 0 => OnCourse(plant, Clock(plant), 0, 0)
      BY <2>3, <2>4
    <3> QED
      BY <2>1, <2>5, <3>1, <3>2 DEF CourseOK, Unset
  <2>7. CASE InitialChecks /\ pc' = "top"
    <3>1. loop'.start = Clock(plant)
      BY <2>7 DEF InitialChecks, Rejects, Fail, StartOK, TypeInv, TypeOK, Loop
    <3>2. OnCourse(plant, Clock(plant), Clock(plant), 0)
      BY <2>3, <2>4, Numbers
    <3> QED
      BY <2>1, <2>5, <3>1, <3>2 DEF CourseOK
  <2> QED
    BY <1>4, <2>6, <2>7
<1>5. CASE ResumeSamples \/ ResumeLocals \/ ResumeStart
  <2>1. PICK c \in Loadable :
          /\ plant' = c.plant
          /\ OnCourse(c.plant, c.time, c.start, c.next)
          /\ c.next = Len(c.samples)
          /\ loop'.samples = IF pc \in {"load", "restore"} THEN loop.samples
                             ELSE c.samples
          /\ loop'.time = IF pc \in {"resume_locals", "resume_start"}
                          THEN c.time ELSE 0
          /\ loop'.start = IF pc = "resume_start" THEN c.start ELSE 0
    BY <1>5, ResumeIs
  <2>2. pc \in Loading /\ pc \notin {"load", "restore"}
    BY <1>5 DEF ResumeSamples, ResumeLocals, ResumeStart, Loading
  <2>3. loop'.samples = c.samples
    BY <2>1, <2>2
  <2>4. CASE ResumeStart
    <3>1. loop'.time = c.time /\ loop'.start = c.start
      BY <2>1, <2>4 DEF ResumeStart
    <3> QED
      BY <2>1, <2>3, <3>1 DEF CourseOK
  <2>5. CASE ResumeSamples \/ ResumeLocals
    <3>1. pc' \in Unset
      BY <2>5 DEF ResumeSamples, ResumeLocals, Unset
    <3>2. loop'.start = 0 /\ loop'.time \in {0, c.time}
      BY <2>1, <2>5 DEF ResumeSamples, ResumeLocals
    <3>3. c.plant \in Plant /\ c.time \in Nat
      BY <2>1, <2>2, LoadableType DEF Checkpoint
    <3>4. ASSUME StartTime = 0 PROVE OnCourse(c.plant, loop'.time, 0, c.next)
      <4>1. Origin(c.plant) = 0
        BY <3>4 DEF Origin
      <4>2. Clock(c.plant) \in Nat /\ c.time <= Clock(c.plant)
        BY <2>1, <3>3, ClockIs DEF OnCourse
      <4>3. 0 <= Clock(c.plant) /\ (0 = Clock(c.plant) => c.time = 0)
        BY <3>3, <4>2
      <4> QED
        BY <2>1, <3>2, <4>1, <4>2, <4>3 DEF OnCourse
    <3> QED
      BY <2>1, <2>3, <3>1, <3>2, <3>4 DEF CourseOK
  <2> QED
    BY <1>5, <2>4, <2>5
<1>6. CASE AdvancePlant
  <2>1. PICK segment \in Nat \ {0} :
          plant' \in Plant /\ Clock(plant') = Clock(plant) + segment
    BY <1>6, AdvanceIs
  <2>2. pc = "advance" /\ pc \in InWindow /\ pc \in UnderWay /\ loop' = loop
    BY <1>6 DEF AdvancePlant, InWindow, UnderWay, Unset, TryBlock, AdapterCalls
  <2>3. loop.time <= Clock(plant) /\ Clock(plant) \in Nat
    BY <2>2, ClockIs, Numbers DEF CourseOK, OnCourse, Unset
  <2>4. loop.time <= Clock(plant') /\ loop.time # Clock(plant')
    <3> DEFINE t == loop.time  k == Clock(plant)  later == Clock(plant')
    <3>1. /\ t \in Nat /\ k \in Nat /\ t <= k /\ later = k + segment
          /\ segment \in Nat \ {0}
      BY <2>1, <2>3, Numbers
    <3> HIDE DEF t, k, later
    <3>2. t <= later /\ t # later
      BY <3>1
    <3> QED
      BY <3>2 DEF t, later
  <2>5. ~(Len(loop.samples) >= Steps)
    BY <2>2, Numbers, StepsType DEF CountOK
  <2> QED
    BY <2>2, <2>4, <2>5 DEF CourseOK, OnCourse
<1>7. CASE AdvanceReturns /\ pc' = adv.then
  <2>1. pc = "advance" /\ pc \in InWindow /\ pc \in UnderWay /\ plant' = plant
    BY <1>7
    DEF AdvanceReturns, InWindow, UnderWay, Unset, TryBlock, AdapterCalls
  <2>2. CASE loop' = loop
    BY <1>2, <2>1, <2>2 DEF Unset
  <2>3. CASE /\ loop' = [loop EXCEPT !.time = Clock(plant)]
             /\ Clock(plant) = adv.end
    <3>1. /\ loop'.time = Clock(plant) /\ loop'.start = loop.start
          /\ loop'.samples = loop.samples
      BY <2>3 DEF TypeInv, TypeOK, Loop
    <3>2. /\ Located /\ loop.cycle <= Clock(plant)
          /\ Clock(plant) <= loop.start + Duration
      BY <1>7, <2>1, <2>3, Numbers DEF AdvanceReturns, WindowOK
    <3>3. Reach(loop.index) \in Nat /\ Len(loop.samples) = loop.index
          /\ loop.index < Steps
      BY <2>1, ReachFacts, Numbers DEF CountOK
    <3>4. /\ Reach(loop.index) <= Len(plant.trace)
          /\ Len(plant.trace) <= Duration
      <4> DEFINE reach == Reach(loop.index)
      <4> HIDE DEF reach
      <4>1. /\ loop.start = Origin(plant) /\ loop.start + reach <= loop.cycle
            /\ reach \in Nat
        BY <3>2, <3>3 DEF Located, reach
      <4>2. reach <= Len(plant.trace) /\ Len(plant.trace) <= Duration
        <5> DEFINE c == loop.cycle  o == Origin(plant)  l == Len(plant.trace)
                   k == Clock(plant)
        <5>1. /\ o + reach <= c /\ c <= k /\ k <= o + Duration /\ k = o + l
              /\ reach \in Nat /\ c \in Nat /\ o \in Nat /\ l \in Nat
              /\ Duration \in Nat
          BY <3>2, <4>1, Numbers
        <5> HIDE DEF c, o, l, k
        <5>2. reach <= l /\ l <= Duration
          BY <5>1
        <5> QED
          BY <5>2 DEF l
      <4> QED
        BY <4>2 DEF reach
    <3>5. OnCourse(plant, Clock(plant), loop.start, Len(loop.samples))
      <4>1. ~(Len(loop.samples) >= Steps) /\ Clock(plant) <= Clock(plant)
        <5> DEFINE n == Len(loop.samples)  k == Clock(plant)
        <5>1. n \in Nat /\ k \in Nat /\ n < Steps /\ Steps \in Nat
          BY <3>3, Numbers, StepsType
        <5> HIDE DEF n, k
        <5>2. ~(n >= Steps) /\ k <= k
          BY <5>1
        <5> QED
          BY <5>2 DEF n, k
      <4> QED
        BY <3>2, <3>3, <3>4, <4>1 DEF OnCourse, Located
    <3> QED
      BY <2>1, <3>1, <3>5 DEF CourseOK
  <2> QED
    BY <1>7, <2>2, <2>3 DEF AdvanceReturns, Fail, TypeInv, TypeOK, Advance
<1>8. CASE CloseWindow /\ pc' = "settle"
  <2>1. /\ Clock(plant) = Endpoint /\ Clock(plant) > loop.time
        /\ loop' = [loop EXCEPT !.samples = Append(@, [index |-> loop.index,
                      time |-> loop.time, action |-> loop.action])]
    BY <1>8 DEF CloseWindow, Rejects, Fail
  <2>2. loop'.time = loop.time /\ loop'.start = loop.start
        /\ loop'.index = loop.index /\ plant' = plant /\ pc = "endpoint"
    BY <1>8, <2>1 DEF CloseWindow, TypeInv, TypeOK, Loop
  <2>3. Len(loop'.samples) = loop.index + 1
    BY <1>8, <2>2, CountStep DEF CountOK, Closing
  <2>4. Located
    BY <2>2 DEF WindowOK
  <2>5. /\ loop.start = Origin(plant)
        /\ loop.index + 1 >= Steps => Len(plant.trace) = Duration
    BY <2>1, <2>4, AtEndpoint
  <2>6. loop.time <= Clock(plant) /\ loop.time # Clock(plant)
    <3> DEFINE t == loop.time  k == Clock(plant)
    <3>1. t \in Nat /\ k \in Nat /\ k > t
      BY <2>1, Numbers
    <3> HIDE DEF t, k
    <3>2. t <= k /\ t # k
      BY <3>1
    <3> QED
      BY <3>2 DEF t, k
  <2>7. OnCourse(plant, loop.time, loop.start, loop.index + 1)
    BY <2>5, <2>6 DEF OnCourse
  <2> QED
    BY <2>2, <2>3, <2>7 DEF CourseOK
<1>9. CASE Settle
  <2>1. /\ loop'.time = Clock(plant) /\ loop'.start = loop.start
        /\ loop'.samples = loop.samples /\ plant' = plant /\ pc = "settle"
    BY <1>9 DEF Settle, TypeInv, TypeOK, Loop
  <2>2. Located /\ Clock(plant) = Endpoint /\ Len(loop.samples) = loop.index + 1
    BY <2>1 DEF WindowOK, CountOK, Closing
  <2>3. OnCourse(plant, Clock(plant), loop.start, loop.index + 1)
    BY <2>2, AtEndpoint, ClockIs, Numbers DEF OnCourse
  <2> QED
    BY <2>1, <2>2, <2>3 DEF CourseOK
<1>10. CASE PollCancel \/ BoundaryStop \/ AsyncStop
  <2>1. pc \in TryBlock
    BY <1>10 DEF PollCancel, BoundaryStop, AsyncStop, TryBlock
  <2>2. PICK category : Stop(category)
    BY <1>10 DEF PollCancel, BoundaryStop, AsyncStop
  <2>3. CASE Escape
    BY <1>1, <2>3 DEF Escape, UnderWay, LastWrites, TryBlock, AdapterCalls
  <2>4. CASE CanTransition(machine, "INCOMPLETE") /\ UNCHANGED <<plant, loop>>
    <3>1. pc \in UnderWay
      BY <2>1, <2>4 DEF CanTransition, StatusOK, UnderWay
    <3>2. StartTime = 0 \/ pc \notin Unset
      BY <1>10 DEF PollCancel, BoundaryStop, AsyncStop, StartsAtZero, Unset
    <3> QED
      BY <1>2, <2>4, <3>1, <3>2
  <2> QED
    BY <2>2, <2>3, <2>4 DEF Stop
<1>11. CASE \/ Observe \/ ProjectAction \/ Drive \/ PeriodicCheckpoint
            \/ PeriodicStepFile \/ LastCheckpoint \/ LastStepFile
  <2>1. pc \in UnderWay /\ pc \notin Unset /\ UNCHANGED <<plant, loop>>
    BY <1>11
    DEF Observe, ProjectAction, Drive, PeriodicCheckpoint, PeriodicStepFile,
        LastCheckpoint, LastStepFile, UnderWay, Unset, LastWrites, TryBlock,
        AdapterCalls
  <2> QED
    BY <1>2, <2>1
<1>12. CASE OpenWindow \/ Control \/ NextWindow
  <2>1. /\ loop'.time = loop.time /\ loop'.start = loop.start
        /\ loop'.samples = loop.samples /\ plant' = plant
    BY <1>12 DEF OpenWindow, Control, NextWindow, TypeInv, TypeOK, Loop
  <2>2. pc \in UnderWay /\ pc \notin Unset
    BY <1>12 DEF OpenWindow, Control, NextWindow, UnderWay, Unset, TryBlock,
                 AdapterCalls
  <2> QED
    BY <1>2, <2>1, <2>2
<1>19. CASE RequestCancel \/ UNCHANGED vars
  BY <1>19 DEF RequestCancel, vars, CourseOK
<1>13. CASE \/ BeginFresh \/ BeginResume \/ Negotiate \/ RestorePlant
            \/ RestoreController \/ ResetAdapters
  BY <1>1, <1>3, <1>13
  DEF BeginFresh, BeginResume, Begin, Negotiate, RestorePlant,
      RestoreController, ResetAdapters, Fail, Starting, UnderWay, LastWrites,
      TryBlock, AdapterCalls
<1>14. CASE pc' = "publish"
  BY <1>1, <1>14 DEF UnderWay, LastWrites, TryBlock, AdapterCalls
<1>15. CASE \/ LoadRejected \/ AdapterRaises \/ Qualify \/ Grade
            \/ WriteManifest \/ Finalize \/ Crash
  BY <1>1, <1>15
  DEF LoadRejected, AdapterRaises, Qualify, Grade, WriteManifest, Finalize,
      Crash, Escape, Fail, UnderWay, LastWrites, TryBlock, AdapterCalls
<1>16. InitialChecks => pc' \in {"top", "publish"}
  BY DEF InitialChecks, Rejects, Fail
<1>17. AdvanceReturns => pc' \in {adv.then, "publish"}
  BY DEF AdvanceReturns, Fail
<1>18. CloseWindow => pc' \in {"settle", "publish"}
  BY DEF CloseWindow, Rejects, Fail
<1> QED
  BY ONLY [Next]_vars, <1>4, <1>5, <1>6, <1>7, <1>8, <1>9, <1>10, <1>11, <1>12,
     <1>13, <1>14, <1>15, <1>16, <1>17, <1>18, <1>19
  DEF Next, Step

\* A segment begins where the plant is, if the plant is where the loop thinks.
LEMMA SegmentIs ==
  ASSUME TypeInv, NEW action, NEW end \in Nat, NEW then,
         StartAdvance(action, end, then)
  PROVE  /\ pc' = "advance" /\ adv'.end = end
         /\ Clock(plant) = adv'.end - adv'.left <=> Clock(plant) = loop.time
<1>1. pc' = "advance" /\ adv'.end = end /\ adv'.left = end - loop.time
  BY DEF StartAdvance
<1> DEFINE t == loop.time  k == Clock(plant)
<1>2. t \in Nat /\ k \in Nat
  BY Numbers
<1> HIDE DEF t, k
<1>3. k = end - (end - t) <=> k = t
  BY <1>2
<1> QED
  BY <1>1, <1>3 DEF t, k

LEMMA WindowStep ==
  ASSUME CourseInv, [Next]_vars PROVE WindowOK'
<1> USE DEF CourseInv, PackageInv
<1> DEFINE Windows == {"advance", "sample", "control", "act", "drive", "endpoint",
                       "settle"}
<1>1. CASE pc' \notin Windows
  BY <1>1 DEF WindowOK
<1>2. CASE UNCHANGED <<pc, plant, loop, adv>>
  BY <1>2 DEF WindowOK, Located, Origin, Endpoint, WindowAt
<1>3. CASE OpenWindow /\ WindowFits
  <2>1. /\ loop'.time = loop.time /\ loop'.start = loop.start
        /\ loop'.index = loop.index /\ loop'.cycle = loop.time
        /\ plant' = plant /\ pc = "top"
    BY <1>3 DEF OpenWindow, TypeInv, TypeOK, Loop
  <2>2. OnCourse(plant, loop.time, loop.start, loop.index)
    BY <2>1 DEF CourseOK, CountOK, UnderWay, Unset, TryBlock
  <2>3. Clock(plant) = loop.time => Located'
    <3> SUFFICES ASSUME Clock(plant) = loop.time PROVE Located'
      OBVIOUS
    <3> DEFINE reach == Reach(loop.index)
    <3>1. loop.start = Origin(plant) /\ reach <= Len(plant.trace) /\ reach \in Nat
      BY <2>2, ReachFacts, Numbers DEF OnCourse
    <3>2. loop.time = Origin(plant) + Len(plant.trace)
      BY Numbers
    <3> HIDE DEF reach
    <3>3. loop.start + reach <= loop.time /\ loop.time <= loop.time
      BY <3>1, <3>2, Numbers
    <3> QED
      BY <2>1, <3>1, <3>3 DEF Located, Origin, reach
  <2>4. /\ loop.time <= loop.time + Offset
        /\ loop.time + Offset <= loop.start + Duration
        /\ loop.time + Offset \in Nat
    <3> DEFINE t == loop.time  a == loop.start
    <3>1. /\ t \in Nat /\ a \in Nat /\ Offset \in Nat /\ Duration \in Nat
          /\ Period \in Nat
          /\ Offset < (IF Period <= a + Duration - t THEN Period
                       ELSE a + Duration - t)
      BY <1>3, Numbers DEF WindowFits, WindowAt, Least
    <3> HIDE DEF t, a
    <3>2. t <= t + Offset /\ t + Offset <= a + Duration /\ t + Offset \in Nat
      BY <3>1
    <3> QED
      BY <3>2 DEF t, a
  <2>5. CASE StartAdvance(loop.lastAction, loop.time + Offset, "sample")
    <3>1. /\ pc' = "advance" /\ adv'.end = loop.time + Offset
          /\ Clock(plant) = adv'.end - adv'.left <=> Clock(plant) = loop.time
      BY <2>4, <2>5, SegmentIs
    <3> QED
      BY <2>1, <2>3, <2>4, <3>1 DEF WindowOK
  <2>6. CASE pc' = "sample"
    BY <2>1, <2>3, <2>6 DEF WindowOK
  <2> QED
    BY <1>3, <2>5, <2>6 DEF OpenWindow
<1>4. CASE AdvancePlant
  <2>1. PICK segment \in Nat \ {0} :
          /\ Origin(plant') = Origin(plant)
          /\ Clock(plant') = Clock(plant) + segment
          /\ adv'.left = adv.left - segment /\ adv'.end = adv.end
    BY <1>4, AdvanceIs
  <2>2. Clock(plant') = adv'.end - adv'.left => Clock(plant) = adv.end - adv.left
    <3> DEFINE k == Clock(plant)  e == adv.end  l == adv.left
    <3>1. k \in Nat /\ e \in Nat /\ l \in Nat
      BY Numbers
    <3> HIDE DEF k, e, l
    <3>2. k + segment = e - (l - segment) => k = e - l
      BY <3>1
    <3> QED
      BY <2>1, <3>2 DEF k, e, l
  <2>3. pc = "advance" /\ pc' = pc /\ loop' = loop
    BY <1>4 DEF AdvancePlant
  <2> QED
    BY <2>1, <2>2, <2>3 DEF WindowOK, Located
<1>5. CASE AdvanceReturns /\ Clock(plant) = adv.end
  <2>1. pc = "advance" /\ plant' = plant /\ pc' = adv.then /\ adv.left = 0
    BY <1>5 DEF AdvanceReturns
  <2>2. /\ loop'.start = loop.start /\ loop'.index = loop.index
        /\ loop'.cycle = loop.cycle
        /\ loop'.time = loop.time \/ loop'.time = adv.end
    BY <1>5 DEF AdvanceReturns, TypeInv, TypeOK, Loop
  <2>3. Clock(plant) = adv.end - adv.left
    BY <1>5, <2>1, Numbers
  <2>4. Located /\ loop.cycle <= adv.end
    BY <2>1, <2>3 DEF WindowOK
  <2>5. Located'
    BY <2>1, <2>2, <2>4 DEF Located, Origin
  <2>6. pc' \in {"sample", "drive", "endpoint"}
    BY <2>1 DEF TypeInv, TypeOK, Advance
  <2> QED
    BY <2>5, <2>6 DEF WindowOK
<1>6. CASE Observe /\ pc' = "control"
  <2>1. pc = "sample" /\ UNCHANGED <<plant, loop>> /\ Clock(plant) = loop.time
    BY <1>6 DEF Observe, Rejects, Fail
  <2> QED
    BY <1>6, <2>1 DEF WindowOK, Located, Origin
<1>7. CASE Control /\ pc' = "act"
  <2>1. /\ loop'.time = loop.time /\ loop'.start = loop.start
        /\ loop'.index = loop.index /\ loop'.cycle = loop.cycle
        /\ loop'.target = loop.time + Delay /\ plant' = plant /\ pc = "control"
    BY <1>7 DEF Control, TypeInv, TypeOK, Loop
  <2>2. Located
    BY <2>1 DEF WindowOK
  <2>3. ~(loop.time + Delay > Endpoint)
    BY <1>7 DEF Control, Fail
  <2>4. loop.time + Delay <= Endpoint
    <3>1. Endpoint \in Int
      BY <2>2, EndpointIs
    <3>2. loop.time + Delay \in Nat
      BY TimebaseAssumption DEF TypeInv, TypeOK, Loop
    <3> QED
      BY <2>3, <3>1, <3>2
  <2>5. Endpoint' = Endpoint
    BY <2>1 DEF Endpoint, WindowAt
  <2>6. Located'
    BY <2>1, <2>2 DEF Located, Origin
  <2> QED
    BY <1>7, <2>1, <2>4, <2>5, <2>6 DEF WindowOK
<1>8. CASE ProjectAction /\ pc' # "publish"
  <2>1. pc = "act" /\ UNCHANGED <<plant, loop>>
    BY <1>8 DEF ProjectAction
  <2>2. Located /\ loop.target <= Endpoint
    BY <2>1 DEF WindowOK
  <2>3. CASE loop.target > loop.time
             /\ StartAdvance(loop.lastAction, loop.target, "drive")
    <3>1. pc' = "advance" /\ adv'.end = loop.target
      BY <2>3, SegmentIs, Numbers
    <3>2. loop.cycle <= loop.target /\ loop.target <= loop.start + Duration
      <4>1. /\ loop.target > loop.time /\ loop.cycle <= loop.time
            /\ loop.target \in Nat /\ loop.time \in Nat /\ loop.cycle \in Nat
        BY <2>2, <2>3, Numbers DEF Located
      <4>2. /\ loop.target <= Endpoint /\ Endpoint <= loop.start + Duration
            /\ Endpoint \in Int
        BY <2>2, EndpointIs
      <4>3. loop.start + Duration \in Nat
        BY TimebaseAssumption DEF TypeInv, TypeOK, Loop
      <4>4. loop.cycle <= loop.target
        BY <4>1
      <4>5. loop.target <= loop.start + Duration
        <5> DEFINE far == loop.start + Duration  g == loop.target
        <5>1. g <= Endpoint /\ Endpoint <= far /\ Endpoint \in Int /\ far \in Nat
              /\ g \in Nat
          BY <4>1, <4>2, <4>3
        <5> HIDE DEF far, g
        <5>2. g <= far
          BY <5>1
        <5> QED
          BY <5>2 DEF far, g
      <4> QED
        BY <4>4, <4>5
    <3> QED
      BY <2>1, <2>2, <3>1, <3>2 DEF WindowOK, Located, Origin
  <2>4. CASE pc' = "drive"
    BY <2>1, <2>2, <2>4 DEF WindowOK, Located, Origin
  <2> QED
    BY <1>8, <2>3, <2>4 DEF ProjectAction, Rejects, Fail
<1>9. CASE Drive
  <2>1. pc = "drive" /\ UNCHANGED <<plant, loop>>
    BY <1>9 DEF Drive
  <2>2. Located
    BY <2>1 DEF WindowOK
  <2>3. CASE Endpoint > loop.time /\ StartAdvance(loop.action, Endpoint, "endpoint")
    <3>1. Endpoint \in Nat /\ loop.cycle <= Endpoint
          /\ Endpoint <= loop.start + Duration
      <4>1. /\ Endpoint \in Int /\ Endpoint > loop.time
            /\ loop.cycle <= loop.time /\ loop.time \in Nat /\ loop.cycle \in Nat
        BY <2>2, <2>3, EndpointIs, Numbers DEF Located
      <4>2. Endpoint \in Nat /\ loop.cycle <= Endpoint
        BY <4>1
      <4> QED
        BY <2>2, <4>2, EndpointIs
    <3>2. pc' = "advance" /\ adv'.end = Endpoint
      BY <2>3, <3>1, SegmentIs
    <3> QED
      BY <2>1, <2>2, <3>1, <3>2 DEF WindowOK, Located, Origin
  <2>4. CASE pc' = "endpoint"
    BY <2>1, <2>2, <2>4 DEF WindowOK, Located, Origin
  <2> QED
    BY <1>9, <2>3, <2>4 DEF Drive
<1>10. CASE CloseWindow /\ pc' = "settle"
  <2>1. Clock(plant) = Endpoint /\ pc = "endpoint" /\ plant' = plant
    BY <1>10 DEF CloseWindow, Rejects, Fail
  <2>2. /\ loop'.time = loop.time /\ loop'.start = loop.start
        /\ loop'.index = loop.index /\ loop'.cycle = loop.cycle
    BY <1>10 DEF CloseWindow, Rejects, Fail, TypeInv, TypeOK, Loop
  <2>3. Located
    BY <2>1 DEF WindowOK
  <2>4. Located' /\ Endpoint' = Endpoint
    BY <2>1, <2>2, <2>3 DEF Located, Origin, Endpoint, WindowAt
  <2> QED
    BY <1>10, <2>1, <2>4 DEF WindowOK
<1>11. CASE pc' = "publish"
  BY <1>1, <1>11
<1>12. CASE RequestCancel \/ UNCHANGED vars
  BY <1>2, <1>12 DEF RequestCancel, vars
<1>13. CASE \/ Negotiate \/ LoadRejected \/ RestorePlant \/ RestoreController
            \/ ResumeSamples \/ ResumeLocals \/ ResumeStart
            \/ ResetAdapters \/ InitialObservation \/ InitialChecks
            \/ AdapterRaises \/ Settle \/ PeriodicCheckpoint
            \/ PeriodicStepFile \/ NextWindow \/ Qualify \/ Grade
            \/ LastCheckpoint \/ LastStepFile \/ WriteManifest \/ Finalize
            \/ BeginFresh \/ BeginResume \/ Crash \/ PollCancel
            \/ BoundaryStop \/ AsyncStop
  BY <1>1, <1>13
  DEF Negotiate, LoadRejected, RestorePlant, RestoreController, ResumeSamples,
      ResumeLocals, ResumeStart, ResetAdapters, InitialObservation,
      InitialChecks, Rejects, AdapterRaises, Settle, PeriodicCheckpoint,
      PeriodicStepFile, NextWindow, Qualify, Grade, LastCheckpoint,
      LastStepFile, CheckpointLost, WriteManifest, Finalize, BeginFresh,
      BeginResume, Begin, Crash, PollCancel, BoundaryStop, AsyncStop, Stop,
      Escape, Fail
<1>14. OpenWindow => WindowFits \/ pc' = "publish"
  BY DEF OpenWindow, Fail
<1>15. AdvanceReturns => Clock(plant) = adv.end \/ pc' = "publish"
  BY DEF AdvanceReturns, Fail
<1>16. Observe => pc' \in {"control", "publish"}
  BY DEF Observe, Rejects, Fail
<1>17. Control => pc' \in {"act", "publish"}
  BY DEF Control, Fail
<1>18. CloseWindow => pc' \in {"settle", "publish"}
  BY DEF CloseWindow, Rejects, Fail
<1> QED
  BY ONLY [Next]_vars, <1>3, <1>4, <1>5, <1>6, <1>7, <1>8, <1>9, <1>10, <1>11,
     <1>12, <1>13, <1>14, <1>15, <1>16, <1>17, <1>18
  DEF Next, Step

LEMMA CourseInvStep == StartsAtZero /\ CourseInv /\ [Next]_vars => CourseInv'
<1> SUFFICES ASSUME StartsAtZero, CourseInv, [Next]_vars PROVE CourseInv'
  OBVIOUS
<1>1. PackageInv'
  BY PackageStep DEF CourseInv
<1> QED
  BY <1>1, StartStep, CourseStep, WindowStep, SavesStep, DoneStep DEF CourseInv

\* A run that completed is at the deadline that the first run of its chain set,
\* wherever the runs before it were stopped, interrupts inside a window and
\* between two assignments of the locals included.  Where the clock of the
\* requested initial state is not zero, interrupts have to be excluded: one
\* between runtime.py:782 and runtime.py:827 saves a start that is not its own.
THEOREM DeadlineIsKept ==
  ASSUME StartsAtZero PROVE Spec => []CompletedRunReachesDeadline
<1>1. CourseInv => CompletedRunReachesDeadline
  <2> SUFFICES ASSUME CourseInv, machine \in Finished
               PROVE  Clock(plant) = loop.start + Duration
                      /\ Len(plant.trace) = Duration
    BY DEF CompletedRunReachesDeadline, Finished
  <2>1. loop.start = Origin(plant) /\ Len(plant.trace) = Duration
    BY DEF CourseInv, DoneOK
  <2>2. Clock(plant) = Origin(plant) + Len(plant.trace)
    BY Numbers DEF CourseInv, PackageInv
  <2> QED
    BY <2>1, <2>2
<1>2. CourseInv /\ [Next]_vars => CourseInv'
  BY CourseInvStep
<1> QED
  BY <1>1, <1>2, CourseInit, PTL DEF Spec

(***************************************************************************)
(* A resumed run is the uninterrupted run, as long as runs are stopped at  *)
(* the boundaries of their windows (section 7 of the README has what an    *)
(* interrupt inside one does).  The argument goes tick by tick: what is    *)
(* pending of a segment is what the baseline drives in those ticks, and at *)
(* a boundary plant, controller, time and last action are functions of the *)
(* number of closed windows, the same whichever run closed them.           *)
(***************************************************************************)
StopsAtBoundaries == AsyncStops = {}

BaselineAt(t) ==
  ((t - 1) \div Period) + (IF (t - 1) % Period < Offset + Delay THEN 0 ELSE 1)
RowAt(k) ==
  [index |-> k - 1, time |-> StartTime + (k - 1) * Period + Offset + Delay,
   action |-> k]
OnBaseline(p) ==
  p.origin = "initial" /\ \A t \in 1 .. Len(p.trace) : p.trace[t] = BaselineAt(t)
RowsOK(samples) == \A k \in 1 .. Len(samples) : samples[k] = RowAt(k)

\* A plant, a controller, a last action and a time after n closed windows.
Boundary(p, c, last, time, start, n) ==
  /\ OnBaseline(p) /\ Len(p.trace) = Reach(n)
  /\ c = n /\ last = n /\ start = StartTime /\ time = StartTime + Reach(n)
AtBoundary(n) ==
  Boundary(plant, ctl, loop.lastAction, loop.time, loop.start, n) /\ loop.cstate = n

Opened ==
  /\ OnBaseline(plant) /\ loop.start = StartTime
  /\ loop.cycle = StartTime + Reach(loop.index)
Sampled == loop.time = loop.cycle + Offset
Held == loop.time = loop.cycle + Offset + Delay
Answered == ctl = loop.index + 1 /\ loop.action = ctl /\ loop.cstate = ctl

PendingOK ==
  /\ Clock(plant) + adv.left = adv.end
  /\ \A t \in Len(plant.trace) + 1 .. Len(plant.trace) + adv.left :
       BaselineAt(t) = adv.action
  /\ adv.then = "sample" => ctl = loop.index /\ adv.end = loop.cycle + Offset
  /\ adv.then = "drive" =>
       Answered /\ adv.end = loop.cycle + Offset + Delay /\ adv.end <= Endpoint
  /\ adv.then = "endpoint" => Answered /\ Held /\ adv.end = Endpoint

PathOK ==
  /\ pc = "top" => AtBoundary(loop.index)
  /\ pc \in Closing \ {"settle"} => AtBoundary(loop.index + 1)
  /\ pc \in LastWrites => AtBoundary(Len(loop.samples))
  /\ pc \in InWindow \cup {"settle"} => Opened
  /\ pc \in InWindow => loop.lastAction = loop.index
  /\ pc = "advance" => PendingOK
  /\ pc \in {"sample", "control"} => Sampled /\ ctl = loop.index
  /\ pc = "act" => /\ Sampled /\ Answered
                   /\ loop.target = loop.time + Delay /\ loop.target <= Endpoint
  /\ pc = "drive" => Held /\ Answered /\ loop.time <= Endpoint
  /\ pc \in {"sample", "control", "act", "drive"} => Clock(plant) = loop.time
  /\ pc = "endpoint" => Held /\ Answered /\ Clock(plant) = Endpoint
  /\ pc = "settle" => Answered /\ Clock(plant) = Endpoint

FreshOK ==
  /\ pc \in Starting => loop.lastAction = 0
  /\ pc \in {"initial", "initial_checks"} =>
       ctl = 0 /\ loop.cstate = 0 /\ plant.origin = "initial"
  /\ pc \in {"resume", "resume_locals", "resume_start"} =>
       \A c \in Loadable : c.controller = ctl /\ loop.cstate = ctl
  /\ pc = "resume_start" =>
       \A c \in Loadable : loop.lastAction = c.lastAction /\ loop.index = c.next

OnPath(c) ==
  /\ Boundary(c.plant, c.controller, c.lastAction, c.time, c.start, c.next)
  /\ RowsOK(c.samples)
SavedPathOK ==
  /\ \A c \in files \cup latest : OnPath(c)
  /\ \A r \in Runs : \A c \in store[r].files \cup store[r].latest : OnPath(c)
SamplesOK ==
  RowsOK(loop.samples) /\ \A r \in Runs : RowsOK(store[r].samples)
FinishedOK == machine \in Finished =>
                OnBaseline(plant) /\ Len(loop.samples) = Steps

BaselineInv ==
  CourseInv /\ FreshOK /\ PathOK /\ SavedPathOK /\ SamplesOK /\ FinishedOK

\* What the baseline drives within the n-th window.
LEMMA WindowTicks ==
  ASSUME NEW n \in Nat, n < Steps, NEW t \in Nat,
         Reach(n) < t, t <= Reach(n) + Period
  PROVE  BaselineAt(t) =
           n + (IF t - 1 - Reach(n) < Offset + Delay THEN 0 ELSE 1)
<1> DEFINE reach == Reach(n)  j == t - 1 - reach
<1>1. reach = n * Period /\ reach \in Nat /\ Period \in Nat /\ Period > 0
  BY ReachFacts, TimebaseAssumption
<1>2. reach < t /\ t <= reach + Period
  OBVIOUS
<1> HIDE DEF reach
<1>3. j \in 0 .. Period - 1 /\ t - 1 = reach + j /\ t - 1 \in Nat
  BY <1>1, <1>2
<1> HIDE DEF j
<1>4. ASSUME NEW a \in Nat, NEW b \in Nat, b > 0, NEW k \in Nat,
             NEW i \in 0 .. b - 1, a = k * b + i
      PROVE  a \div b = k /\ a % b = i
  BY <1>4, SMTT(30)
<1>5. (t - 1) \div Period = n /\ (t - 1) % Period = j
  <2>1. t - 1 = n * Period + j
    BY <1>1, <1>3
  <2> QED
    BY <1>1, <1>3, <1>4, <2>1
<1> QED
  BY <1>5 DEF BaselineAt, j, reach

\* What is appended to the trace is what the baseline drives.
LEMMA SegmentOnBaseline ==
  ASSUME TypeInv, OnBaseline(plant), AdvancePlant,
         \A t \in Len(plant.trace) + 1 .. Len(plant.trace) + adv.left :
           BaselineAt(t) = adv.action
  PROVE  /\ OnBaseline(plant')
         /\ \A t \in Len(plant'.trace) + 1 .. Len(plant'.trace) + adv'.left :
              BaselineAt(t) = adv'.action
<1> DEFINE segment == Least(PlantStep, adv.left)
           added == [i \in 1..segment |-> adv.action]
           before == plant.trace
<1>1. adv.left > 0 /\ adv.left \in Nat /\ PlantStep \in Nat \ {0}
  BY Numbers DEF AdvancePlant
<1>2. segment \in Nat \ {0} /\ segment <= adv.left
  BY <1>1 DEF Least
<1>3. /\ plant' = [plant EXCEPT !.trace = before \o added]
      /\ adv' = [adv EXCEPT !.left = adv.left - segment]
  BY DEF AdvancePlant, TypeInv, TypeOK, Plant
<1>4. adv.action \in Nat /\ before \in Seq(Nat)
  BY DEF TypeInv, TypeOK, Advance, Plant
<1>5. /\ plant'.origin = plant.origin /\ plant'.trace = before \o added
      /\ adv'.left = adv.left - segment /\ adv'.action = adv.action
  BY <1>3 DEF TypeInv, TypeOK, Plant, Advance
<1>6. /\ \A t \in 1 .. Len(before) : before[t] = BaselineAt(t)
      /\ \A t \in Len(before) + 1 .. Len(before) + adv.left :
           BaselineAt(t) = adv.action
  BY DEF OnBaseline
<1> HIDE DEF segment, before
<1>7. /\ added \in Seq(Nat) /\ Len(added) = segment
      /\ \A i \in 1 .. segment : added[i] = adv.action
  BY <1>2, <1>4
<1> HIDE DEF added
<1>8. /\ Len(before \o added) = Len(before) + segment /\ Len(before) \in Nat
      /\ \A t \in 1 .. Len(before) + segment :
           (before \o added)[t] =
             IF t <= Len(before) THEN before[t] ELSE added[t - Len(before)]
  <2>1. before \in Seq(Nat) /\ added \in Seq(Nat)
    BY <1>4, <1>7 DEF before
  <2>2. /\ Len(before \o added) = Len(before) + Len(added)
        /\ \A t \in 1 .. Len(before) + Len(added) :
             (before \o added)[t] =
               IF t <= Len(before) THEN before[t] ELSE added[t - Len(before)]
    BY <2>1, ConcatProperties
  <2>3. Len(before) \in Nat
    BY <2>1
  <2>4. Len(added) = segment
    BY <1>7
  <2> QED
    BY <2>2, <2>3, <2>4
<1>9. ASSUME NEW t \in 1 .. Len(before) + segment
      PROVE  (before \o added)[t] = BaselineAt(t)
  <2>1. CASE t <= Len(before)
    BY <1>6, <1>8, <2>1
  <2>2. CASE ~(t <= Len(before))
    <3>1. /\ t \in Len(before) + 1 .. Len(before) + adv.left
          /\ t - Len(before) \in 1 .. segment
      BY <1>1, <1>2, <1>8, <2>2
    <3>2. added[t - Len(before)] = adv.action /\ BaselineAt(t) = adv.action
      BY <1>6, <1>7, <3>1
    <3> QED
      BY <1>8, <2>2, <3>2
  <2> QED
    BY <2>1, <2>2
<1>10. OnBaseline(plant')
  <2>1. Len(plant'.trace) = Len(before) + segment
    BY <1>5, <1>8
  <2>2. \A t \in 1 .. Len(plant'.trace) : plant'.trace[t] = BaselineAt(t)
    BY <1>5, <1>9, <2>1
  <2> QED
    BY <1>5, <2>2 DEF OnBaseline
<1>11. \A t \in Len(plant'.trace) + 1 .. Len(plant'.trace) + adv'.left :
         BaselineAt(t) = adv'.action
  <2> SUFFICES ASSUME NEW t \in Len(plant'.trace) + 1
                                 .. Len(plant'.trace) + adv'.left
               PROVE  BaselineAt(t) = adv'.action
    OBVIOUS
  <2>1. t \in Len(before) + segment + 1
               .. Len(before) + segment + (adv.left - segment)
    BY <1>5, <1>8
  <2>2. t \in Len(before) + 1 .. Len(before) + adv.left
    BY <1>1, <1>2, <1>8, <2>1
  <2> QED
    BY <1>5, <1>6, <2>2
<1> QED
  BY <1>10, <1>11

\* In an opened window the end is where the next one will begin.
LEMMA WindowEnd ==
  ASSUME TypeInv, Opened
  PROVE  /\ Endpoint = StartTime + Reach(loop.index + 1) /\ Endpoint \in Nat
         /\ Endpoint <= loop.cycle + Period
<1> DEFINE reach == Reach(loop.index)  next == Reach(loop.index + 1)
<1>1. /\ Endpoint = loop.cycle + Least(Period, loop.start + Duration - loop.cycle)
      /\ loop.start = StartTime /\ loop.cycle = StartTime + reach
  BY DEF Endpoint, WindowAt, Opened
<1>2. /\ reach \in Nat /\ next \in Nat /\ reach <= Duration
      /\ next = Least(reach + Period, Duration)
  <2>1. loop.index \in Nat /\ loop.index + 1 \in Nat
    BY DEF TypeInv, TypeOK, Loop
  <2> QED
    BY <2>1, ReachFacts
<1> HIDE DEF reach, next
<1>3. /\ Endpoint =
           StartTime + reach
             + (IF Period <= StartTime + Duration - (StartTime + reach)
                THEN Period ELSE StartTime + Duration - (StartTime + reach))
      /\ next = (IF reach + Period <= Duration THEN reach + Period ELSE Duration)
  BY <1>1, <1>2 DEF Least
<1>4. StartTime \in Nat /\ Period \in Nat /\ Duration \in Nat
  BY TimebaseAssumption
<1>5. Endpoint = StartTime + next /\ Endpoint <= StartTime + reach + Period
  BY <1>2, <1>3, <1>4
<1> QED
  BY <1>1, <1>2, <1>4, <1>5 DEF next
LEMMA BaselineInit == Init => BaselineInv
<1> SUFFICES ASSUME Init PROVE BaselineInv
  OBVIOUS
<1>1. pc = "idle" /\ machine = "CREATED" /\ files = {} /\ latest = {}
  BY DEF Init
<1>2. \A r \in Runs : /\ store[r].files = {} /\ store[r].latest = {}
                     /\ Len(store[r].samples) = 0
  BY DEF Init, EmptyDir
<1>3. Len(loop.samples) = 0
  BY DEF Init, FreshLoop
<1>4. FreshOK /\ PathOK /\ FinishedOK
  BY <1>1 DEF FreshOK, PathOK, FinishedOK, Starting, InWindow, Closing,
              LastWrites, Finished
<1>5. SavedPathOK /\ SamplesOK
  BY <1>1, <1>2, <1>3 DEF SavedPathOK, SamplesOK, RowsOK
<1> QED
  BY <1>4, <1>5, CourseInit DEF BaselineInv

\* The document a call resumes from is on the path.
LEMMA LoadableOnPath ==
  ASSUME BaselineInv, pc \in Loading PROVE \A c \in Loadable : OnPath(c)
<1>1. loop.source \in Runs
  BY DEF BaselineInv, CourseInv, PackageInv, TypeInv, SourceOK
<1>2. \A c \in Loadable : c \in Source.files \cup Source.latest
  BY DEF Loadable, Named
<1> QED
  BY <1>1, <1>2 DEF BaselineInv, SavedPathOK, Source

\* What a call holds until its first window.
LEMMA FreshStep ==
  ASSUME BaselineInv, [Next]_vars PROVE FreshOK'
<1> USE DEF BaselineInv, CourseInv, PackageInv
<1> DEFINE Early == Starting \cup Loading
<1>1. CASE UNCHANGED <<pc, plant, ctl, loop, store>>
  BY <1>1 DEF FreshOK, Loadable, Named, Source
<1>2. CASE pc' \notin Early
  BY <1>2 DEF FreshOK, Starting, Loading
<1>3. CASE BeginFresh \/ BeginResume
  BY <1>3 DEF BeginFresh, BeginResume, Begin, FreshLoop, FreshOK, Starting
<1>4. CASE Negotiate
  BY <1>4 DEF Negotiate, Fail, FreshOK, Starting
<1>5. CASE RestorePlant
  BY <1>5 DEF RestorePlant, FreshOK, Starting
<1>6. CASE RestoreController
  <2>1. PICK c \in Loadable : /\ ctl' = c.controller
                            /\ loop' = [loop EXCEPT !.cstate = c.controller]
    BY <1>6 DEF RestoreController
  <2>2. loop'.lastAction = loop.lastAction /\ loop'.cstate = c.controller
    BY <2>1 DEF TypeInv, TypeOK, Loop
  <2>3. pc \in Loading /\ pc = "restore" /\ pc' = "resume"
    BY <1>6 DEF RestoreController, Loading
  <2>4. \A d \in Loadable' : d = c
    BY <1>6, <2>1, <2>3, ResumeIs
  <2>5. loop.lastAction = 0
    BY <2>3 DEF FreshOK, Starting
  <2> QED
    BY <2>1, <2>2, <2>3, <2>4, <2>5 DEF FreshOK
<1>7. CASE ResumeSamples \/ ResumeLocals
  <2>1. PICK c \in Loadable : Loadable = {c} /\ Loadable' = {c}
    BY <1>7, ResumeIs
  <2>2. /\ ctl' = ctl /\ pc \in {"resume", "resume_locals"}
        /\ pc' \in {"resume_locals", "resume_start"}
    BY <1>7 DEF ResumeSamples, ResumeLocals
  <2>3. loop'.cstate = loop.cstate
    BY <1>7 DEF ResumeSamples, ResumeLocals, TypeInv, TypeOK, Loop
  <2>4. c.controller = ctl /\ loop.cstate = ctl
    BY <2>2 DEF FreshOK
  <2>5. pc' = "resume_start" =>
          loop'.lastAction = c.lastAction /\ loop'.index = c.next
    BY <1>7, <2>1 DEF ResumeSamples, ResumeLocals, TypeInv, TypeOK, Loop
  <2> QED
    BY <2>1, <2>2, <2>3, <2>4, <2>5 DEF FreshOK, Starting
<1>8. CASE ResetAdapters
  <2>1. loop'.lastAction = loop.lastAction /\ loop'.cstate = 0
    BY <1>8 DEF ResetAdapters, TypeInv, TypeOK, Loop
  <2>2. plant'.origin = "initial" /\ ctl' = 0 /\ pc' = "initial"
    BY <1>8 DEF ResetAdapters
  <2>3. loop.lastAction = 0
    BY <1>8 DEF ResetAdapters, FreshOK, Starting
  <2> QED
    BY <2>1, <2>2, <2>3 DEF FreshOK
<1>9. CASE InitialObservation
  <2>1. loop'.lastAction = loop.lastAction /\ loop'.cstate = loop.cstate
    BY <1>9 DEF InitialObservation, TypeInv, TypeOK, Loop
  <2>2. /\ UNCHANGED <<plant, ctl>> /\ pc = "initial"
        /\ pc' = "initial_checks"
    BY <1>9 DEF InitialObservation
  <2> QED
    BY <2>1, <2>2 DEF FreshOK, Starting
<1>10. adv.then \notin Early
  BY DEF TypeInv, TypeOK, Advance, Starting, Loading
<1>11. CASE \/ ResumeStart \/ InitialChecks \/ LoadRejected \/ AdapterRaises
            \/ Finalize \/ PollCancel \/ OpenWindow \/ AdvanceReturns
            \/ Observe \/ Control \/ ProjectAction \/ Drive \/ CloseWindow
            \/ Settle \/ PeriodicCheckpoint \/ PeriodicStepFile \/ NextWindow
            \/ Qualify \/ Grade \/ LastCheckpoint \/ LastStepFile
            \/ WriteManifest \/ BoundaryStop \/ AsyncStop \/ Crash
  BY <1>2, <1>10, <1>11
  DEF ResumeStart, InitialChecks, LoadRejected, AdapterRaises, Finalize,
      PollCancel, OpenWindow, StartAdvance, AdvanceReturns, Observe, Control,
      ProjectAction, Drive, CloseWindow, Settle, PeriodicCheckpoint,
      PeriodicStepFile, NextWindow, Qualify, Grade, LastCheckpoint,
      LastStepFile, CheckpointLost, WriteManifest, BoundaryStop, AsyncStop,
      Crash, Rejects, Stop, Escape, Fail, Starting, Loading
<1>12. CASE AdvancePlant
  BY <1>2, <1>12 DEF AdvancePlant, Starting, Loading
<1>13. CASE RequestCancel \/ UNCHANGED vars
  BY <1>1, <1>13 DEF RequestCancel, vars
<1> QED
  BY ONLY [Next]_vars, <1>3, <1>4, <1>5, <1>6, <1>7, <1>8, <1>9, <1>11, <1>12,
     <1>13
  DEF Next, Step

\* A checkpoint saves the boundary it is written at.
LEMMA WriteOnPath ==
  ASSUME NEW n, WriteCheckpoint(n), \A c \in files : OnPath(c),
         AtBoundary(n), RowsOK(loop.samples)
  PROVE  \A c \in files \cup latest' : OnPath(c)
<1> DEFINE new == CheckpointOf(n)
<1>1. /\ new.next = n /\ new.plant = plant /\ new.time = loop.time
      /\ new.start = loop.start /\ new.lastAction = loop.lastAction
      /\ new.samples = loop.samples
      /\ new.controller = ctl \/ new.controller = loop.cstate
  BY DEF CheckpointOf
<1>2. latest' = {new}
  BY DEF WriteCheckpoint
<1> HIDE DEF new
<1>3. loop.cstate = n /\ ctl = n
      /\ Boundary(plant, ctl, loop.lastAction, loop.time, loop.start, n)
  BY DEF AtBoundary, Boundary
<1>4. OnPath(new)
  BY <1>1, <1>3 DEF OnPath
<1> QED
  BY <1>2, <1>4

LEMMA SavedPathStep ==
  ASSUME BaselineInv, [Next]_vars PROVE SavedPathOK'
<1> USE DEF BaselineInv, CourseInv, PackageInv
<1>1. CASE UNCHANGED <<files, latest, store>>
  BY <1>1 DEF SavedPathOK
<1>2. CASE files' = {} /\ latest' = {} /\ UNCHANGED store
  BY <1>2 DEF SavedPathOK
<1>3. CASE /\ UNCHANGED <<files, latest>>
           /\ \A r \in Runs :
                \/ store'[r] = store[r]
                \/ store'[r].files = files /\ store'[r].latest = latest
  BY <1>3 DEF SavedPathOK
<1>4. ASSUME NEW n, WriteCheckpoint(n), UNCHANGED <<files, store>>, AtBoundary(n)
      PROVE  SavedPathOK'
  <2>1. \A c \in files \cup latest' : OnPath(c)
    BY <1>4, WriteOnPath DEF SavedPathOK, SamplesOK
  <2> QED
    BY <1>4, <2>1 DEF SavedPathOK
<1>5. CASE Escape \/ Finalize
  <2>1. PICK entry : /\ entry.files = files /\ entry.latest = latest
                     /\ store' = [store EXCEPT ![run] = entry]
    BY <1>5 DEF Escape, Finalize
  <2>2. \A r \in Runs : \/ store'[r] = store[r]
                        \/ store'[r].files = files /\ store'[r].latest = latest
    BY <2>1 DEF TypeInv, TypeOK
  <2> QED
    BY <1>3, <1>5, <2>2 DEF Escape, Finalize
<1>6. CASE PeriodicCheckpoint
  <2>1. pc = "checkpoint" /\ UNCHANGED <<files, store>>
    BY <1>6 DEF PeriodicCheckpoint
  <2>2. AtBoundary(loop.index + 1)
    BY <2>1 DEF PathOK, Closing
  <2> QED
    BY <1>1, <1>4, <1>6, <2>1, <2>2 DEF PeriodicCheckpoint
<1>7. CASE LastCheckpoint
  <2>1. AtBoundary(Len(loop.samples)) /\ UNCHANGED <<files, store>>
    BY <1>7 DEF LastCheckpoint, PathOK, LastWrites
  <2> QED
    BY <1>1, <1>4, <1>7, <2>1 DEF LastCheckpoint
<1>8. CASE PeriodicStepFile \/ LastStepFile
  <2>1. files' \subseteq files \cup latest /\ UNCHANGED <<latest, store>>
    BY <1>8 DEF PeriodicStepFile, LastStepFile, WriteStepFile
  <2> QED
    BY <2>1 DEF SavedPathOK
<1> QED
  BY <1>1, <1>2, <1>5, <1>6, <1>7, <1>8
  DEF Next, Step, vars, Negotiate, LoadRejected, RestorePlant,
      RestoreController, ResumeSamples, ResumeLocals, ResumeStart,
      ResetAdapters, InitialObservation, InitialChecks, PollCancel, OpenWindow,
      AdvancePlant, AdvanceReturns, AdapterRaises, Observe, Control,
      ProjectAction, Drive, CloseWindow, Settle, NextWindow, Qualify, Grade,
      WriteManifest, BeginFresh, BeginResume, Begin, RequestCancel,
      BoundaryStop, AsyncStop, Stop, Crash

\* A run is finished at the boundary of its last window.
LEMMA FinishedStep ==
  ASSUME BaselineInv, [Next]_vars PROVE FinishedOK'
<1> USE DEF BaselineInv, CourseInv, PackageInv
<1>1. CASE UNCHANGED <<plant, loop>> /\ machine \in Finished
  BY <1>1 DEF FinishedOK
<1>2. CASE machine' \notin Finished
  BY <1>2 DEF FinishedOK
<1>3. CASE Qualify
  <2>1. pc = "top" /\ loop.index >= Steps /\ UNCHANGED <<plant, loop>>
    BY <1>3 DEF Qualify
  <2>2. Len(loop.samples) = loop.index /\ loop.index <= Steps
    BY <2>1 DEF CountOK
  <2>3. Len(loop.samples) = Steps
    BY <2>1, <2>2, StepsType, Numbers
  <2> QED
    BY <2>1, <2>3 DEF PathOK, AtBoundary, Boundary, FinishedOK
<1>4. CASE pc \in TryBlock \ {"graded"} /\ ~Qualify
  <2>1. machine = "RUNNING"
    BY <1>4 DEF StatusOK
  <2>2. machine' \in {"RUNNING", "RUN_FAILED", "INCOMPLETE"}
    BY <1>4, <2>1
    DEF Next, Step, vars, Negotiate, LoadRejected, RestorePlant,
      RestoreController, ResumeSamples, ResumeLocals, ResumeStart,
      ResetAdapters, InitialObservation, InitialChecks, PeriodicStepFile,
      LastStepFile, CheckpointLost, Rejects, PollCancel, OpenWindow,
      AdvancePlant, AdvanceReturns, AdapterRaises, Observe, Control,
      ProjectAction, Drive, CloseWindow, Settle, PeriodicCheckpoint, NextWindow,
      Grade, LastCheckpoint, WriteManifest, Finalize, BeginFresh, BeginResume,
      Begin, RequestCancel, BoundaryStop, AsyncStop, Stop, Escape, Crash, Fail,
      TryBlock
  <2> QED
    BY <1>2, <2>2 DEF Finished
<1>5. CASE pc \notin TryBlock \ {"graded"}
  <2>1. UNCHANGED <<plant, loop>> \/ machine' = "RUNNING"
    BY <1>5
    DEF Next, Step, vars, Negotiate, LoadRejected, RestorePlant,
      RestoreController, ResumeSamples, ResumeLocals, ResumeStart,
      ResetAdapters, InitialObservation, InitialChecks, PeriodicStepFile,
      LastStepFile, CheckpointLost, PollCancel, OpenWindow,
      AdvancePlant, AdvanceReturns, AdapterRaises, Observe, Control,
      ProjectAction, Drive, CloseWindow, Settle, PeriodicCheckpoint, NextWindow,
      Qualify, Grade, LastCheckpoint, WriteManifest, Finalize, BeginFresh,
      BeginResume, Begin, RequestCancel, BoundaryStop, AsyncStop, Stop, Escape,
      Crash, TryBlock, AdapterCalls
  <2>2. pc = "graded" => machine \in Finished
    BY DEF StatusOK, Finished
  <2>3. machine' \in Finished => machine \in Finished
    BY <1>5, <2>2
    DEF Next, Step, vars, Negotiate, LoadRejected, RestorePlant,
      RestoreController, ResumeSamples, ResumeLocals, ResumeStart,
      ResetAdapters, InitialObservation, InitialChecks, PeriodicStepFile,
      LastStepFile, CheckpointLost, PollCancel, OpenWindow,
      AdvancePlant, AdvanceReturns, AdapterRaises, Observe, Control,
      ProjectAction, Drive, CloseWindow, Settle, PeriodicCheckpoint, NextWindow,
      Qualify, Grade, LastCheckpoint, WriteManifest, Finalize, BeginFresh,
      BeginResume, Begin, RequestCancel, BoundaryStop, AsyncStop, Stop, Escape,
      Crash, Fail, Rejects, Finished, TryBlock, AdapterCalls
  <2> QED
    BY <1>1, <1>2, <2>1, <2>3 DEF Finished
<1> QED
  BY <1>3, <1>4, <1>5
\* The row of the window in hand is the baseline's.
LEMMA RowIs ==
  ASSUME TypeInv, Opened, Held, Answered, loop.index < Steps
  PROVE  [index |-> loop.index, time |-> loop.time, action |-> loop.action]
           = RowAt(loop.index + 1)
<1> DEFINE n == loop.index  time == loop.time
<1>1. n \in Nat /\ time \in Nat
  BY Numbers
<1>2. Reach(n) = n * Period /\ n * Period \in Nat
  BY <1>1, ReachFacts, TimebaseAssumption
<1>3. time = loop.cycle + Offset + Delay /\ loop.cycle = StartTime + Reach(n)
  BY DEF Held, Opened
<1>4. loop.action = n + 1
  BY DEF Answered
<1> DEFINE product == n * Period
<1> HIDE DEF n, time
<1>5. (n + 1) - 1 = n
  BY <1>1
<1>6. time = StartTime + ((n + 1) - 1) * Period + Offset + Delay
  BY <1>2, <1>3, <1>5
<1> QED
  BY <1>4, <1>5, <1>6 DEF RowAt, n, time

LEMMA SamplesStep ==
  ASSUME BaselineInv, [Next]_vars PROVE SamplesOK'
<1> USE DEF BaselineInv, CourseInv, PackageInv
<1>1. CASE loop'.samples = loop.samples /\ UNCHANGED store
  BY <1>1 DEF SamplesOK, RowsOK
<1>2. CASE BeginFresh \/ BeginResume
  <2>1. loop'.samples = <<>> /\ UNCHANGED store
    BY <1>2 DEF BeginFresh, BeginResume, Begin, FreshLoop
  <2>2. RowsOK(loop'.samples)
    BY <2>1 DEF RowsOK
  <2> QED
    BY <2>1, <2>2 DEF SamplesOK
<1>3. CASE ResumeSamples
  <2>1. PICK c \in Loadable : loop' = [loop EXCEPT !.samples = c.samples]
    BY <1>3 DEF ResumeSamples
  <2>2. loop'.samples = c.samples /\ UNCHANGED store
    BY <1>3, <2>1 DEF ResumeSamples, TypeInv, TypeOK, Loop
  <2>3. OnPath(c)
    BY <1>3, LoadableOnPath DEF ResumeSamples, Loading
  <2> QED
    BY <2>2, <2>3 DEF OnPath, SamplesOK
<1>4. CASE CloseWindow /\ pc' = "settle"
  <2> DEFINE row == [index |-> loop.index, time |-> loop.time,
                     action |-> loop.action]
             samples == loop.samples
  <2>1. loop' = [loop EXCEPT !.samples = Append(@, row)] /\ UNCHANGED store
    BY <1>4 DEF CloseWindow, Rejects, Fail
  <2>2. loop'.samples = Append(samples, row)
    BY <2>1 DEF TypeInv, TypeOK, Loop
  <2>3. row \in Row /\ samples \in Seq(Row)
    BY DEF Row, TypeInv, TypeOK, Loop
  <2>4. pc = "endpoint"
    BY <1>4 DEF CloseWindow
  <2>5. Opened /\ Held /\ Answered /\ loop.index < Steps /\ Len(samples) = loop.index
    BY <2>4 DEF PathOK, CountOK, InWindow, Closing, LastWrites
  <2>6. row = RowAt(Len(samples) + 1)
    BY <2>5, RowIs
  <2>7. \A k \in 1 .. Len(samples) : samples[k] = RowAt(k)
    BY DEF SamplesOK, RowsOK
  <2> HIDE DEF row, samples
  <2>8. /\ Len(Append(samples, row)) = Len(samples) + 1
        /\ \A k \in 1 .. Len(samples) : Append(samples, row)[k] = samples[k]
        /\ Append(samples, row)[Len(samples) + 1] = row
    BY <2>3, AppendProperties
  <2>9. Len(samples) \in Nat
    BY <2>3
  <2>10. ASSUME NEW k \in 1 .. Len(samples) + 1
         PROVE  Append(samples, row)[k] = RowAt(k)
    <3>1. k \in 1 .. Len(samples) \/ k = Len(samples) + 1
      BY <2>9
    <3> QED
      BY <2>6, <2>7, <2>8, <3>1
  <2>11. RowsOK(loop'.samples)
    BY <2>2, <2>8, <2>10 DEF RowsOK
  <2> QED
    BY <2>1, <2>11 DEF SamplesOK
<1>5. CASE Escape
  <2> DEFINE entry ==
        [dir |-> "tmp", samples |-> <<>>, passed |-> FALSE,
         manifest |-> IF pc = "finalize" THEN machine ELSE "none",
         failure |-> NoFailure, files |-> files, latest |-> latest,
         spec |-> loop.spec]
  <2>1. entry.samples = <<>> /\ store' = [store EXCEPT ![run] = entry]
    BY <1>5 DEF Escape
  <2> HIDE DEF entry
  <2>2. \A r \in Runs : store'[r] = store[r] \/ store'[r].samples = <<>>
    BY <2>1 DEF TypeInv, TypeOK
  <2>3. RowsOK(<<>>)
    BY DEF RowsOK
  <2> QED
    BY <1>5, <2>2, <2>3 DEF Escape, SamplesOK
<1>6. CASE Finalize
  <2>1. PICK entry : /\ entry.samples = loop.samples
                     /\ store' = [store EXCEPT ![run] = entry]
    BY <1>6 DEF Finalize
  <2>2. \A r \in Runs : store'[r] = store[r] \/ store'[r].samples = loop.samples
    BY <2>1 DEF TypeInv, TypeOK
  <2> QED
    BY <1>6, <2>2 DEF Finalize, SamplesOK
<1>7. CASE \/ RestorePlant \/ RestoreController \/ ResumeLocals \/ ResumeStart
           \/ ResetAdapters \/ InitialObservation \/ InitialChecks
           \/ OpenWindow \/ AdvanceReturns \/ Control \/ Settle \/ NextWindow
  <2>1. loop'.samples = loop.samples
    BY <1>7 DEF RestorePlant, RestoreController, ResumeLocals, ResumeStart,
                ResetAdapters, InitialObservation, InitialChecks, OpenWindow,
                AdvanceReturns, Control, Settle, NextWindow, TypeInv, TypeOK,
                Loop
  <2>2. UNCHANGED store
    BY <1>7 DEF RestorePlant, RestoreController, ResumeLocals, ResumeStart,
                ResetAdapters, InitialObservation, InitialChecks, OpenWindow,
                AdvanceReturns, Control, Settle, NextWindow
  <2> QED
    BY <1>1, <2>1, <2>2
<1>8. CASE CloseWindow /\ pc' # "settle"
  BY <1>1, <1>8 DEF CloseWindow
<1> QED
  BY <1>1, <1>2, <1>3, <1>4, <1>5, <1>6, <1>7, <1>8
  DEF Next, Step, vars, Negotiate, LoadRejected, PollCancel, AdvancePlant,
      AdapterRaises, Observe, ProjectAction, Drive, PeriodicCheckpoint,
      PeriodicStepFile, Qualify, Grade, LastCheckpoint, LastStepFile,
      WriteManifest, RequestCancel, BoundaryStop, AsyncStop, Stop, Crash

\* A segment of a window that lies on one side of its target time is driven by
\* what drives the baseline there.
LEMMA SegmentBegins ==
  ASSUME TypeInv, OnBaseline(plant), loop.index < Steps, Clock(plant) = loop.time,
         NEW begin \in Nat, NEW stop \in Nat, begin <= stop, stop <= Period,
         loop.time = StartTime + Reach(loop.index) + begin,
         NEW action, NEW end, end = StartTime + Reach(loop.index) + stop,
         \/ stop <= Offset + Delay /\ action = loop.index
         \/ begin >= Offset + Delay /\ action = loop.index + 1,
         NEW then, StartAdvance(action, end, then)
  PROVE  /\ Clock(plant) + adv'.left = adv'.end
         /\ \A t \in Len(plant.trace) + 1 .. Len(plant.trace) + adv'.left :
              BaselineAt(t) = adv'.action
         /\ pc' = "advance" /\ adv'.end = end /\ adv'.then = then
<1> DEFINE n == loop.index  reach == Reach(n)  l == Len(plant.trace)
           time == loop.time
<1>1. /\ adv'.action = action /\ adv'.end = end /\ adv'.left = end - time
      /\ adv'.then = then /\ pc' = "advance"
  BY DEF StartAdvance
<1>2. /\ n \in Nat /\ l \in Nat /\ StartTime \in Nat /\ Period \in Nat
      /\ Offset \in Nat /\ Delay \in Nat /\ time \in Nat
  BY Numbers
<1>3. reach \in Nat
  BY <1>2, ReachFacts
<1>4. Clock(plant) = StartTime + l /\ Clock(plant) = time
  BY Numbers DEF OnBaseline, Origin
<1>5. time = StartTime + reach + begin /\ end = StartTime + reach + stop
  OBVIOUS
<1>6. \/ stop <= Offset + Delay /\ action = n
      \/ begin >= Offset + Delay /\ action = n + 1
  OBVIOUS
<1>7. n < Steps
  OBVIOUS
<1>8. ASSUME NEW t \in Nat, reach < t, t <= reach + Period
      PROVE  BaselineAt(t) = n + (IF t - 1 - reach < Offset + Delay THEN 0 ELSE 1)
  BY <1>2, <1>7, <1>8, WindowTicks
<1> HIDE DEF n, reach, l, time
<1>9. l = reach + begin /\ end - time = stop - begin /\ l + (end - time) = reach + stop
  BY <1>2, <1>3, <1>4, <1>5
<1>10. ASSUME NEW t \in l + 1 .. l + (end - time) PROVE BaselineAt(t) = action
  <2>1. t \in reach + begin + 1 .. reach + stop
    BY <1>9
  <2>2. t \in Nat /\ reach < t /\ t <= reach + Period
    BY <1>2, <1>3, <2>1
  <2>3. BaselineAt(t) = n + (IF t - 1 - reach < Offset + Delay THEN 0 ELSE 1)
    BY <1>8, <2>2
  <2>4. t - 1 - reach >= begin /\ t - 1 - reach < stop
    BY <1>3, <2>1
  <2> QED
    BY <1>2, <1>3, <1>6, <2>2, <2>3, <2>4
<1>11. Clock(plant) + (end - time) = end
  BY <1>2, <1>3, <1>4, <1>5
<1> QED
  BY <1>1, <1>10, <1>11 DEF l, time
\* The path up to the first window.
LEMMA StartOnPath ==
  ASSUME BaselineInv, InitialChecks \/ ResumeStart, pc' = "top"
  PROVE  AtBoundary(loop.index)'
<1> USE DEF BaselineInv, CourseInv, PackageInv
<1>1. CASE InitialChecks
  <2>1. /\ loop'.time = loop.time /\ loop'.start = loop.time
        /\ loop'.lastAction = loop.lastAction /\ loop'.cstate = loop.cstate
        /\ loop'.index = loop.index
        /\ UNCHANGED <<plant, ctl>> /\ pc = "initial_checks"
    BY <1>1 DEF InitialChecks, Rejects, Fail, TypeInv, TypeOK, Loop
  <2>2. /\ loop.lastAction = 0 /\ ctl = 0 /\ loop.cstate = 0 /\ loop.index = 0
        /\ plant.origin = "initial" /\ plant.trace = <<>>
        /\ loop.time = Clock(plant)
    BY <2>1 DEF FreshOK, StartOK, CountOK, Starting
  <2>3. Len(plant.trace) = 0 /\ Reach(0) = 0 /\ OnBaseline(plant)
    BY <2>2, ReachFacts DEF OnBaseline
  <2>4. loop.time = StartTime /\ StartTime + 0 = StartTime
    BY <2>2, <2>3, Numbers DEF Origin
  <2> QED
    BY <2>1, <2>2, <2>3, <2>4 DEF AtBoundary, Boundary
<1>2. CASE ResumeStart
  <2>1. PICK c \in Loadable : loop' = [loop EXCEPT !.start = c.start]
    BY <1>2 DEF ResumeStart
  <2>2. /\ loop'.index = loop.index /\ loop'.lastAction = loop.lastAction
        /\ loop'.time = loop.time /\ loop'.start = c.start
        /\ loop'.cstate = loop.cstate
    BY <2>1 DEF TypeInv, TypeOK, Loop
  <2>3. pc = "resume_start" /\ UNCHANGED <<plant, ctl>>
    BY <1>2 DEF ResumeStart
  <2>4. Boundary(c.plant, c.controller, c.lastAction, c.time, c.start, c.next)
    BY <2>3, LoadableOnPath DEF OnPath, Loading
  <2>5. /\ c.plant = plant /\ c.time = loop.time /\ c.controller = ctl
        /\ loop.cstate = ctl /\ loop.lastAction = c.lastAction
        /\ loop.index = c.next
    BY <2>3 DEF StartOK, FreshOK, Loading
  <2>6. loop.cstate = c.next
    BY <2>4, <2>5 DEF Boundary
  <2> QED
    BY <2>2, <2>3, <2>4, <2>5, <2>6 DEF AtBoundary
<1> QED
  BY <1>1, <1>2

\* A window opens at the boundary.
LEMMA OpenOnPath ==
  ASSUME BaselineInv, OpenWindow, WindowFits PROVE PathOK'
<1> USE DEF BaselineInv, CourseInv, PackageInv
<1>1. /\ loop'.time = loop.time /\ loop'.start = loop.start
      /\ loop'.index = loop.index /\ loop'.cycle = loop.time
      /\ loop'.lastAction = loop.lastAction
      /\ UNCHANGED <<plant, ctl>> /\ pc = "top" /\ loop.index < Steps
  BY DEF OpenWindow, TypeInv, TypeOK, Loop
<1>2. /\ OnBaseline(plant) /\ Len(plant.trace) = Reach(loop.index)
      /\ ctl = loop.index /\ loop.lastAction = loop.index
      /\ loop.start = StartTime /\ loop.time = StartTime + Reach(loop.index)
  BY <1>1 DEF PathOK, AtBoundary, Boundary
<1>3. Opened' /\ Clock(plant) = loop.time
  BY <1>1, <1>2, Numbers DEF Opened, OnBaseline, Origin
<1>4. Offset <= Period
  <2> DEFINE rest == loop.start + Duration - loop.time
  <2>1. Offset < Least(Period, rest)
    BY DEF WindowFits, WindowAt
  <2>2. rest \in Int
    BY TimebaseAssumption DEF TypeInv, TypeOK, Loop
  <2> HIDE DEF rest
  <2> QED
    BY <2>1, <2>2, TimebaseAssumption DEF Least
<1>5. CASE StartAdvance(loop.lastAction, loop.time + Offset, "sample")
  <2>1. /\ loop.time = StartTime + Reach(loop.index) + 0
        /\ loop.time + Offset = StartTime + Reach(loop.index) + Offset
        /\ 0 <= Offset /\ 0 \in Nat /\ Offset \in Nat /\ Offset <= Offset + Delay
    <3> DEFINE reach == Reach(loop.index)
    <3>1. reach \in Nat
      BY ReachFacts, Numbers
    <3> HIDE DEF reach
    <3>2. StartTime + reach = StartTime + reach + 0 /\ 0 <= Offset /\ 0 \in Nat
          /\ Offset \in Nat /\ Offset <= Offset + Delay
      BY <3>1, TimebaseAssumption
    <3> QED
      BY <1>2, <3>2 DEF reach
  <2>2. /\ Clock(plant) + adv'.left = adv'.end
        /\ \A t \in Len(plant.trace) + 1 .. Len(plant.trace) + adv'.left :
             BaselineAt(t) = adv'.action
        /\ pc' = "advance" /\ adv'.end = loop.time + Offset
        /\ adv'.then = "sample"
    BY <1>1, <1>2, <1>3, <1>4, <1>5, <2>1, SegmentBegins
  <2>3. PendingOK'
    BY <1>1, <1>2, <2>2 DEF PendingOK
  <2> QED
    BY <1>1, <1>2, <1>3, <2>2, <2>3 DEF PathOK, InWindow, Closing, LastWrites
<1>6. CASE pc' = "sample" /\ Offset = 0
  <2>1. Sampled' /\ Clock(plant') = loop'.time
    BY <1>1, <1>3, <1>6, Numbers DEF Sampled
  <2> QED
    BY <1>1, <1>2, <1>3, <1>6, <2>1 DEF PathOK, InWindow, Closing, LastWrites
<1> QED
  BY <1>5, <1>6, TimebaseAssumption DEF OpenWindow

\* The plant is stepped, and the loop takes over.
LEMMA AdvanceOnPath ==
  ASSUME BaselineInv, AdvancePlant \/ (AdvanceReturns /\ Clock(plant) = adv.end)
  PROVE  PathOK'
<1> USE DEF BaselineInv, CourseInv, PackageInv
<1>1. pc = "advance" /\ ctl' = ctl
  BY DEF AdvancePlant, AdvanceReturns
<1>2. Opened /\ PendingOK /\ loop.lastAction = loop.index
  BY <1>1 DEF PathOK, InWindow, Closing, LastWrites
<1>3. CASE AdvancePlant
  <2>1. pc' = "advance" /\ loop' = loop
    BY <1>1, <1>3 DEF AdvancePlant
  <2>2. PICK segment \in Nat \ {0} :
          /\ Clock(plant') = Clock(plant) + segment
          /\ adv'.left = adv.left - segment /\ adv'.end = adv.end
    BY <1>3, AdvanceIs
  <2>3. adv'.then = adv.then
    BY <1>3 DEF AdvancePlant, TypeInv, TypeOK, Advance
  <2>4. /\ OnBaseline(plant')
        /\ \A t \in Len(plant'.trace) + 1 .. Len(plant'.trace) + adv'.left :
             BaselineAt(t) = adv'.action
    BY <1>2, <1>3, SegmentOnBaseline DEF Opened, PendingOK
  <2>5. Clock(plant') + adv'.left = adv'.end
    <3> DEFINE k == Clock(plant)  e == adv.end  l == adv.left
    <3>1. k \in Nat /\ e \in Nat /\ l \in Nat /\ k + l = e
      BY <1>2, Numbers DEF PendingOK
    <3> HIDE DEF k, e, l
    <3>2. (k + segment) + (l - segment) = e
      BY <3>1
    <3> QED
      BY <2>2, <3>2 DEF k, e, l
  <2>6. Endpoint' = Endpoint
    BY <2>1 DEF Endpoint, WindowAt
  <2>7. PendingOK'
    BY <1>1, <1>2, <2>1, <2>2, <2>3, <2>4, <2>5, <2>6
    DEF PendingOK, Answered, Held
  <2>8. Opened'
    BY <1>2, <2>1, <2>4 DEF Opened
  <2> QED
    BY <1>2, <2>1, <2>7, <2>8 DEF PathOK, InWindow, Closing, LastWrites
<1>4. CASE AdvanceReturns /\ Clock(plant) = adv.end
  <2>1. /\ pc' = adv.then /\ plant' = plant
        /\ adv.then \in {"sample", "drive", "endpoint"}
    BY <1>4 DEF AdvanceReturns, TypeInv, TypeOK, Advance
  <2>2. /\ loop'.index = loop.index /\ loop'.cycle = loop.cycle
        /\ loop'.start = loop.start /\ loop'.lastAction = loop.lastAction
        /\ loop'.action = loop.action /\ loop'.cstate = loop.cstate
        /\ adv.then = "endpoint" => loop'.time = loop.time
        /\ adv.then # "endpoint" => loop'.time = Clock(plant)
    BY <1>4 DEF AdvanceReturns, TypeInv, TypeOK, Loop
  <2>3. Endpoint' = Endpoint /\ Opened'
    BY <1>2, <2>1, <2>2 DEF Endpoint, WindowAt, Opened
  <2>4. CASE adv.then = "sample"
    BY <1>1, <1>2, <1>4, <2>1, <2>2, <2>3, <2>4
    DEF PathOK, PendingOK, InWindow, Closing, LastWrites, Sampled
  <2>5. CASE adv.then = "drive"
    <3>1. Held' /\ Answered' /\ loop'.time <= Endpoint' /\ Clock(plant') = loop'.time
      BY <1>1, <1>2, <1>4, <2>1, <2>2, <2>3, <2>5 DEF PendingOK, Held, Answered
    <3> QED
      BY <1>2, <2>1, <2>2, <2>3, <2>5, <3>1
      DEF PathOK, InWindow, Closing, LastWrites
  <2>6. CASE adv.then = "endpoint"
    <3>1. Held' /\ Answered' /\ Clock(plant') = Endpoint'
      BY <1>1, <1>2, <1>4, <2>1, <2>2, <2>3, <2>6 DEF PendingOK, Held, Answered
    <3> QED
      BY <1>2, <2>1, <2>2, <2>3, <2>6, <3>1
      DEF PathOK, InWindow, Closing, LastWrites
  <2> QED
    BY <2>1, <2>4, <2>5, <2>6
<1> QED
  BY <1>3, <1>4
\* The sample, the answer and the hold of the last action.
LEMMA AnswerOnPath ==
  ASSUME BaselineInv,
         \/ Observe /\ pc' = "control"
         \/ Control /\ pc' = "act"
         \/ ProjectAction /\ pc' # "publish"
  PROVE  PathOK'
<1> USE DEF BaselineInv, CourseInv, PackageInv
<1>1. CASE Observe /\ pc' = "control"
  <2>1. pc = "sample" /\ UNCHANGED <<plant, ctl, loop>>
    BY <1>1 DEF Observe
  <2>2. Opened /\ Sampled /\ ctl = loop.index /\ loop.lastAction = loop.index
        /\ Clock(plant) = loop.time
    BY <2>1 DEF PathOK, InWindow, Closing, LastWrites
  <2> QED
    BY <1>1, <2>1, <2>2
    DEF PathOK, InWindow, Closing, LastWrites, Opened, Sampled
<1>2. CASE Control /\ pc' = "act"
  <2>1. /\ loop'.time = loop.time /\ loop'.start = loop.start
        /\ loop'.index = loop.index /\ loop'.cycle = loop.cycle
        /\ loop'.lastAction = loop.lastAction
        /\ loop'.action = ctl + 1 /\ loop'.cstate = ctl + 1 /\ ctl' = ctl + 1
        /\ loop'.target = loop.time + Delay /\ plant' = plant /\ pc = "control"
    BY <1>2 DEF Control, TypeInv, TypeOK, Loop
  <2>2. Opened /\ Sampled /\ ctl = loop.index /\ loop.lastAction = loop.index
        /\ Clock(plant) = loop.time
    BY <2>1 DEF PathOK, InWindow, Closing, LastWrites
  <2>3. loop'.target <= Endpoint'
    BY <1>2, WindowStep, <2>1 DEF WindowOK, Next, Step
  <2> QED
    BY <1>2, <2>1, <2>2, <2>3
    DEF PathOK, InWindow, Closing, LastWrites, Opened, Sampled, Answered
<1>3. CASE ProjectAction /\ pc' # "publish"
  <2>1. pc = "act" /\ UNCHANGED <<plant, ctl, loop>>
    BY <1>3 DEF ProjectAction
  <2>2. /\ Opened /\ Sampled /\ Answered /\ loop.lastAction = loop.index
        /\ loop.target = loop.time + Delay /\ loop.target <= Endpoint
        /\ Clock(plant) = loop.time /\ loop.index < Steps
    BY <2>1 DEF PathOK, CountOK, InWindow, Closing, LastWrites
  <2> DEFINE reach == Reach(loop.index)
  <2>3. /\ loop.time = StartTime + reach + Offset
        /\ loop.target = StartTime + reach + (Offset + Delay)
        /\ Offset <= Offset + Delay /\ Offset + Delay <= Period
        /\ Offset \in Nat /\ Offset + Delay \in Nat
        /\ loop.target = loop.cycle + Offset + Delay
    <3> DEFINE t == loop.time  g == loop.target  c == loop.cycle
    <3>1. /\ t = c + Offset /\ g = t + Delay /\ c = StartTime + reach
      BY <2>2 DEF Opened, Sampled
    <3>2. g <= Endpoint /\ Endpoint <= c + Period /\ Endpoint \in Nat
      BY <2>2, WindowEnd
    <3>3. /\ reach \in Nat /\ StartTime \in Nat /\ Offset \in Nat /\ Delay \in Nat
          /\ Period \in Nat
      BY ReachFacts, Numbers
    <3> HIDE DEF t, g, c, reach
    <3>4. /\ t = StartTime + reach + Offset
          /\ g = StartTime + reach + (Offset + Delay)
          /\ Offset <= Offset + Delay /\ Offset + Delay <= Period
          /\ Offset \in Nat /\ Offset + Delay \in Nat /\ g = c + Offset + Delay
      BY <3>1, <3>2, <3>3
    <3> QED
      BY <3>4 DEF t, g, c, reach
  <2>4. CASE loop.target > loop.time
             /\ StartAdvance(loop.lastAction, loop.target, "drive")
    <3>1. /\ Clock(plant) + adv'.left = adv'.end
          /\ \A t \in Len(plant.trace) + 1 .. Len(plant.trace) + adv'.left :
               BaselineAt(t) = adv'.action
          /\ pc' = "advance" /\ adv'.end = loop.target /\ adv'.then = "drive"
      <4> HIDE DEF reach
      <4>1. Offset + Delay <= Offset + Delay
        BY <2>3
      <4>2. OnBaseline(plant)
        BY <2>2 DEF Opened
      <4> QED
        BY <2>2, <2>3, <2>4, <4>1, <4>2, SegmentBegins DEF reach
    <3>2. Endpoint' = Endpoint
      BY <2>1 DEF Endpoint, WindowAt
    <3>3. PendingOK'
      BY <2>1, <2>2, <2>3, <3>1, <3>2 DEF PendingOK, Answered
    <3> QED
      BY <2>1, <2>2, <3>1, <3>3
      DEF PathOK, InWindow, Closing, LastWrites, Opened
  <2>5. CASE pc' = "drive" /\ ~(loop.target > loop.time)
    <3>1. Held /\ loop.time <= Endpoint
      <4>1. loop.target = loop.time
        BY <2>2, <2>5, Numbers
      <4> QED
        BY <2>2, <2>3, <4>1 DEF Held
    <3>2. Endpoint' = Endpoint
      BY <2>1 DEF Endpoint, WindowAt
    <3> QED
      BY <2>1, <2>2, <2>5, <3>1, <3>2
      DEF PathOK, InWindow, Closing, LastWrites, Opened, Held, Answered
  <2> QED
    BY <1>3, <2>4, <2>5 DEF ProjectAction, Rejects, Fail
<1> QED
  BY <1>1, <1>2, <1>3

\* The rest of the window, and its end.
LEMMA DriveOnPath ==
  ASSUME BaselineInv,
         \/ Drive
         \/ CloseWindow /\ pc' = "settle"
         \/ Settle
  PROVE  PathOK'
<1> USE DEF BaselineInv, CourseInv, PackageInv
<1>1. CASE Drive
  <2>1. pc = "drive" /\ UNCHANGED <<plant, ctl, loop>>
    BY <1>1 DEF Drive
  <2>2. /\ Opened /\ Held /\ Answered /\ loop.lastAction = loop.index
        /\ loop.time <= Endpoint /\ Clock(plant) = loop.time
        /\ loop.index < Steps
    BY <2>1 DEF PathOK, CountOK, InWindow, Closing, LastWrites
  <2>3. Endpoint' = Endpoint
    BY <2>1 DEF Endpoint, WindowAt
  <2>4. Endpoint \in Nat /\ Endpoint <= loop.cycle + Period
    BY <2>2, WindowEnd
  <2>5. CASE Endpoint > loop.time /\ StartAdvance(loop.action, Endpoint, "endpoint")
    <3> DEFINE reach == Reach(loop.index)
               stop == Endpoint - (StartTime + reach)
    <3>1. /\ loop.time = StartTime + reach + (Offset + Delay)
          /\ Endpoint = StartTime + reach + stop
          /\ Offset + Delay <= stop /\ stop <= Period
          /\ Offset + Delay \in Nat /\ stop \in Nat
      <4> DEFINE t == loop.time  c == loop.cycle  e == Endpoint
      <4>1. t = c + Offset + Delay /\ c = StartTime + reach
        BY <2>2 DEF Opened, Held
      <4>2. /\ reach \in Nat /\ StartTime \in Nat /\ Offset \in Nat /\ Delay \in Nat
            /\ Period \in Nat
        BY ReachFacts, Numbers
      <4>3. t <= e /\ e <= c + Period /\ e \in Nat
        BY <2>2, <2>4
      <4> HIDE DEF t, c, e, reach
      <4>4. /\ t = StartTime + reach + (Offset + Delay)
            /\ e = StartTime + reach + (e - (StartTime + reach))
            /\ Offset + Delay <= e - (StartTime + reach)
            /\ e - (StartTime + reach) <= Period
            /\ Offset + Delay \in Nat /\ e - (StartTime + reach) \in Nat
        BY <4>1, <4>2, <4>3
      <4> QED
        BY <4>4 DEF t, c, e, reach
    <3>2. /\ Clock(plant) + adv'.left = adv'.end
          /\ \A t \in Len(plant.trace) + 1 .. Len(plant.trace) + adv'.left :
               BaselineAt(t) = adv'.action
          /\ pc' = "advance" /\ adv'.end = Endpoint /\ adv'.then = "endpoint"
      <4> HIDE DEF reach, stop
      <4>1. Offset + Delay >= Offset + Delay
        BY <3>1
      <4>2. OnBaseline(plant) /\ loop.action = loop.index + 1
        BY <2>2 DEF Opened, Answered
      <4> QED
        BY <2>2, <2>5, <3>1, <4>1, <4>2, SegmentBegins DEF reach
    <3>3. PendingOK'
      BY <2>1, <2>2, <2>3, <3>2 DEF PendingOK, Answered, Held
    <3> QED
      BY <2>1, <2>2, <3>2, <3>3
      DEF PathOK, InWindow, Closing, LastWrites, Opened
  <2>6. CASE pc' = "endpoint" /\ ~(Endpoint > loop.time)
    <3>1. Clock(plant) = Endpoint
      BY <2>2, <2>4, <2>6, Numbers
    <3> QED
      BY <2>1, <2>2, <2>3, <2>6, <3>1
      DEF PathOK, InWindow, Closing, LastWrites, Opened, Held, Answered
  <2> QED
    BY <1>1, <2>5, <2>6 DEF Drive
<1>2. CASE CloseWindow /\ pc' = "settle"
  <2>1. pc = "endpoint" /\ UNCHANGED <<plant, ctl>>
    BY <1>2 DEF CloseWindow
  <2>2. /\ loop'.index = loop.index /\ loop'.cycle = loop.cycle
        /\ loop'.start = loop.start /\ loop'.action = loop.action
        /\ loop'.cstate = loop.cstate
    BY <1>2 DEF CloseWindow, Rejects, Fail, TypeInv, TypeOK, Loop
  <2>3. Opened /\ Answered /\ Clock(plant) = Endpoint
    BY <2>1 DEF PathOK, InWindow, Closing, LastWrites
  <2>4. Endpoint' = Endpoint
    BY <2>2 DEF Endpoint, WindowAt
  <2> QED
    BY <1>2, <2>1, <2>2, <2>3, <2>4
    DEF PathOK, InWindow, Closing, LastWrites, Opened, Answered
<1>3. CASE Settle
  <2>1. /\ loop'.time = Clock(plant) /\ loop'.lastAction = loop.action
        /\ loop'.index = loop.index /\ loop'.start = loop.start
        /\ loop'.cstate = loop.cstate
        /\ UNCHANGED <<plant, ctl>> /\ pc = "settle" /\ pc' = "checkpoint"
    BY <1>3 DEF Settle, TypeInv, TypeOK, Loop
  <2>2. Opened /\ Answered /\ Clock(plant) = Endpoint
    BY <2>1 DEF PathOK
  <2>3. Endpoint = StartTime + Reach(loop.index + 1)
    BY <2>2, WindowEnd
  <2>4. Len(plant.trace) = Reach(loop.index + 1)
    <3> DEFINE reach == Reach(loop.index + 1)
    <3>1. reach \in Nat
      <4>1. loop.index + 1 \in Nat
        BY Numbers
      <4> QED
        BY <4>1, ReachFacts
    <3>2. StartTime + Len(plant.trace) = StartTime + reach
      BY <2>2, <2>3, Numbers DEF Opened, OnBaseline, Origin
    <3> HIDE DEF reach
    <3> QED
      BY <3>1, <3>2, Numbers DEF reach
  <2>5. AtBoundary(loop.index + 1)'
    BY <2>1, <2>2, <2>3, <2>4 DEF AtBoundary, Boundary, Opened, Answered
  <2> QED
    BY <2>1, <2>5 DEF PathOK, InWindow, Closing, LastWrites
<1> QED
  BY <1>1, <1>2, <1>3

LEMMA PathStep ==
  ASSUME StopsAtBoundaries, BaselineInv, [Next]_vars PROVE PathOK'
<1> USE DEF BaselineInv, CourseInv, PackageInv
<1> DEFINE OnTheWay == InWindow \cup Closing \cup LastWrites \cup {"top"}
<1>1. CASE pc' \notin OnTheWay
  BY <1>1 DEF PathOK, InWindow, Closing, LastWrites
<1>2. CASE UNCHANGED <<pc, plant, ctl, loop, adv>>
  BY <1>2 DEF PathOK, AtBoundary, Boundary, Opened, PendingOK, Sampled, Held,
              Answered, Endpoint, WindowAt
<1>3. CASE (InitialChecks \/ ResumeStart) /\ pc' = "top"
  BY <1>3, StartOnPath DEF PathOK, InWindow, Closing, LastWrites
<1>4. CASE (PeriodicCheckpoint \/ PeriodicStepFile) /\ pc' # "publish"
  <2>1. AtBoundary(loop.index + 1) /\ UNCHANGED <<plant, ctl, loop>>
    BY <1>4 DEF PeriodicCheckpoint, PeriodicStepFile, PathOK, Closing
  <2>2. pc' \in Closing \ {"settle"}
    BY <1>4 DEF PeriodicCheckpoint, PeriodicStepFile, Fail, Closing
  <2> QED
    BY <2>1, <2>2 DEF PathOK, InWindow, Closing, LastWrites, AtBoundary
<1>5. CASE NextWindow
  <2>1. /\ AtBoundary(loop.index + 1) /\ UNCHANGED <<plant, ctl>>
        /\ pc' = "top" /\ loop' = [loop EXCEPT !.index = @ + 1]
    BY <1>5 DEF NextWindow, PathOK, Closing
  <2>2. /\ loop'.index = loop.index + 1 /\ loop'.lastAction = loop.lastAction
        /\ loop'.time = loop.time /\ loop'.start = loop.start
        /\ loop'.cstate = loop.cstate
    BY <2>1 DEF TypeInv, TypeOK, Loop
  <2> QED
    BY <2>1, <2>2 DEF PathOK, InWindow, Closing, LastWrites, AtBoundary
<1>6. CASE PollCancel \/ BoundaryStop
  <2>1. PICK category : Stop(category)
    BY <1>6 DEF PollCancel, BoundaryStop
  <2>2. CASE Escape
    BY <1>1, <2>2 DEF Escape, InWindow, Closing, LastWrites
  <2>3. CASE pc' = "last_checkpoint" /\ UNCHANGED <<plant, ctl, loop>>
    <3>1. AtBoundary(Len(loop.samples))
      BY <1>6 DEF PollCancel, BoundaryStop, PathOK, CountOK, Closing
    <3> QED
      BY <2>3, <3>1 DEF PathOK, InWindow, Closing, LastWrites, AtBoundary
  <2> QED
    BY <2>1, <2>2, <2>3 DEF Stop
<1>7. CASE pc' = "publish"
  BY <1>1, <1>7 DEF InWindow, Closing, LastWrites
<1>8. CASE RequestCancel \/ UNCHANGED vars
  BY <1>2, <1>8 DEF RequestCancel, vars
<1>9. ~AsyncStop
  BY DEF AsyncStop, StopsAtBoundaries
<1>10. CASE \/ Negotiate \/ LoadRejected \/ RestorePlant \/ RestoreController
            \/ ResumeSamples \/ ResumeLocals \/ ResetAdapters
            \/ InitialObservation \/ AdapterRaises \/ Qualify \/ Grade
            \/ WriteManifest \/ Finalize \/ BeginFresh \/ BeginResume \/ Crash
  BY <1>1, <1>10
  DEF Negotiate, LoadRejected, RestorePlant, RestoreController, ResumeSamples,
      ResumeLocals, ResetAdapters, InitialObservation, AdapterRaises, Qualify,
      Grade, WriteManifest, Finalize, BeginFresh, BeginResume, Begin, Crash,
      Escape, Fail, InWindow, Closing, LastWrites
<1>11. CASE LastCheckpoint \/ LastStepFile
  <2>1. AtBoundary(Len(loop.samples)) /\ UNCHANGED <<plant, ctl, loop>>
    BY <1>11 DEF LastCheckpoint, LastStepFile, PathOK, LastWrites
  <2>2. pc' \in {"last_step_file", "publish"}
    BY <1>11 DEF LastCheckpoint, LastStepFile, CheckpointLost
  <2> QED
    BY <2>1, <2>2 DEF PathOK, InWindow, Closing, LastWrites, AtBoundary
<1>12. InitialChecks => pc' \in {"top", "publish"}
  BY DEF InitialChecks, Rejects, Fail
<1>18. ResumeStart => pc' = "top"
  BY DEF ResumeStart
<1>13. OpenWindow => WindowFits \/ pc' = "publish"
  BY DEF OpenWindow, Fail
<1>14. AdvanceReturns => Clock(plant) = adv.end \/ pc' = "publish"
  BY DEF AdvanceReturns, Fail
<1>15. Observe => pc' \in {"control", "publish"}
  BY DEF Observe, Rejects, Fail
<1>16. Control => pc' \in {"act", "publish"}
  BY DEF Control, Fail
<1>17. CloseWindow => pc' \in {"settle", "publish"}
  BY DEF CloseWindow, Rejects, Fail
<1>19. BaselineInv
  OBVIOUS
<1> QED
  BY ONLY [Next]_vars, <1>3, <1>4, <1>5, <1>6, <1>7, <1>8, <1>9, <1>10, <1>11,
     <1>12, <1>13, <1>14, <1>15, <1>16, <1>17, <1>18, <1>19,
     OpenOnPath, AdvanceOnPath, AnswerOnPath, DriveOnPath
  DEF Next, Step

LEMMA BaselineInvStep ==
  StopsAtBoundaries /\ BaselineInv /\ [Next]_vars => BaselineInv'
<1> SUFFICES ASSUME StopsAtBoundaries, BaselineInv, [Next]_vars PROVE BaselineInv'
  OBVIOUS
<1>1. CourseInv'
  BY CourseInvStep DEF BaselineInv, StopsAtBoundaries, StartsAtZero
<1> QED
  BY <1>1, FreshStep, PathStep, SavedPathStep, SamplesStep, FinishedStep
  DEF BaselineInv
\* Rows that are the baseline's, one by one, are the baseline's samples.
LEMMA SamplesAre ==
  ASSUME NEW samples \in Seq(Row), RowsOK(samples)
  PROVE  samples = BaselineSamples(Len(samples))
<1>1. /\ Len(samples) \in Nat
      /\ samples = [k \in 1 .. Len(samples) |-> samples[k]]
  OBVIOUS
<1>2. \A k \in 1 .. Len(samples) : samples[k] = RowAt(k)
  BY DEF RowsOK
<1>3. BaselineSamples(Len(samples)) = [k \in 1 .. Len(samples) |-> RowAt(k)]
  BY DEF BaselineSamples, RowAt
<1> QED
  BY <1>1, <1>2, <1>3

LEMMA TraceIs ==
  ASSUME NEW p \in Plant, OnBaseline(p)
  PROVE  p.trace = BaselineTrace(Len(p.trace))
<1> DEFINE trace == p.trace
<1>1. trace \in Seq(Nat) /\ \A t \in 1 .. Len(trace) : trace[t] = BaselineAt(t)
  BY DEF Plant, OnBaseline
<1> HIDE DEF trace
<1>2. trace = [t \in 1 .. Len(trace) |-> trace[t]]
  BY <1>1
<1>3. BaselineTrace(Len(trace)) = [t \in 1 .. Len(trace) |-> BaselineAt(t)]
  BY DEF BaselineTrace, BaselineAt
<1>4. trace = BaselineTrace(Len(trace))
  BY <1>1, <1>2, <1>3
<1> QED
  BY <1>4 DEF trace

\* A run that completed, however often it was stopped at the boundary of a
\* window and resumed on the way, drove the plant as an uninterrupted run does
\* and recorded the same samples.
THEOREM CompletedRunsAreBaseline ==
  ASSUME StopsAtBoundaries PROVE Spec => []CompletedRunIsBaseline
<1>1. BaselineInv => CompletedRunIsBaseline
  <2> SUFFICES ASSUME BaselineInv, machine \in Finished
               PROVE  /\ plant = [origin |-> "initial",
                                  trace |-> BaselineTrace(Duration)]
                      /\ loop.samples = BaselineSamples(Steps)
    BY DEF CompletedRunIsBaseline, Finished
  <2> USE DEF BaselineInv, CourseInv, PackageInv
  <2>1. /\ OnBaseline(plant) /\ Len(plant.trace) = Duration
        /\ Len(loop.samples) = Steps
    BY DEF FinishedOK, DoneOK
  <2>2. plant \in Plant /\ loop.samples \in Seq(Row)
    BY DEF TypeInv, TypeOK, Loop
  <2>3. plant.trace = BaselineTrace(Duration)
    BY <2>1, <2>2, TraceIs
  <2>4. plant = [origin |-> "initial", trace |-> plant.trace]
    BY <2>1, <2>2 DEF OnBaseline, Plant
  <2>5. loop.samples = BaselineSamples(Steps)
    BY <2>1, <2>2, SamplesAre DEF SamplesOK
  <2> QED
    BY <2>3, <2>4, <2>5
<1>2. BaselineInv /\ [Next]_vars => BaselineInv'
  BY BaselineInvStep
<1> QED
  BY <1>1, <1>2, BaselineInit, PTL DEF Spec

\* Every package, of a failed or an incomplete run too, holds a prefix of the
\* samples of the uninterrupted run, as long as runs are stopped at the
\* boundaries of their windows.
THEOREM PackagesArePrefixes ==
  ASSUME StopsAtBoundaries PROVE Spec => []PackagesHoldBaselinePrefix
<1>1. BaselineInv => PackagesHoldBaselinePrefix
  <2> SUFFICES ASSUME BaselineInv, NEW r \in Runs
               PROVE  IsPrefixOfBaseline(store[r].samples)
    BY DEF PackagesHoldBaselinePrefix
  <2>1. store[r] \in Package /\ RowsOK(store[r].samples)
    BY DEF BaselineInv, CourseInv, PackageInv, TypeInv, TypeOK, SamplesOK
  <2>2. store[r].samples \in Seq(Row)
    BY <2>1 DEF Package
  <2> QED
    BY <2>1, <2>2, SamplesAre DEF IsPrefixOfBaseline
<1>2. BaselineInv /\ [Next]_vars => BaselineInv'
  BY BaselineInvStep
<1> QED
  BY <1>1, <1>2, BaselineInit, PTL DEF Spec
=============================================================================
