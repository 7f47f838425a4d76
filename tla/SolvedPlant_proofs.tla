------------------------- MODULE SolvedPlant_proofs -------------------------
(***************************************************************************)
(* Proofs about SolvedPlant and SimulatorProcess, for any plants, drives,  *)
(* step lengths and periods, and for children that leave whatever they     *)
(* like; and about the windows that Circuit compiles for such a plant, for *)
(* any document, duties and cut of the run.                                *)
(***************************************************************************)
EXTENDS SolvedPlant, Circuit, SequenceTheorems, FiniteSetTheorems, TLAPS

-----------------------------------------------------------------------------
(* What every reachable state looks like. *)

\* One call of the simulator.
CallOK ==
  /\ stage # "idle" => calls \in 1 .. MaxCalls /\ "netlist" \in evidence
  /\ stage \in {"resolving", "starting"} => leaving = Nothing
  /\ stage \in {"running", "ended"} => "command" \in evidence
  /\ stage \in {"resolving", "starting", "running", "ended"} => outcome = "none"
  /\ outcome = "accepted" => Sound(leaving)
  /\ outcome \in SimulationExecutionErrors =>
       /\ "netlist" \in evidence
       /\ leaving.log # "none" => {"command", "log"} \subseteq evidence

\* Its directory, unless the caller asked for it to be kept.
DirectoryOK ==
  ~KeepArtifacts =>
    /\ stage \in {"idle", "resolving"} => dirs = {}
    /\ dirs \subseteq {calls}

PlantType ==
  [time : 0 .. MaxTime, duty : Duties, input : Inputs, state : Seq(Drive), seen : Seq(Drive),
   reverse : BOOLEAN]
CacheType ==
  [start : Nat, end : Nat, duty : Duties, input : Inputs, edge : BOOLEAN, table : Seq(Drive)]
RequestType == [left : Nat \ {0}, duty : Duties, solving : BOOLEAN]
SavedType ==
  [time : 0 .. MaxTime, duty : Duties, input : Inputs, state : Seq(Drive), reverse : BOOLEAN,
   asked : Inputs, driven : Seq(Drive), torn : BOOLEAN]

PlantTypeInv ==
  /\ kind \in Kinds
  /\ plant \in PlantType
  /\ cache \in {NoCache} \cup CacheType
  /\ request \in {NoRequest} \cup RequestType
  /\ request # NoRequest => plant.time + request.left <= MaxTime
  /\ lastFailure \in [call : 0 .. calls, keys : SUBSET EvidenceKeys]
  /\ saved \in {NoSnapshot} \cup SavedType
  /\ asked \in Inputs /\ driven \in Seq(Drive) /\ torn \in BOOLEAN

\* The simulator works for a step, and the evidence of a call that failed is the
\* plant's once the step is over.
StepOK ==
  /\ stage # "idle" => request # NoRequest /\ request.solving
  /\ stage = "idle" /\ outcome \in SimulationExecutionErrors
       /\ (request = NoRequest \/ ~request.solving)
     => lastFailure = [call |-> calls, keys |-> evidence]

\* The last ticks of a table are the drive it was solved for.
DriveAt(d, u, tick) ==
  [duty |-> d, input |-> u, phase |-> tick % SwitchingPeriod, sound |-> TRUE]
EndsWith(table, start, ticks, d, u) ==
  /\ Len(table) >= ticks
  /\ \A i \in Len(table) - ticks + 1 .. Len(table) :
       table[i] = DriveAt(d, u, start + i - (Len(table) - ticks) - 1)
CacheOK ==
  cache # NoCache =>
    /\ cache.start <= plant.time /\ plant.time <= cache.end /\ cache.start < cache.end
    /\ EndsWith(cache.table, cache.start, cache.end - cache.start, cache.duty, cache.input)

\* A step that reads has a segment of its own drive that reaches its end.
ReadOK ==
  request # NoRequest /\ ~request.solving =>
    /\ cache # NoCache /\ cache.duty = request.duty /\ cache.input = plant.input
    /\ plant.time + request.left <= cache.end

\* The plant's state is the cached table, up to where the plant is.
UpTo(state, table, end, at) ==
  /\ Len(state) = Len(table) - (end - at)
  /\ \A i \in 1 .. Len(state) : state[i] = table[i]
TrackOK == cache # NoCache /\ ~torn => UpTo(plant.state, cache.table, cache.end, plant.time)

\* What the caller has handed over is what drives the plant, and goes into the
\* snapshot with it.
InputOK == plant.input = asked
SavedOK ==
  saved # NoSnapshot =>
    /\ saved.input = saved.asked
    /\ ~saved.torn => saved.state = saved.driven

PlantOK == CacheOK /\ ReadOK /\ TrackOK /\ InputOK /\ SavedOK /\ TrajectoryIsTrue

PlantInv == SimulatorTypeOK /\ CallOK /\ DirectoryOK /\ PlantTypeInv /\ StepOK /\ PlantOK

-----------------------------------------------------------------------------
(* Lemmas about the operators. *)

\* A state, and then a drive.
Grown(state, d, u, t, n) == state \o Segment(d, u, t, n, TRUE)

LEMMA SegmentOf ==
  ASSUME NEW d \in Duties, NEW u \in Inputs, NEW t \in Nat, NEW n \in Nat
  PROVE  /\ Segment(d, u, t, n, TRUE) \in Seq(Drive)
         /\ Len(Segment(d, u, t, n, TRUE)) = n
         /\ \A i \in 1 .. n :
              Segment(d, u, t, n, TRUE)[i] = DriveAt(d, u, t + i - 1)
<1> DEFINE drive(i) == DriveAt(d, u, t + i - 1)
<1>1. \A i \in 1 .. n : drive(i) \in Drive
  <2> SUFFICES ASSUME NEW i \in 1 .. n PROVE drive(i) \in Drive
    OBVIOUS
  <2>1. (t + i - 1) % SwitchingPeriod \in 0 .. SwitchingPeriod - 1
    BY PlantAssumption
  <2> QED BY <2>1 DEF Drive, DriveAt
<1>2. Segment(d, u, t, n, TRUE) = [i \in 1 .. n |-> drive(i)]
  BY DEF Segment, DriveAt
<1> HIDE DEF drive
<1>3. [i \in 1 .. n |-> drive(i)] \in Seq(Drive) /\ Len([i \in 1 .. n |-> drive(i)]) = n
  BY <1>1
<1>4. \A i \in 1 .. n : [j \in 1 .. n |-> drive(j)][i] = drive(i)
  OBVIOUS
<1> QED BY <1>2, <1>3, <1>4, Zenon DEF drive

\* A state that a new segment was added to.
Continues(table, state, d, u, t, n) ==
  /\ table \in Seq(Drive) /\ Len(table) = Len(state) + n
  /\ \A i \in 1 .. Len(state) : table[i] = state[i]
  /\ \A i \in Len(state) + 1 .. Len(state) + n :
       table[i] = DriveAt(d, u, t + i - Len(state) - 1)

LEMMA GrownIs ==
  ASSUME NEW d \in Duties, NEW u \in Inputs, NEW t \in Nat, NEW n \in Nat,
         NEW state \in Seq(Drive)
  PROVE  Continues(Grown(state, d, u, t, n), state, d, u, t, n)
<1> DEFINE added == Segment(d, u, t, n, TRUE)
           table == Grown(state, d, u, t, n)
<1>1. /\ added \in Seq(Drive) /\ Len(added) = n
      /\ \A i \in 1 .. n : added[i] = DriveAt(d, u, t + i - 1)
  BY SegmentOf
<1>2. table = state \o added
  BY DEF Grown
<1> HIDE DEF added
<1>3. state \o added \in Seq(Drive) /\ Len(state \o added) = Len(state) + Len(added)
  BY <1>1, ConcatProperties, Zenon
<1>4. \A i \in 1 .. Len(state) + Len(added) :
        (state \o added)[i] = IF i <= Len(state) THEN state[i] ELSE added[i - Len(state)]
  BY <1>1, ConcatProperties, Zenon
<1>5. /\ table \in Seq(Drive) /\ Len(table) = Len(state) + Len(added)
      /\ \A i \in 1 .. Len(state) + Len(added) :
           table[i] = IF i <= Len(state) THEN state[i] ELSE added[i - Len(state)]
  BY <1>2, <1>3, <1>4, Zenon
<1> HIDE DEF table
<1>6. Len(state) \in Nat
  OBVIOUS
<1>7. ASSUME NEW i \in 1 .. Len(state)
      PROVE  table[i] = state[i]
  BY <1>1, <1>5, <1>6
<1>8. ASSUME NEW i \in Len(state) + 1 .. Len(state) + n
      PROVE  table[i] = DriveAt(d, u, t + i - Len(state) - 1)
  <2>1. /\ i \in 1 .. Len(state) + Len(added) /\ ~(i <= Len(state))
        /\ i - Len(state) \in 1 .. n
    BY <1>1, <1>6
  <2>2. table[i] = added[i - Len(state)]
    BY <1>5, <2>1
  <2>3. added[i - Len(state)] = DriveAt(d, u, t + (i - Len(state)) - 1)
    BY <1>1, <2>1
  <2>4. t + (i - Len(state)) - 1 = t + i - Len(state) - 1
    BY <1>6
  <2> QED BY <2>2, <2>3, <2>4
<1>9. Continues(table, state, d, u, t, n)
  BY <1>1, <1>5, <1>7, <1>8 DEF Continues
<1> QED BY <1>9 DEF table

\* A table that ends with a new segment.
LEMMA NewSegment ==
  ASSUME NEW d \in Duties, NEW u \in Inputs, NEW t \in Nat, NEW n \in Nat,
         NEW state \in Seq(Drive)
  PROVE  /\ EndsWith(Grown(state, d, u, t, n), t, n, d, u)
         /\ UpTo(state, Grown(state, d, u, t, n), t + n, t)
<1> DEFINE table == Grown(state, d, u, t, n)
<1>1. Continues(table, state, d, u, t, n)
  BY GrownIs
<1> HIDE DEF table
<1>2. Len(state) \in Nat
  OBVIOUS
<1>3. Len(table) - n = Len(state) /\ Len(table) >= n /\ Len(state) = Len(table) - (t + n - t)
  BY <1>1, <1>2 DEF Continues
<1>4. EndsWith(table, t, n, d, u) /\ UpTo(state, table, t + n, t)
  BY <1>1, <1>3 DEF EndsWith, UpTo, Continues
<1> QED BY <1>4 DEF table

LEMMA HorizonReaches ==
  ASSUME NEW t \in Nat, NEW ticks \in Nat \ {0}
  PROVE  Horizon(t, ticks) \in Nat /\ Horizon(t, ticks) >= ticks
<1>1. WindowEnd(t) \in Nat
  <2>1. t \div ControlPeriod + 1 \in Nat
    BY PlantAssumption
  <2>2. \A m, n \in Nat : m * n \in Nat
    OBVIOUS
  <2> QED BY <2>1, <2>2, PlantAssumption DEF WindowEnd
<1> QED BY <1>1 DEF Horizon

LEMMA Sentinels ==
  /\ \A c \in CacheType : c # NoCache
  /\ \A r \in RequestType : r # NoRequest
  /\ \A s \in SavedType : s # NoSnapshot
<1>1. \A c \in CacheType : c.end # NoCache.end
  BY DEF CacheType, NoCache
<1>2. \A r \in RequestType : r.left # NoRequest.left
  BY DEF RequestType, NoRequest
<1>3. \A s \in SavedType : s.time # NoSnapshot.time
  BY DEF SavedType, NoSnapshot
<1> QED BY <1>1, <1>2, <1>3

-----------------------------------------------------------------------------
(* The simulator. *)

SimulatorMoves == SimulatorStep \/ ResolveFails \/ Leave \/ Interrupt

LEMMA SimulatorKeepsType ==
  ASSUME SimulatorTypeOK, CallOK, SimulatorMoves
  PROVE  SimulatorTypeOK' /\ calls' = calls /\ stage # "idle"
<1> USE SimulatorAssumption DEF SimulatorTypeOK, EvidenceKeys, Outcomes,
        SimulationExecutionErrors
<1>0. Nothing \in Leaving /\ [Nothing EXCEPT !.log = "clean"] \in Leaving
  BY DEF Nothing, Leaving
<1>1. CASE MakeDirectory
  BY <1>1 DEF MakeDirectory, CallOK
<1>2. CASE Start
  BY <1>2 DEF Start
<1>3. CASE StartFails
  BY <1>0, <1>3 DEF StartFails, Raise, LogEvidence
<1>4. CASE ChildLogs
  BY <1>0, <1>4 DEF ChildLogs
<1>5. CASE ChildEnds
  BY <1>5 DEF ChildEnds
<1>6. CASE Timeout
  BY <1>6 DEF Timeout, Raise, LogEvidence
<1>7. CASE Examine
  BY <1>7 DEF Examine, Raise, LogEvidence, Complaint
<1>8. CASE ResolveFails
  BY <1>8 DEF ResolveFails, Refuse
<1>9. CASE Leave
  BY <1>9 DEF Leave
<1>10. CASE Interrupt
  BY <1>10 DEF Interrupt, Refuse, Raise, LogEvidence
<1> QED BY <1>1, <1>2, <1>3, <1>4, <1>5, <1>6, <1>7, <1>8, <1>9, <1>10
        DEF SimulatorMoves, SimulatorStep

LEMMA SimulatorKeepsCall ==
  ASSUME SimulatorTypeOK, CallOK, SimulatorMoves
  PROVE  CallOK'
<1> USE DEF CallOK, SimulatorTypeOK, SimulationExecutionErrors
<1>0. Nothing.log = "none" /\ Nothing.exit = FALSE
  BY DEF Nothing
<1>1. CASE MakeDirectory
  BY <1>1 DEF MakeDirectory, Sound
<1>2. CASE Start
  BY <1>2 DEF Start, Sound
<1>3. CASE StartFails
  BY <1>0, <1>3 DEF StartFails, Raise, LogEvidence
<1>4. CASE ChildLogs
  BY <1>4 DEF ChildLogs
<1>5. CASE ChildEnds
  BY <1>5 DEF ChildEnds
<1>6. CASE Timeout
  BY <1>6 DEF Timeout, Raise, LogEvidence
<1>7. CASE Examine
  BY <1>7 DEF Examine, Raise, LogEvidence, Complaint, Sound, Leaving
<1>8. CASE ResolveFails
  BY <1>0, <1>8 DEF ResolveFails, Refuse, Sound
<1>9. CASE Leave
  BY <1>9 DEF Leave, Sound
<1>10. CASE Interrupt
  BY <1>10 DEF Interrupt, Refuse, Raise, LogEvidence
<1> QED BY <1>1, <1>2, <1>3, <1>4, <1>5, <1>6, <1>7, <1>8, <1>9, <1>10
        DEF SimulatorMoves, SimulatorStep

LEMMA SimulatorKeepsDirectory ==
  ASSUME SimulatorTypeOK, DirectoryOK, SimulatorMoves
  PROVE  DirectoryOK'
  BY DEF DirectoryOK, SimulatorMoves, SimulatorStep, MakeDirectory, Start,
     StartFails, ChildLogs, ChildEnds, Timeout, Examine, ResolveFails, Leave,
     Interrupt, Refuse, Raise, SimulatorTypeOK

\* A call that has just begun.
LEMMA CallBegins ==
  ASSUME SimulatorTypeOK, DirectoryOK, Call
  PROVE  /\ SimulatorTypeOK' /\ CallOK' /\ DirectoryOK'
         /\ stage' # "idle" /\ calls' = calls + 1 /\ calls \in Nat
<1>1. Nothing \in Leaving
  BY DEF Nothing, Leaving
<1>2. SimulatorTypeOK' /\ calls' \in 1 .. MaxCalls /\ calls' = calls + 1 /\ calls \in Nat
  BY <1>1, SimulatorAssumption DEF Call, SimulatorTypeOK, EvidenceKeys, Outcomes
<1> QED BY <1>2 DEF Call, CallOK, DirectoryOK, SimulationExecutionErrors

LEMMA SimulatorStays ==
  ASSUME SimulatorTypeOK, CallOK, DirectoryOK, UNCHANGED simulatorVars
  PROVE  /\ SimulatorTypeOK' /\ CallOK' /\ DirectoryOK'
         /\ UNCHANGED <<stage, leaving, dirs, calls, evidence, outcome>>
<1>1. UNCHANGED <<stage, leaving, dirs, calls, evidence, outcome>>
  BY DEF simulatorVars
<1> QED BY <1>1 DEF SimulatorTypeOK, CallOK, DirectoryOK, Sound

-----------------------------------------------------------------------------
(* The initial state. *)

LEMMA FirstDrive == FirstDuty \in Duties /\ FirstInput \in Inputs
  BY PlantAssumption DEF FirstDuty, FirstInput

\* A new object, or one that has been reset.
LEMMA FreshPlant == ASSUME NEW u \in Inputs PROVE Fresh(u) \in PlantType
<1>1. 0 \in 0 .. MaxTime /\ <<>> \in Seq(Drive)
  BY PlantAssumption
<1> QED BY <1>1, FirstDrive DEF Fresh, PlantType

LEMMA InvInit == Init => PlantInv
<1> SUFFICES ASSUME Init PROVE PlantInv
  OBVIOUS
<1> USE DEF Init
<1>1. SimulatorTypeOK /\ CallOK /\ DirectoryOK
  BY SimulatorAssumption
  DEF SimulatorInit, SimulatorTypeOK, CallOK, DirectoryOK, Nothing, Leaving,
      Outcomes, SimulationExecutionErrors
<1>2. PlantTypeInv
  <2>1. lastFailure \in [call : 0 .. calls, keys : SUBSET EvidenceKeys]
    BY DEF NoFailure, SimulatorInit
  <2>2. driven \in Seq(Drive)
    OBVIOUS
  <2> QED BY <2>1, <2>2, FirstDrive, FreshPlant DEF PlantTypeInv
<1>3. StepOK /\ PlantOK
  BY DEF SimulatorInit, StepOK, PlantOK, CacheOK, ReadOK, TrackOK, UpTo,
     InputOK, SavedOK, TrajectoryIsTrue, SimulationExecutionErrors, Fresh
<1> QED BY <1>1, <1>2, <1>3 DEF PlantInv

-----------------------------------------------------------------------------
(* The steps, one action at a time. *)

\* A step asks: the segment at hand serves, or the simulator is called.
LEMMA AdvanceStep ==
  ASSUME PlantInv, NEW d \in Duties, NEW u \in Inputs \cup {NoInput}, NEW n \in Durations,
         Advance(d, u, n)
  PROVE  PlantInv'
<1> DEFINE applied == IF u = NoInput THEN plant.input ELSE u
           hit == Reusable(d, applied, plant.time + n)
<1> USE DEF PlantInv, PlantTypeInv
<1>1. /\ request = NoRequest /\ stage = "idle" /\ plant.time + n <= MaxTime
      /\ plant' = [plant EXCEPT !.input = applied]
      /\ asked' = IF u = NoInput THEN asked ELSE u
      /\ UNCHANGED <<kind, cache, lastFailure, saved, driven, torn>>
      /\ n \in Nat \ {0} /\ applied \in Inputs
  BY PlantAssumption DEF Advance, Idle, PlantType
<1>2. /\ plant' \in PlantType /\ plant'.time = plant.time /\ plant'.state = plant.state
      /\ plant'.input = applied /\ plant.time \in Nat
  <2>1. PICK v \in Inputs : v = applied
    BY <1>1
  <2>2. plant' = [plant EXCEPT !.input = v] /\ plant \in PlantType
    BY <1>1, <2>1
  <2>3. /\ plant' \in PlantType /\ plant'.time = plant.time /\ plant'.state = plant.state
        /\ plant'.input = v
    BY <2>2 DEF PlantType
  <2>4. plant.time \in Nat
    BY <2>2, PlantAssumption DEF PlantType
  <2> QED BY <2>1, <2>3, <2>4
<1>3. CacheOK' /\ TrackOK' /\ SavedOK' /\ TrajectoryIsTrue'
  BY <1>1, <1>2
  DEF PlantOK, CacheOK, EndsWith, TrackOK, UpTo, SavedOK, TrajectoryIsTrue
<1>4. InputOK' /\ asked' \in Inputs
  BY <1>1, <1>2 DEF PlantOK, InputOK
<1>5. CASE ~hit /\ CanRender
  <2>1. Call /\ request' = [left |-> n, duty |-> d, solving |-> TRUE]
    BY <1>5 DEF Advance
  <2>2. request' \in RequestType /\ request' # NoRequest /\ request'.solving /\ request'.left = n
    BY <1>1, <2>1, Sentinels DEF RequestType
  <2>3. /\ SimulatorTypeOK' /\ CallOK' /\ DirectoryOK'
        /\ stage' # "idle" /\ calls' = calls + 1 /\ calls \in Nat
    BY <2>1, CallBegins
  <2>4. 0 .. calls \subseteq 0 .. calls'
    BY <2>3
  <2>5. PlantTypeInv'
    BY <1>1, <1>2, <1>4, <2>2, <2>4
  <2> QED BY <1>3, <1>4, <2>2, <2>3, <2>5 DEF StepOK, ReadOK, PlantOK
<1>6. CASE hit
  <2>1. UNCHANGED simulatorVars /\ request' = [left |-> n, duty |-> d, solving |-> FALSE]
    BY <1>6 DEF Advance
  <2>2. request' \in RequestType /\ request' # NoRequest /\ ~request'.solving /\ request'.left = n
        /\ request'.duty = d
    BY <1>1, <2>1, Sentinels DEF RequestType
  <2>3. /\ SimulatorTypeOK' /\ CallOK' /\ DirectoryOK'
        /\ UNCHANGED <<stage, leaving, dirs, calls, evidence, outcome>>
    BY <2>1, SimulatorStays
  <2>4. PlantTypeInv'
    BY <1>1, <1>2, <1>4, <2>2, <2>3
  <2>5. StepOK'
    BY <1>1, <2>2, <2>3 DEF StepOK
  <2>6. ReadOK'
    BY <1>1, <1>2, <1>6, <2>2 DEF ReadOK, Reusable, Matches, Covers
  <2> QED BY <1>3, <1>4, <2>3, <2>4, <2>5, <2>6 DEF PlantOK
<1>7. CASE ~hit /\ ~CanRender
  <2>1. UNCHANGED simulatorVars /\ request' = NoRequest
    BY <1>7 DEF Advance
  <2>2. /\ SimulatorTypeOK' /\ CallOK' /\ DirectoryOK'
        /\ UNCHANGED <<stage, leaving, dirs, calls, evidence, outcome>>
    BY <2>1, SimulatorStays
  <2>3. PlantTypeInv'
    BY <1>1, <1>2, <1>4, <2>1, <2>2
  <2>4. StepOK' /\ ReadOK'
    BY <1>1, <2>1, <2>2 DEF StepOK, ReadOK
  <2> QED BY <1>3, <1>4, <2>2, <2>3, <2>4 DEF PlantOK
<1> QED BY <1>5, <1>6, <1>7

\* The simulator moves, and the plant waits.
LEMMA SimulatorStepOrInterrupt ==
  ASSUME PlantInv, SimulatorMoves, UNCHANGED plantVars
  PROVE  PlantInv'
<1> USE DEF PlantInv
<1>1. UNCHANGED <<kind, plant, cache, request, lastFailure, saved, asked, driven, torn>>
  BY DEF plantVars
<1>2. SimulatorTypeOK' /\ CallOK' /\ DirectoryOK' /\ calls' = calls /\ stage # "idle"
  BY SimulatorKeepsType, SimulatorKeepsCall, SimulatorKeepsDirectory
<1>3. PlantTypeInv'
  BY <1>1, <1>2 DEF PlantTypeInv
<1>4. StepOK'
  BY <1>1, <1>2 DEF StepOK
<1>5. PlantOK'
  BY <1>1
  DEF PlantOK, CacheOK, EndsWith, ReadOK, TrackOK, UpTo, InputOK, SavedOK,
      TrajectoryIsTrue
<1> QED BY <1>2, <1>3, <1>4, <1>5

LEMMA SolveFailsStep ==
  ASSUME PlantInv, SolveFails
  PROVE  PlantInv'
<1> USE DEF PlantInv
<1>1. UNCHANGED simulatorVars
      /\ UNCHANGED <<kind, plant, cache, saved, asked, driven, torn>> /\ request' = NoRequest
      /\ lastFailure' = IF outcome \in SimulationExecutionErrors
                        THEN [call |-> calls, keys |-> evidence] ELSE lastFailure
  BY DEF SolveFails
<1>2. /\ SimulatorTypeOK' /\ CallOK' /\ DirectoryOK'
      /\ UNCHANGED <<stage, leaving, dirs, calls, evidence, outcome>>
  BY <1>1, SimulatorStays
<1>3. lastFailure' \in [call : 0 .. calls, keys : SUBSET EvidenceKeys]
  BY <1>1 DEF PlantTypeInv, SimulatorTypeOK
<1>4. PlantTypeInv'
  BY <1>1, <1>2, <1>3 DEF PlantTypeInv
<1>5. StepOK'
  BY <1>1, <1>2 DEF StepOK, SolveFails, Solving
<1>6. PlantOK'
  BY <1>1
  DEF PlantOK, CacheOK, EndsWith, ReadOK, TrackOK, UpTo, InputOK, SavedOK,
      TrajectoryIsTrue
<1> QED BY <1>2, <1>4, <1>5, <1>6

\* The new segment starts where the plant is: its table is what the plant has
\* seen and then the drive that was asked for.
LEMMA SolveSucceedsStep ==
  ASSUME PlantInv, SolveSucceeds
  PROVE  PlantInv'
<1> DEFINE H == Horizon(plant.time, request.left)
           table == Grown(plant.state, request.duty, plant.input, plant.time, H)
<1> USE DEF PlantInv
<1>1. /\ UNCHANGED simulatorVars /\ UNCHANGED <<kind, plant, lastFailure, saved, asked, driven, torn>>
      /\ request \in RequestType /\ request.solving /\ stage = "idle" /\ outcome = "accepted"
  BY DEF SolveSucceeds, Solving, PlantTypeInv
<1>2. /\ SimulatorTypeOK' /\ CallOK' /\ DirectoryOK'
      /\ UNCHANGED <<stage, leaving, dirs, calls, evidence, outcome>>
  BY <1>1, SimulatorStays
<1>3. CASE request' = NoRequest /\ UNCHANGED cache
  <2>1. PlantTypeInv'
    BY <1>1, <1>2, <1>3 DEF PlantTypeInv
  <2>2. StepOK'
    BY <1>1, <1>2, <1>3 DEF StepOK, SimulationExecutionErrors
  <2>3. PlantOK'
    BY <1>1, <1>3
    DEF PlantOK, CacheOK, EndsWith, ReadOK, TrackOK, UpTo, InputOK, SavedOK,
        TrajectoryIsTrue
  <2> QED BY <1>2, <2>1, <2>2, <2>3
<1>4. CASE cache' = Solved /\ request' = [request EXCEPT !.solving = FALSE]
  <2>1. /\ plant.time \in Nat /\ plant.input \in Inputs /\ plant.state \in Seq(Drive)
        /\ request.left \in Nat \ {0} /\ request.duty \in Duties
    BY <1>1, PlantAssumption DEF PlantTypeInv, PlantType, RequestType
  <2>2. H \in Nat /\ H >= request.left
    BY <2>1, HorizonReaches
  <2> HIDE DEF H
  <2> HIDE DEF table
  <2>4. Sound(leaving) = TRUE
    BY <1>1 DEF CallOK, Sound
  <2>5. cache' = [start |-> plant.time, end |-> plant.time + H, duty |-> request.duty,
                  input |-> plant.input, edge |-> leaving.output = "edge",
                  table |-> table]
    BY <1>4, <2>4 DEF Solved, Grown, H, table
  <2>6. /\ table \in Seq(Drive)
        /\ EndsWith(table, plant.time, H, request.duty, plant.input)
        /\ UpTo(plant.state, table, plant.time + H, plant.time)
    BY <2>1, <2>2, GrownIs, NewSegment DEF table, Continues
  <2>7. cache' \in CacheType /\ cache' # NoCache
    <3>1. PICK edge \in BOOLEAN : edge = (leaving.output = "edge")
      OBVIOUS
    <3>2. cache' = [start |-> plant.time, end |-> plant.time + H, duty |-> request.duty,
                    input |-> plant.input, edge |-> edge, table |-> table]
      BY <2>5, <3>1
    <3>3. plant.time + H \in Nat
      BY <2>1, <2>2
    <3>4. cache' \in CacheType
      BY <2>1, <2>6, <3>2, <3>3 DEF CacheType
    <3> QED BY <3>4, Sentinels
  <2>8. /\ request' \in RequestType /\ request' # NoRequest /\ ~request'.solving
        /\ request'.left = request.left /\ request'.duty = request.duty
    BY <1>1, <1>4, Sentinels DEF RequestType
  <2>9. PlantTypeInv'
    BY <1>1, <1>2, <2>7, <2>8, Sentinels DEF PlantTypeInv
  <2>10. StepOK'
    BY <1>1, <1>2 DEF StepOK, SimulationExecutionErrors
  <2>11. CacheOK'
    <3>1. /\ cache'.start = plant.time /\ cache'.end = plant.time + H
          /\ cache'.table = table
          /\ cache'.duty = request.duty /\ cache'.input = plant.input
      BY <2>5
    <3>2. EndsWith(cache'.table, cache'.start, cache'.end - cache'.start, cache'.duty, cache'.input)
      <4>1. cache'.end - cache'.start = H
        BY <2>1, <2>2, <3>1
      <4> QED BY <2>6, <3>1, <4>1
    <3>3. cache'.start <= plant.time /\ plant.time <= cache'.end /\ cache'.start < cache'.end
      BY <2>1, <2>2, <3>1
    <3> QED BY <1>1, <3>2, <3>3 DEF CacheOK, EndsWith
  <2>12. ReadOK'
    BY <1>1, <2>1, <2>2, <2>5, <2>7, <2>8 DEF ReadOK
  <2>13. TrackOK'
    BY <1>1, <2>1, <2>2, <2>5, <2>6 DEF TrackOK, UpTo
  <2>14. InputOK' /\ SavedOK' /\ TrajectoryIsTrue'
    BY <1>1 DEF PlantOK, InputOK, SavedOK, TrajectoryIsTrue
  <2> QED BY <1>2, <2>9, <2>10, <2>11, <2>12, <2>13, <2>14 DEF PlantOK
<1> QED BY <1>3, <1>4 DEF SolveSucceeds

\* A table up to a time inside the segment it ends with.
LEMMA PrefixOf ==
  ASSUME NEW table \in Seq(Drive), NEW k \in 0 .. Len(table)
  PROVE  /\ SubSeq(table, 1, k) \in Seq(Drive) /\ Len(SubSeq(table, 1, k)) = k
         /\ \A i \in 1 .. k : SubSeq(table, 1, k)[i] = table[i]
<1>1. \A i \in 1 .. k : table[i] \in Drive
  OBVIOUS
<1>2. 1 \in Int /\ k \in Int
  OBVIOUS
<1>3. /\ SubSeq(table, 1, k) \in Seq(Drive)
      /\ Len(SubSeq(table, 1, k)) = IF 1 <= k THEN k - 1 + 1 ELSE 0
      /\ \A i \in 1 .. k - 1 + 1 : SubSeq(table, 1, k)[i] = table[1 + i - 1]
  BY <1>1, <1>2, SubSeqProperties
<1> QED BY <1>3

\* A state that is a table up to one time, and the drive from there to a later
\* time, are the table up to the later time.
CanRead(table, start, end, at, left, d, u, state) ==
  /\ start <= at /\ at + left <= end
  /\ EndsWith(table, start, end - start, d, u) /\ UpTo(state, table, end, at)

LEMMA TableGoesOn ==
  ASSUME NEW table \in Seq(Drive), NEW start \in Nat, NEW end \in Nat, NEW at \in Nat,
         NEW left \in Nat, NEW d \in Duties, NEW u \in Inputs, NEW state \in Seq(Drive),
         CanRead(table, start, end, at, left, d, u, state)
  PROVE  SubSeq(table, 1, Len(table) - (end - (at + left))) = Grown(state, d, u, at, left)
<1> DEFINE k == Len(table) - (end - (at + left))
           seen == SubSeq(table, 1, k)
           grown == Grown(state, d, u, at, left)
<1> USE DEF CanRead
<1>1. Len(table) \in Nat /\ Len(state) \in Nat /\ Len(state) = Len(table) - (end - at)
      /\ Len(table) >= end - start
  BY DEF UpTo, EndsWith
<1>2. k \in 0 .. Len(table) /\ k = Len(state) + left
  BY <1>1
<1>3. seen \in Seq(Drive) /\ Len(seen) = k /\ \A i \in 1 .. k : seen[i] = table[i]
  BY <1>2, PrefixOf
<1>4. Continues(grown, state, d, u, at, left)
  BY GrownIs
<1> HIDE DEF seen, grown
<1>5. ASSUME NEW i \in 1 .. k
      PROVE  seen[i] = grown[i]
  <2>1. seen[i] = table[i] /\ i \in Nat \ {0}
    BY <1>2, <1>3
  <2>2. CASE i <= Len(state)
    <3>1. i \in 1 .. Len(state)
      BY <1>1, <2>1, <2>2
    <3> QED BY <1>4, <2>1, <3>1 DEF UpTo, Continues
  <2>3. CASE ~(i <= Len(state))
    <3>1. i \in Len(state) + 1 .. Len(state) + left
      BY <1>1, <1>2, <2>1, <2>3
    <3>2. i \in Len(table) - (end - start) + 1 .. Len(table)
      BY <1>1, <1>2, <3>1
    <3>3. start + i - (Len(table) - (end - start)) - 1 = at + i - Len(state) - 1
      BY <1>1, <2>1
    <3>4. table[i] = DriveAt(d, u, start + i - (Len(table) - (end - start)) - 1)
      BY <3>2 DEF EndsWith
    <3>5. grown[i] = DriveAt(d, u, at + i - Len(state) - 1)
      BY <1>4, <3>1 DEF Continues
    <3> QED BY <2>1, <3>3, <3>4, <3>5
  <2> QED BY <2>2, <2>3
<1>6. grown \in Seq(Drive) /\ Len(seen) = Len(grown)
  BY <1>2, <1>3, <1>4 DEF Continues
<1>7. seen = grown
  BY <1>3, <1>5, <1>6, SeqEqual
<1> QED BY <1>7 DEF seen, grown

\* What a step reads: the cached table up to its target, and that is what the
\* plant had seen and then the drive of the step.
LEMMA ReadTable ==
  ASSUME PlantInv, Reading
  PROVE  /\ Target \in 0 .. MaxTime /\ request.duty \in Duties
         /\ cache # NoCache /\ cache.start <= Target /\ Target <= cache.end
         /\ ValueAt(cache, Target) \in Seq(Drive)
         /\ Len(ValueAt(cache, Target)) = Len(cache.table) - (cache.end - Target)
         /\ \A i \in 1 .. Len(ValueAt(cache, Target)) : ValueAt(cache, Target)[i] = cache.table[i]
         /\ Drives \in Seq(Drive)
         /\ ~torn => ValueAt(cache, Target) = Drives
<1>1. /\ request \in RequestType /\ cache \in CacheType /\ plant \in PlantType
      /\ driven \in Seq(Drive) /\ plant.time + request.left <= MaxTime
      /\ cache # NoCache /\ cache.duty = request.duty /\ cache.input = plant.input
      /\ plant.time + request.left <= cache.end
  BY DEF Reading, PlantInv, PlantTypeInv, PlantOK, ReadOK
<1>2. PICK at \in Nat, left \in Nat, d \in Duties, u \in Inputs,
           start \in Nat, end \in Nat, table \in Seq(Drive), state \in Seq(Drive) :
        /\ at = plant.time /\ left = request.left /\ d = request.duty /\ u = plant.input
        /\ start = cache.start /\ end = cache.end /\ table = cache.table /\ state = plant.state
  BY <1>1, PlantAssumption DEF PlantType, RequestType, CacheType
<1>3. /\ start <= at /\ at + left <= end /\ at + left <= MaxTime
      /\ EndsWith(table, start, end - start, d, u)
  BY <1>1, <1>2 DEF PlantInv, PlantOK, CacheOK
<1>4. Target = at + left /\ at + left \in 0 .. MaxTime
  BY <1>2, <1>3, PlantAssumption DEF Target
<1>5. PICK k : k = Len(table) - (end - (at + left))
  OBVIOUS
<1>6. k \in 0 .. Len(table)
  <2>1. Len(table) \in Nat
    OBVIOUS
  <2> QED BY <1>3, <1>5, <2>1 DEF EndsWith
<1>7. ValueAt(cache, Target) = SubSeq(table, 1, k)
  BY <1>2, <1>4, <1>5 DEF ValueAt
<1>8. /\ SubSeq(table, 1, k) \in Seq(Drive) /\ Len(SubSeq(table, 1, k)) = k
      /\ \A i \in 1 .. k : SubSeq(table, 1, k)[i] = table[i]
  BY <1>6, PrefixOf
<1>9. Drives = Grown(driven, d, u, at, left)
  <2>1. asked = u
    BY <1>2 DEF PlantInv, PlantOK, InputOK
  <2> QED BY <1>2, <2>1 DEF Drives, Grown
<1>10. Drives \in Seq(Drive)
  BY <1>1, <1>9, GrownIs DEF Continues
<1>11. ASSUME ~torn
       PROVE  SubSeq(table, 1, k) = Drives
  <2>1. driven = state /\ UpTo(state, table, end, at)
    BY <1>1, <1>2, <1>11 DEF PlantInv, PlantOK, TrajectoryIsTrue, TrackOK
  <2>2. SubSeq(table, 1, Len(table) - (end - (at + left))) = Grown(state, d, u, at, left)
    <3>1. CanRead(table, start, end, at, left, d, u, state)
      BY <1>3, <2>1 DEF CanRead
    <3> QED BY <3>1, TableGoesOn
  <2> QED BY <1>5, <1>9, <2>1, <2>2
<1>12. cache.start <= Target /\ Target <= cache.end /\ request.duty \in Duties
  BY <1>2, <1>3, <1>4
<1> QED BY <1>1, <1>2, <1>4, <1>5, <1>7, <1>8, <1>10, <1>11, <1>12

LEMMA ReadStep ==
  ASSUME PlantInv, Read
  PROVE  PlantInv'
<1> USE DEF PlantInv
<1> DEFINE seen == ValueAt(cache, Target)
<1>1. PICK negative \in BOOLEAN :
        plant' = [plant EXCEPT !.time = Target, !.duty = request.duty, !.state = seen,
                               !.seen = seen, !.reverse = negative]
  BY DEF Read
<1>2. /\ driven' = Drives /\ request' = NoRequest /\ Reading
      /\ UNCHANGED <<kind, cache, lastFailure, saved, asked, torn>> /\ UNCHANGED simulatorVars
  BY DEF Read
<1>3. /\ SimulatorTypeOK' /\ CallOK' /\ DirectoryOK'
      /\ UNCHANGED <<stage, leaving, dirs, calls, evidence, outcome>>
  BY <1>2, SimulatorStays
<1>4. /\ Target \in 0 .. MaxTime /\ request.duty \in Duties
      /\ cache # NoCache /\ cache.start <= Target /\ Target <= cache.end
      /\ seen \in Seq(Drive) /\ Len(seen) = Len(cache.table) - (cache.end - Target)
      /\ \A i \in 1 .. Len(seen) : seen[i] = cache.table[i]
      /\ Drives \in Seq(Drive)
  BY <1>2, ReadTable
<1>5. ~torn => seen = Drives
  BY <1>2, ReadTable
<1> HIDE DEF seen
<1>6. /\ plant' \in PlantType /\ plant'.time = Target /\ plant'.state = seen
      /\ plant'.input = plant.input
  BY <1>1, <1>4 DEF PlantTypeInv, PlantType
<1>7. PlantTypeInv'
  BY <1>2, <1>3, <1>4, <1>6 DEF PlantTypeInv
<1>8. StepOK'
  BY <1>2, <1>3 DEF StepOK, Reading
<1>9. CacheOK'
  BY <1>2, <1>4, <1>6 DEF PlantOK, CacheOK, EndsWith
<1>10. ReadOK' /\ InputOK' /\ SavedOK'
  BY <1>2, <1>6 DEF PlantOK, ReadOK, InputOK, SavedOK
<1>11. TrackOK'
  BY <1>2, <1>4, <1>6 DEF TrackOK, UpTo
<1>12. TrajectoryIsTrue'
  BY <1>2, <1>5, <1>6 DEF TrajectoryIsTrue
<1> QED BY <1>3, <1>7, <1>8, <1>9, <1>10, <1>11, <1>12 DEF PlantOK

LEMMA ReadRefusedStep ==
  ASSUME PlantInv, ReadRefused
  PROVE  PlantInv'
<1> USE DEF PlantInv
<1>1. /\ UNCHANGED <<kind, plant, cache, lastFailure, saved, asked, driven, torn>>
      /\ UNCHANGED simulatorVars /\ request' = NoRequest /\ Reading
  BY DEF ReadRefused
<1>2. /\ SimulatorTypeOK' /\ CallOK' /\ DirectoryOK'
      /\ UNCHANGED <<stage, leaving, dirs, calls, evidence, outcome>>
  BY <1>1, SimulatorStays
<1>3. PlantTypeInv'
  BY <1>1, <1>2 DEF PlantTypeInv
<1>4. StepOK'
  BY <1>1, <1>2 DEF StepOK, Reading
<1>5. PlantOK'
  BY <1>1
  DEF PlantOK, CacheOK, EndsWith, ReadOK, TrackOK, UpTo, InputOK, SavedOK,
      TrajectoryIsTrue
<1> QED BY <1>2, <1>3, <1>4, <1>5

\* An interrupt between the assignments: the time is the target's, the state is
\* not, and the ghost says so.
LEMMA InterruptReadStep ==
  ASSUME PlantInv, InterruptRead
  PROVE  PlantInv'
<1> USE DEF PlantInv
<1>1. /\ UNCHANGED <<kind, cache, lastFailure, saved, asked>>
      /\ UNCHANGED simulatorVars /\ request' = NoRequest /\ Reading
  BY DEF InterruptRead
<1>2. /\ SimulatorTypeOK' /\ CallOK' /\ DirectoryOK'
      /\ UNCHANGED <<stage, leaving, dirs, calls, evidence, outcome>>
  BY <1>1, SimulatorStays
<1>3. StepOK'
  BY <1>1, <1>2 DEF StepOK, Reading
<1>4. CASE UNCHANGED <<plant, driven, torn>>
  <2>1. PlantTypeInv'
    BY <1>1, <1>2, <1>4 DEF PlantTypeInv
  <2>2. PlantOK'
    BY <1>1, <1>4
    DEF PlantOK, CacheOK, EndsWith, ReadOK, TrackOK, UpTo, InputOK, SavedOK,
        TrajectoryIsTrue
  <2> QED BY <1>2, <1>3, <2>1, <2>2
<1>5. CASE plant' = [plant EXCEPT !.time = Target] /\ driven' = Drives /\ torn' = TRUE
  <2>1. /\ Target \in 0 .. MaxTime /\ cache # NoCache /\ cache.start <= Target
        /\ Target <= cache.end /\ Drives \in Seq(Drive)
    BY <1>1, ReadTable
  <2>2. plant' \in PlantType /\ plant'.time = Target /\ plant'.input = plant.input
    BY <1>5, <2>1 DEF PlantTypeInv, PlantType
  <2>3. PlantTypeInv'
    BY <1>1, <1>2, <1>5, <2>1, <2>2 DEF PlantTypeInv
  <2>4. CacheOK' /\ ReadOK' /\ TrackOK' /\ InputOK' /\ SavedOK' /\ TrajectoryIsTrue'
    BY <1>1, <1>5, <2>1, <2>2
    DEF PlantOK, CacheOK, EndsWith, ReadOK, TrackOK, UpTo, InputOK, SavedOK,
        TrajectoryIsTrue
  <2> QED BY <1>2, <1>3, <2>3, <2>4 DEF PlantOK
<1> QED BY <1>4, <1>5 DEF InterruptRead

LEMMA SnapshotStep ==
  ASSUME PlantInv, Snapshot
  PROVE  PlantInv'
<1> USE DEF PlantInv
<1>1. /\ UNCHANGED simulatorVars
      /\ UNCHANGED <<kind, plant, cache, request, lastFailure, asked, driven, torn>>
      /\ saved' = [time |-> plant.time, duty |-> plant.duty, input |-> plant.input,
                   state |-> plant.state, reverse |-> plant.reverse,
                   asked |-> asked, driven |-> driven, torn |-> torn]
  BY DEF Snapshot
<1>2. /\ SimulatorTypeOK' /\ CallOK' /\ DirectoryOK'
      /\ UNCHANGED <<stage, leaving, dirs, calls, evidence, outcome>>
  BY <1>1, SimulatorStays
<1>3. saved' \in SavedType
  BY <1>1 DEF PlantTypeInv, PlantType, SavedType
<1>4. PlantTypeInv' /\ StepOK'
  BY <1>1, <1>2, <1>3 DEF PlantTypeInv, StepOK
<1>5. PlantOK'
  BY <1>1
  DEF PlantOK, CacheOK, EndsWith, ReadOK, TrackOK, UpTo, InputOK, SavedOK,
      TrajectoryIsTrue
<1> QED BY <1>2, <1>4, <1>5

LEMMA RestoreStep ==
  ASSUME PlantInv, Restore
  PROVE  PlantInv'
<1> USE DEF PlantInv
<1>1. /\ UNCHANGED simulatorVars /\ UNCHANGED <<kind, request, lastFailure, saved>>
      /\ request = NoRequest /\ saved # NoSnapshot /\ cache' = NoCache
      /\ plant' = [time |-> saved.time, duty |-> saved.duty, input |-> saved.input,
                   state |-> saved.state, reverse |-> saved.reverse,
                   seen |-> IF kind = "buck" THEN saved.state ELSE plant.seen]
      /\ asked' = saved.asked /\ driven' = saved.driven /\ torn' = saved.torn
  BY DEF Restore, Idle
<1>2. /\ SimulatorTypeOK' /\ CallOK' /\ DirectoryOK'
      /\ UNCHANGED <<stage, leaving, dirs, calls, evidence, outcome>>
  BY <1>1, SimulatorStays
<1>3. plant' \in PlantType /\ asked' \in Inputs /\ driven' \in Seq(Drive) /\ torn' \in BOOLEAN
  BY <1>1 DEF PlantTypeInv, PlantType, SavedType
<1>4. PlantTypeInv' /\ StepOK'
  BY <1>1, <1>2, <1>3 DEF PlantTypeInv, StepOK
<1>5. PlantOK'
  BY <1>1
  DEF PlantOK, CacheOK, ReadOK, TrackOK, UpTo, InputOK, SavedOK,
      TrajectoryIsTrue
<1> QED BY <1>2, <1>4, <1>5

\* A reset and a new object leave the plant at its initial conditions, driven by
\* the input the caller means.
LEMMA StartsAgainStep ==
  ASSUME PlantInv, StartsAgain, NEW u \in Inputs, plant' = Fresh(u), asked' = u
  PROVE  PlantInv'
<1> USE DEF PlantInv
<1>1. /\ UNCHANGED <<stage, leaving, dirs, calls, evidence, kind, request, saved>>
      /\ request = NoRequest /\ stage = "idle" /\ plant' = Fresh(u) /\ cache' = NoCache
      /\ lastFailure' = NoFailure /\ driven' = <<>> /\ torn' = FALSE
      /\ outcome' = "none"
  BY DEF StartsAgain, Idle
<1>2. SimulatorTypeOK' /\ CallOK' /\ DirectoryOK' /\ StepOK'
  BY <1>1
  DEF SimulatorTypeOK, CallOK, DirectoryOK, StepOK, Outcomes,
      SimulationExecutionErrors
<1>3. lastFailure' \in [call : 0 .. calls, keys : SUBSET EvidenceKeys]
  BY <1>1 DEF NoFailure, SimulatorTypeOK
<1>4. PlantTypeInv'
  <2>1. driven' \in Seq(Drive) /\ torn' \in BOOLEAN /\ plant' \in PlantType
    <3>1. driven' \in Seq(Drive) /\ plant' \in PlantType
      BY <1>1, FreshPlant
    <3>2. torn' \in BOOLEAN
      BY <1>1, Zenon
    <3> QED BY <3>1, <3>2
  <2> QED BY <1>1, <1>3, <2>1 DEF PlantTypeInv
<1>5. PlantOK'
  BY <1>1
  DEF PlantOK, CacheOK, ReadOK, TrackOK, UpTo, InputOK, SavedOK,
      TrajectoryIsTrue, Fresh
<1> QED BY <1>2, <1>4, <1>5

LEMMA ResetStep ==
  ASSUME PlantInv, Reset \/ NewPlant
  PROVE  PlantInv'
<1>1. CASE Reset
  <2>1. StartsAgain /\ plant' = Fresh(plant.input) /\ asked' = plant.input
    BY <1>1 DEF Reset, PlantInv, PlantOK, InputOK
  <2>2. plant.input \in Inputs
    BY DEF PlantInv, PlantTypeInv, PlantType
  <2> QED BY <2>1, <2>2, StartsAgainStep
<1>2. CASE NewPlant
  BY <1>2, FirstDrive, StartsAgainStep DEF NewPlant
<1> QED BY <1>1, <1>2

LEMMA InvStep == PlantInv /\ [Next]_vars => PlantInv'
<1> SUFFICES ASSUME PlantInv, [Next]_vars
             PROVE  PlantInv'
  OBVIOUS
<1>1. CASE UNCHANGED vars
  <2>1. UNCHANGED simulatorVars
        /\ UNCHANGED <<kind, plant, cache, request, lastFailure, saved, asked, driven, torn>>
    BY <1>1 DEF vars, plantVars
  <2>2. /\ SimulatorTypeOK' /\ CallOK' /\ DirectoryOK'
        /\ UNCHANGED <<stage, leaving, dirs, calls, evidence, outcome>>
    BY <2>1, SimulatorStays DEF PlantInv
  <2> QED BY <2>1, <2>2 DEF PlantInv, PlantTypeInv, StepOK, PlantOK, CacheOK, EndsWith, ReadOK,
            TrackOK, UpTo, InputOK, SavedOK, TrajectoryIsTrue
<1>2. ASSUME NEW d \in Duties, NEW u \in Inputs \cup {NoInput}, NEW n \in Durations,
             Advance(d, u, n)
      PROVE  PlantInv'
  BY <1>2, AdvanceStep
<1>3. CASE InSimulator \/ InterruptSolve
  BY <1>3, SimulatorStepOrInterrupt
  DEF InSimulator, InterruptSolve, SimulatorMoves
<1> QED BY <1>1, <1>2, <1>3, SolveSucceedsStep, SolveFailsStep, ReadStep, ReadRefusedStep,
          InterruptReadStep, SnapshotStep, RestoreStep, ResetStep DEF Next, Ends

LEMMA InvAlways == Spec => []PlantInv
<1> QED BY InvInit, InvStep, PTL DEF Spec

-----------------------------------------------------------------------------
(* The theorems. *)

\* Times, drives, tables and evidence have their types, a cached table covers its
\* segment, and a step ends within the run.
THEOREM TypeCorrect == Spec => []TypeOK
<1>1. ASSUME PlantInv
      PROVE  TypeOK
  <2>1. \A i \in DOMAIN plant.state : plant.state[i] \in Drive
    BY <1>1 DEF PlantInv, PlantTypeInv, PlantType
  <2> QED BY <1>1, <2>1 DEF PlantInv, PlantTypeInv, PlantOK, CacheOK, EndsWith, TypeOK,
            PlantType
<1> QED BY <1>1, InvAlways, PTL

\* The state is the one that the actions and the inputs the caller asked for lead
\* to, from tables of sound children, whatever steps, failures, resets and resumes
\* came before (advance, _solve_window, snapshot, restore and reset together).
THEOREM NoStaleSegment == Spec => []TrajectoryIsTrue
<1>1. PlantInv => TrajectoryIsTrue
  BY DEF PlantInv, PlantOK
<1> QED BY <1>1, InvAlways, PTL

\* A plant that does not keep its work directories has none left after a failed
\* step, and has the evidence of that very call (NgspiceProcess.run, except and
\* finally, with _run_netlist).
THEOREM EvidenceIsKept ==
  ASSUME KeepArtifacts = FALSE
  PROVE  Spec => []EvidenceOutlivesTheDirectory
<1>1. PlantInv => EvidenceOutlivesTheDirectory
  BY DEF PlantInv, EvidenceOutlivesTheDirectory, Idle, StepOK, CallOK,
     DirectoryOK
<1> QED BY <1>1, InvAlways, PTL

-----------------------------------------------------------------------------
(* A document that is compiled: what is left when nothing refuses. *)

\* A set of places has a first one.
LEMMA LeastOf ==
  ASSUME NEW T \in SUBSET Nat, T # {}
  PROVE  \E n \in T : \A m \in T : ~(m < n)
<1>1. IsWellFoundedOn(OpToRel(<, Nat), Nat)
  BY NatLessThanWellFounded
<1>2. PICK n \in T : \A m \in T : <<m, n>> \notin OpToRel(<, Nat)
  BY <1>1, WFMin
<1> QED BY <1>2 DEF OpToRel

\* Of the places that refuse, one comes before all the others.
LEMMA NoneBefore ==
  ASSUME NEW S \in SUBSET Nat, NEW T \in SUBSET S, T # {}
  PROVE  \E p \in S : p \in T /\ \A q \in S : q < p => q \notin T
<1>1. T \in SUBSET Nat
  OBVIOUS
<1>2. PICK p \in T : \A q \in T : ~(q < p)
  BY <1>1, LeastOf
<1> QED BY <1>1, <1>2

\* Every code is a refusal.
LEMMA CodesRefuse ==
  /\ "invalid_control_declaration" # Accepted /\ "multiple_carriers" # Accepted
  /\ "invalid_parameter" # Accepted /\ "missing_parameter" # Accepted
  /\ "multiple_actuators" # Accepted /\ "no_carrier" # Accepted
  /\ "not_compilable" # Accepted /\ "ambiguous_complementary_control" # Accepted
BY DEF Accepted

\* Two checks in a row accept what each of them accepts.
LEMMA OrElse ==
  ASSUME NEW a, NEW b
  PROVE  (a ?? b) = Accepted <=> a = Accepted /\ b = Accepted
BY DEF ??

\* What is compiled passed the declaration, the carriers and the gates.
LEMMA RefusalParts ==
  ASSUME NEW d, NEW cmd, Refusal(d, cmd) = Accepted
  PROVE  /\ d.control.form = "absent" \/ DeclarationIsRead(d.control)
         /\ CarrierRefusal(d) = Accepted /\ GatesRefusal(d, cmd) = Accepted
BY CodesRefuse DEF Refusal, ??, RefuseIf

\* The places of a list.
LEMMA ListIndices ==
  ASSUME NEW s, Listed(s)
  PROVE  Len(s) \in Nat /\ DOMAIN s = 1 .. Len(s) /\ DOMAIN s \in SUBSET Nat
BY DEF Listed

\* No two carriers of a compiled document drive one net.
LEMMA CarriersApart ==
  ASSUME NEW d, Typed(d), CarrierRefusal(d) = Accepted
  PROVE  \A j, k \in Carriers(d) : CarrierNet(d, j) = CarrierNet(d, k) => j = k
<1> DEFINE Why(k) == NoPort(d, k, "positive")
        ?? RefuseIf(\E j \in Carriers(d) : j < k /\ CarrierNet(d, j) = CarrierNet(d, k),
                  "multiple_carriers")
   S == Carriers(d)
   T == {k \in S : Why(k) # Accepted}
<1>1. S \in SUBSET Nat
  BY ListIndices DEF Carriers, OfKind, Typed
<1>2. FirstRefused(S, Why) = Accepted
  BY DEF CarrierRefusal
<1>3. \A k \in S : Why(k) = Accepted
  <2> SUFFICES ASSUME T # {} PROVE FALSE
    OBVIOUS
  <2>1. \E p \in S : Why(p) # Accepted /\ \A q \in S : q < p => Why(q) = Accepted
    <3> HIDE DEF S, Why
    <3>1. T \in SUBSET S
      OBVIOUS
    <3>2. \E p \in S : p \in T /\ \A q \in S : q < p => q \notin T
      BY <1>1, <3>1, NoneBefore
    <3> QED BY <3>2
  <2> DEFINE first == CHOOSE p \in S : Why(p) # Accepted /\ \A q \in S : q < p => Why(q) = Accepted
  <2>2. Why(first) # Accepted
    <3> HIDE DEF S, Why
    <3> QED BY <2>1
  <2>3. FirstRefused(S, Why) = Why(first)
    <3> HIDE DEF S, Why
    <3> QED BY <2>1 DEF FirstRefused
  <2> QED BY <1>2, <2>2, <2>3
<1>4. \A k \in S : ~ \E j \in S : j < k /\ CarrierNet(d, j) = CarrierNet(d, k)
  BY <1>3, CodesRefuse DEF ??, RefuseIf
<1>5. S \in SUBSET Int
  BY <1>1
<1> HIDE DEF S
<1> QED BY <1>4, <1>5 DEF S

\* A window replaces no carrier's frequency: it is frozen with the document.
KeepsPeriods(overrides) ==
  \A id \in DOMAIN overrides : "switching_frequency_hz" \notin DOMAIN overrides[id]

\* A net with a carrier has one.
LEMMA CarrierOnNet ==
  ASSUME NEW d, NEW net \in CarrierNets(d)
  PROVE  CarrierOn(d, net) \in Carriers(d) /\ CarrierNet(d, CarrierOn(d, net)) = net
<1>1. CarriersOn(d, net) # {}
  BY DEF CarrierNets, CarriersOn
<1>2. CarrierOn(d, net) \in CarriersOn(d, net)
  BY <1>1 DEF CarrierOn
<1> QED BY <1>2 DEF CarriersOn

\* Nothing stands for a frequency that is not stated.
LEMMA FrequencyIsRequired ==
  /\ Parameters["pulse_source"]["switching_frequency_hz"] = Required
  /\ Required.default = Absent /\ Absent.class = "absent"
  /\ Required.nullable = FALSE /\ Required.bound = "positive"
BY DEF Parameters, Required, Param, Absent

\* The frequency a window reads is the document's.
LEMMA StatedPeriod ==
  ASSUME NEW d, NEW cmd, KeepsPeriods(cmd.overrides), NEW k \in Carriers(d)
  PROVE  LET params == d.components[k].params
             stated == Stated(d, cmd, k, "switching_frequency_hz")
         IN  IF "switching_frequency_hz" \in DOMAIN params
             THEN stated = params["switching_frequency_hz"] ELSE stated.class = "absent"
<1> DEFINE params == d.components[k].params
           name == "switching_frequency_hz"
           id == d.components[k].id
           replaced == IF id \in DOMAIN cmd.overrides THEN cmd.overrides[id] ELSE << >>
           view == [n \in DOMAIN replaced \cup DOMAIN params |->
                      IF n \in DOMAIN replaced THEN replaced[n] ELSE params[n]]
<1>1. View(d, cmd, k) = view
  BY DEF View
<1>2. name \notin DOMAIN replaced
  <2>1. CASE id \in DOMAIN cmd.overrides
    BY <2>1 DEF KeepsPeriods
  <2>2. CASE id \notin DOMAIN cmd.overrides
    <3>1. replaced = << >>
      BY <2>2
    <3> HIDE DEF replaced
    <3> QED BY <3>1
  <2> QED BY <2>1, <2>2
<1>3. KindOf(d, k) = "pulse_source"
  BY DEF Carriers, OfKind
<1> HIDE DEF replaced, params
<1>4. name \in DOMAIN view <=> name \in DOMAIN params
  BY <1>2
<1>5. name \in DOMAIN params => view[name] = params[name]
  BY <1>2
<1> HIDE DEF view
<1>6. CASE name \in DOMAIN params
  BY <1>1, <1>4, <1>5, <1>6 DEF Stated, params
<1>7. CASE name \notin DOMAIN params
  BY <1>1, <1>3, <1>4, <1>7, FrequencyIsRequired DEF Stated, params
<1> QED BY <1>6, <1>7 DEF params

\* The period of a gate that is not refused: its carrier's, and positive.
LEMMA PeriodOf ==
  ASSUME NEW d, Typed(d), NEW cmd, KeepsPeriods(cmd.overrides), NEW net \in CarrierNets(d),
         FrequencyRefusal(d, cmd, net) = Accepted
  PROVE  LET k == CarrierOn(d, net)
         IN  /\ Period(d, cmd, net) = d.components[k].params["switching_frequency_hz"].v
             /\ Period(d, cmd, net) \in Nat \ {0}
<1> DEFINE k == CarrierOn(d, net)
           name == "switching_frequency_hz"
           params == d.components[k].params
           stated == Stated(d, cmd, k, name)
<1>1. k \in Carriers(d)
  BY CarrierOnNet
<1>2. KindOf(d, k) = "pulse_source"
  BY <1>1 DEF Carriers, OfKind
<1>3. BadParameter(d, cmd, k, name) = Accepted
  BY DEF FrequencyRefusal
<1> HIDE DEF k
<1>4. stated.class # "absent" /\ WithinBound(Required, stated.v)
  BY <1>2, <1>3, FrequencyIsRequired, CodesRefuse DEF BadParameter, RefuseIf
<1>5. name \in DOMAIN params /\ stated = params[name]
  BY <1>1, <1>4, StatedPeriod
<1>6. stated.v \in Int
  BY <1>1, <1>5 DEF Typed, Carriers, OfKind
<1>7. stated.v > 0
  BY <1>4, <1>6, FrequencyIsRequired DEF WithinBound
<1>8. Period(d, cmd, net) = stated.v
  BY DEF Period, Value, k
<1> HIDE DEF stated
<1>9. stated.v \in Nat \ {0}
  BY <1>6, <1>7
<1> QED BY <1>5, <1>8, <1>9 DEF k

\* Gates that all have a carrier, and one period.
InOnePeriod(d, cmd, nets) ==
  \A net \in nets :
    /\ net \in CarrierNets(d) /\ FrequencyRefusal(d, cmd, net) = Accepted
    /\ \A other \in nets : Period(d, cmd, other) = Period(d, cmd, net)

\* The one gate of a document without a declaration.
LEMMA SingleGates ==
  ASSUME NEW d, Typed(d), NEW cmd, Mode(d) = "single_duty",
         SingleRefusal(d, cmd) = Accepted
  PROVE  InOnePeriod(d, cmd, GateNets(d))
<1> DEFINE switch == CHOOSE c \in Actuators(d) : TRUE
           net == Net(d, switch, "control")
<1>1. /\ Cardinality(Actuators(d)) = 1
      /\ net \in CarrierNets(d) /\ FrequencyRefusal(d, cmd, net) = Accepted
  BY CodesRefuse DEF SingleRefusal, ??, RefuseIf
<1>2. IsFiniteSet(Actuators(d))
  <2>1. Actuators(d) \subseteq 1 .. Len(d.components) /\ Len(d.components) \in Nat
    BY ListIndices DEF Actuators, OfKind, Typed
  <2> QED BY <2>1, FS_Interval, FS_Subset, 1 \in Int, Len(d.components) \in Int
<1>3. PICK a : Actuators(d) = {a}
  BY <1>1, <1>2, FS_Singleton
<1>4. PhaseNets(d) = {net}
  BY <1>3 DEF PhaseNets
<1>5. GateNets(d) = {net}
  BY <1>4 DEF GateNets
<1> HIDE DEF net
<1> QED BY <1>1, <1>5 DEF InOnePeriod

\* The sorted nets are a list.
LEMMA SortedIsListed == ASSUME NEW nets PROVE Listed(SortedNets(nets))
<1> DEFINE places == {n \in DOMAIN Names : Names[n] \in nets}
           count == Cardinality(places)
           Place(i) == CHOOSE n \in places : Cardinality({m \in places : m <= n}) = i
           Item(i) == Names[Place(i)]
<1>1. places \subseteq 1 .. Len(Names) /\ Len(Names) \in Nat
  BY CompileAssumption
<1>2. count \in Nat
  <2>1. IsFiniteSet(places)
    <3> HIDE DEF places
    <3> QED BY <1>1, FS_Interval, FS_Subset, 1 \in Int, Len(Names) \in Int
  <2> HIDE DEF places
  <2> QED BY <2>1, FS_CardinalityType
<1>3. SortedNets(nets) = [i \in 1 .. count |-> Item(i)]
  BY DEF SortedNets
<1> HIDE DEF count, Item
<1> DEFINE s == [i \in 1 .. count |-> Item(i)]
<1>4. s \in Seq({s[i] : i \in DOMAIN s})
  <2>1. \A i \in 1 .. count : s[i] \in {s[j] : j \in DOMAIN s}
    OBVIOUS
  <2>2. s \in [1 .. count -> {s[j] : j \in DOMAIN s}]
    BY <2>1
  <2> HIDE DEF s
  <2> QED BY <1>2, <2>2
<1> QED BY <1>3, <1>4 DEF Listed

\* So is the order of the phases.
LEMMA OrderIsListed == ASSUME NEW d, Typed(d) PROVE Listed(PhaseOrder(d))
BY SortedIsListed DEF PhaseOrder, Typed

\* The gates of interleaved phases are in one period, and each has a place.
LEMMA InterleavedGates ==
  ASSUME NEW d, Typed(d), NEW cmd, Mode(d) = "single_duty_interleaved",
         InterleavedRefusal(d, cmd) = Accepted
  PROVE  /\ InOnePeriod(d, cmd, GateNets(d))
         /\ GateNets(d) = {PhaseOrder(d)[i] : i \in DOMAIN PhaseOrder(d)}
<1> DEFINE order == PhaseOrder(d)
           Ordered == {order[i] : i \in DOMAIN order}
<1>1. /\ Ordered = PhaseNets(d) /\ Ordered \subseteq CarrierNets(d)
      /\ FirstRefused(DOMAIN order, LAMBDA i : FrequencyRefusal(d, cmd, order[i])) = Accepted
      /\ \A i \in DOMAIN order : Period(d, cmd, order[i]) = Period(d, cmd, order[1])
  BY CodesRefuse DEF InterleavedRefusal, ??, RefuseIf
<1>2. \A i \in DOMAIN order : FrequencyRefusal(d, cmd, order[i]) = Accepted
  <2> DEFINE S == DOMAIN order
             Why(i) == FrequencyRefusal(d, cmd, order[i])
             T == {i \in S : Why(i) # Accepted}
  <2>1. S \in SUBSET Nat
    BY OrderIsListed, ListIndices
  <2>2. T # {} => \E p \in S : Why(p) # Accepted /\ \A q \in S : q < p => Why(q) = Accepted
    <3> HIDE DEF S, Why
    <3>1. T \in SUBSET S
      OBVIOUS
    <3>2. T # {} => \E p \in S : p \in T /\ \A q \in S : q < p => q \notin T
      BY <2>1, <3>1, NoneBefore
    <3> QED BY <3>2
  <2>3. FirstRefused(S, Why) = Accepted
    BY <1>1
  <2> HIDE DEF S, Why
  <2>4. \A i \in S : Why(i) = Accepted
    BY <2>2, <2>3 DEF FirstRefused
  <2> QED BY <2>4 DEF S, Why
<1>3. GateNets(d) = Ordered
  BY <1>1 DEF GateNets
<1> HIDE DEF order
<1>4. InOnePeriod(d, cmd, Ordered)
  BY <1>1, <1>2 DEF InOnePeriod
<1> QED BY <1>3, <1>4 DEF order

\* A leg is a pair of gates.
LEMMA LegIsPair ==
  ASSUME NEW d, NEW switches
  PROVE  LET leg == LegOf(d, switches)
         IN  leg = <<leg[1], leg[2]>> /\ DOMAIN leg = {1, 2} /\ Maps!Range(leg) = {leg[1], leg[2]}
<1> DEFINE low == CHOOSE c \in switches : ReachesReference(d, c)
           high == CHOOSE c \in switches : c # low
           a == Net(d, high, "control")  b == Net(d, low, "control")
<1>1. LegOf(d, switches) = <<a, b>>
  BY DEF LegOf
<1> HIDE DEF a, b
<1> QED BY <1>1 DEF Maps!Range

\* Both dead times fit in the cycle.
DeadFits(d, cmd, nets) == \A net \in nets : 2 * d.control.dead.v < Period(d, cmd, net)

\* What the check of the timing leaves.
LEMMA Timed ==
  ASSUME NEW d, NEW cmd, NEW nets, 1 \in DOMAIN nets, TimingRefusal(d, cmd, nets) = Accepted,
         d.control.dead.v \in Int,
         \A i \in DOMAIN nets : Period(d, cmd, nets[i]) \in Int
  PROVE  \A i \in DOMAIN nets : /\ Period(d, cmd, nets[i]) = Period(d, cmd, nets[1])
                                /\ 2 * d.control.dead.v < Period(d, cmd, nets[i])
<1> DEFINE period == Period(d, cmd, nets[1])
           dead == d.control.dead.v
<1>1. /\ \A i \in DOMAIN nets : Period(d, cmd, nets[i]) = period
      /\ ~(2 * dead >= period)
  BY CodesRefuse DEF TimingRefusal, ??, RefuseIf
<1>2. dead \in Int /\ period \in Int
  OBVIOUS
<1>3. 2 * dead < period
  <2> HIDE DEF dead, period
  <2> QED BY <1>1, <1>2
<1> QED BY <1>1, <1>3

\* The two gates of one leg.
LEMMA ComplementaryGates ==
  ASSUME NEW d, Typed(d), NEW cmd, KeepsPeriods(cmd.overrides),
         Mode(d) = "single_duty_complementary", ComplementaryRefusal(d, cmd) = Accepted
  PROVE  InOnePeriod(d, cmd, GateNets(d)) /\ DeadFits(d, cmd, GateNets(d))
<1> DEFINE leg == LegOf(d, Actuators(d))
<1>1. /\ CarrierNets(d) = {leg[1], leg[2]}
      /\ FirstRefused({1, 2}, LAMBDA i : FrequencyRefusal(d, cmd, leg[i])) = Accepted
      /\ TimingRefusal(d, cmd, leg) = Accepted
  BY CodesRefuse DEF ComplementaryRefusal, ??, RefuseIf
<1>2. leg = <<leg[1], leg[2]>> /\ DOMAIN leg = {1, 2} /\ Maps!Range(leg) = {leg[1], leg[2]}
  BY LegIsPair
<1>3. GateNets(d) = {leg[1], leg[2]}
  <2>1. d.control.mode = "single_duty_complementary"
    BY DEF Mode
  <2>2. Legs(d) = <<leg>>
    BY <2>1 DEF Legs
  <2> HIDE DEF leg
  <2>3. Maps!Range(Legs(d)) = {leg}
    BY <2>2 DEF Maps!Range
  <2> QED BY <1>2, <2>3 DEF GateNets
<1>4. \A i \in {1, 2} : FrequencyRefusal(d, cmd, leg[i]) = Accepted
  <2> DEFINE S == {1, 2}
             Why(i) == FrequencyRefusal(d, cmd, leg[i])
             T == {i \in S : Why(i) # Accepted}
  <2>1. S \in SUBSET Nat
    OBVIOUS
  <2>2. T # {} => \E p \in S : Why(p) # Accepted /\ \A q \in S : q < p => Why(q) = Accepted
    <3> HIDE DEF S, Why
    <3>1. T \in SUBSET S
      OBVIOUS
    <3>2. T # {} => \E p \in S : p \in T /\ \A q \in S : q < p => q \notin T
      BY <2>1, <3>1, NoneBefore
    <3> QED BY <3>2
  <2>3. FirstRefused(S, Why) = Accepted
    BY <1>1
  <2> HIDE DEF S, Why
  <2>4. \A i \in S : Why(i) = Accepted
    BY <2>2, <2>3 DEF FirstRefused
  <2> QED BY <2>4 DEF S, Why
<1> HIDE DEF leg
<1>5. \A i \in {1, 2} : leg[i] \in CarrierNets(d)
  BY <1>1
<1>6. \A i \in {1, 2} : Period(d, cmd, leg[i]) \in Nat \ {0}
  BY <1>4, <1>5, PeriodOf
<1>7. d.control.dead.v \in Int
  BY DEF Typed
<1>8. \A i \in {1, 2} : /\ Period(d, cmd, leg[i]) = Period(d, cmd, leg[1])
                        /\ 2 * d.control.dead.v < Period(d, cmd, leg[i])
  <2>1. \A i \in DOMAIN leg : Period(d, cmd, leg[i]) \in Int
    BY <1>2, <1>6
  <2> QED BY <1>1, <1>2, <1>7, <2>1, Timed
<1>9. InOnePeriod(d, cmd, GateNets(d))
  BY <1>3, <1>4, <1>5, <1>8 DEF InOnePeriod
<1>10. DeadFits(d, cmd, GateNets(d))
  BY <1>3, <1>8 DEF DeadFits
<1> QED BY <1>9, <1>10

\* The legs of a declaration, in its order.
LEMMA LegsAreListed ==
  ASSUME NEW d, Typed(d), d.control.mode = "paired_complementary"
  PROVE  /\ Listed(Legs(d)) /\ DOMAIN Legs(d) = DOMAIN d.control.pairs
         /\ \A k \in DOMAIN Legs(d) : Legs(d)[k] = LegOf(d, LegSwitches(d, d.control.pairs[k]))
<1> DEFINE pairs == d.control.pairs
           count == Len(pairs)
           Item(k) == LegOf(d, LegSwitches(d, pairs[k]))
           s == [k \in 1 .. count |-> Item(k)]
<1>1. count \in Nat /\ DOMAIN pairs = 1 .. count
  BY ListIndices DEF Typed
<1>2. Legs(d) = s
  BY <1>1 DEF Legs
<1> HIDE DEF count, Item
<1>3. s \in Seq({s[i] : i \in DOMAIN s})
  <2>1. \A i \in 1 .. count : s[i] \in {s[j] : j \in DOMAIN s}
    OBVIOUS
  <2>2. s \in [1 .. count -> {s[j] : j \in DOMAIN s}]
    BY <2>1
  <2> HIDE DEF s
  <2> QED BY <1>1, <2>2
<1>4. \A k \in DOMAIN s : s[k] = Item(k)
  OBVIOUS
<1>5. DOMAIN s = DOMAIN pairs
  BY <1>1
<1> QED BY <1>2, <1>3, <1>4, <1>5 DEF Listed, Item

\* Both gates of an accepted leg have a carrier.
LEMMA LegAccepted ==
  ASSUME NEW d, NEW cmd, NEW k, LegRefusal(d, cmd, k) = Accepted
  PROVE  LET leg == LegOf(d, LegSwitches(d, d.control.pairs[k]))
         IN  \A i \in {1, 2} : /\ leg[i] \in CarrierNets(d)
                               /\ FrequencyRefusal(d, cmd, leg[i]) = Accepted
<1> DEFINE leg == LegOf(d, LegSwitches(d, d.control.pairs[k]))
           S == {1, 2}
           Why(i) == RefuseIf(leg[i] \notin CarrierNets(d), "no_carrier")
                     ?? FrequencyRefusal(d, cmd, leg[i])
           T == {i \in S : Why(i) # Accepted}
<1>1. S \in SUBSET Nat
  OBVIOUS
<1>2. T # {} => \E p \in S : Why(p) # Accepted /\ \A q \in S : q < p => Why(q) = Accepted
  <2> HIDE DEF S, Why
  <2>1. T \in SUBSET S
    OBVIOUS
  <2>2. T # {} => \E p \in S : p \in T /\ \A q \in S : q < p => q \notin T
    BY <1>1, <2>1, NoneBefore
  <2> QED BY <2>2
<1>3. FirstRefused(S, Why) = Accepted
  BY CodesRefuse, OrElse DEF LegRefusal
<1> HIDE DEF S, Why
<1>4. \A i \in S : Why(i) = Accepted
  BY <1>2, <1>3 DEF FirstRefused
<1> HIDE DEF leg
<1>5. \A i \in S : leg[i] \in CarrierNets(d) /\ FrequencyRefusal(d, cmd, leg[i]) = Accepted
  BY <1>4, CodesRefuse DEF ??, RefuseIf, Why
<1> QED BY <1>5 DEF S, leg

\* Every leg of an accepted declaration is accepted.
LEMMA LegsAccepted ==
  ASSUME NEW d, Typed(d), NEW cmd, PairedRefusal(d, cmd) = Accepted
  PROVE  \A k \in DOMAIN d.control.pairs : LegRefusal(d, cmd, k) = Accepted
<1> DEFINE S == DOMAIN d.control.pairs
           Why(k) == LegRefusal(d, cmd, k)
           T == {i \in S : Why(i) # Accepted}
<1>1. S \in SUBSET Nat
  BY ListIndices DEF Typed
<1>2. T # {} => \E p \in S : Why(p) # Accepted /\ \A q \in S : q < p => Why(q) = Accepted
  <2> HIDE DEF S, Why
  <2>1. T \in SUBSET S
    OBVIOUS
  <2>2. T # {} => \E p \in S : p \in T /\ \A q \in S : q < p => q \notin T
    BY <1>1, <2>1, NoneBefore
  <2> QED BY <2>2
<1>3. FirstRefused(S, Why) = Accepted
  BY OrElse DEF PairedRefusal
<1> HIDE DEF S, Why
<1>4. \A i \in S : Why(i) = Accepted
  BY <1>2, <1>3 DEF FirstRefused
<1> QED BY <1>4 DEF S, Why

\* The gates of paired legs.
LEMMA PairedGates ==
  ASSUME NEW d, Typed(d), NEW cmd, KeepsPeriods(cmd.overrides), DeclarationIsRead(d.control),
         Mode(d) = "paired_complementary", PairedRefusal(d, cmd) = Accepted
  PROVE  InOnePeriod(d, cmd, GateNets(d)) /\ DeadFits(d, cmd, GateNets(d))
<1> DEFINE pairs == d.control.pairs
           legs == Legs(d)
           count == Len(legs)
           nets == [i \in 1 .. 2 * count |-> legs[(i + 1) \div 2][2 - (i % 2)]]
<1>1. TimingRefusal(d, cmd, nets) = Accepted
  BY OrElse DEF PairedRefusal
<1>2. d.control.mode = "paired_complementary"
  BY DEF Mode
<1>3. /\ DOMAIN legs = DOMAIN pairs /\ DOMAIN legs = 1 .. count /\ count \in Nat
      /\ \A k \in DOMAIN legs : legs[k] = LegOf(d, LegSwitches(d, pairs[k]))
  BY <1>2, LegsAreListed, ListIndices
<1>4. \A k \in DOMAIN pairs : LegRefusal(d, cmd, k) = Accepted
  BY LegsAccepted
<1>5. \A k \in 1 .. count : \A i \in {1, 2} :
        legs[k][i] \in CarrierNets(d) /\ FrequencyRefusal(d, cmd, legs[k][i]) = Accepted
  BY <1>3, <1>4, LegAccepted
<1>6. \A k \in 1 .. count :
        DOMAIN legs[k] = {1, 2} /\ Maps!Range(legs[k]) = {legs[k][1], legs[k][2]}
  BY <1>3, LegIsPair
<1>7. GateNets(d) = UNION {{legs[k][1], legs[k][2]} : k \in 1 .. count}
  <2>1. GateNets(d) = UNION {Maps!Range(leg) : leg \in Maps!Range(legs)}
    BY DEF GateNets
  <2>2. Maps!Range(legs) = {legs[k] : k \in 1 .. count}
    BY <1>3 DEF Maps!Range
  <2> HIDE DEF legs, count
  <2> QED BY <1>6, <2>1, <2>2
<1> HIDE DEF legs, count
<1>8. \A k \in 1 .. count : \A i \in {1, 2} : \E j \in DOMAIN nets : nets[j] = legs[k][i]
  <2> SUFFICES ASSUME NEW k \in 1 .. count, NEW i \in {1, 2}
               PROVE  \E j \in DOMAIN nets : nets[j] = legs[k][i]
    OBVIOUS
  <2> DEFINE j == 2 * k - 2 + i
  <2>1. j \in 1 .. 2 * count /\ (j + 1) \div 2 = k /\ 2 - (j % 2) = i
    BY <1>3
  <2> HIDE DEF j
  <2> QED BY <2>1
<1>9. \A j \in DOMAIN nets : \E k \in 1 .. count, i \in {1, 2} : nets[j] = legs[k][i]
  <2> SUFFICES ASSUME NEW j \in 1 .. 2 * count
               PROVE  \E k \in 1 .. count, i \in {1, 2} : nets[j] = legs[k][i]
    OBVIOUS
  <2>1. (j + 1) \div 2 \in 1 .. count /\ 2 - (j % 2) \in {1, 2}
    BY <1>3
  <2> QED BY <2>1
<1>10. \A j \in DOMAIN nets :
         nets[j] \in CarrierNets(d) /\ FrequencyRefusal(d, cmd, nets[j]) = Accepted
  <2> HIDE DEF nets
  <2> QED BY <1>5, <1>9
<1>11. 1 \in DOMAIN nets
  <2>1. pairs # << >>
    BY <1>2 DEF DeclarationIsRead, PairsAreRead
  <2>2. 1 \in DOMAIN pairs
    <3> DEFINE s == d.control.pairs
    <3>1. s \in Seq({s[i] : i \in DOMAIN s}) /\ s # << >>
      BY <2>1 DEF Typed, Listed
    <3> HIDE DEF s
    <3>2. 1 \in DOMAIN s
      BY <3>1
    <3> QED BY <3>2 DEF s
  <2> QED BY <1>3, <2>2
<1>12. d.control.dead.v \in Int
  BY DEF Typed
<1> HIDE DEF nets
<1>13. \A j \in DOMAIN nets : Period(d, cmd, nets[j]) \in Int
  <2>1. \A j \in DOMAIN nets : Period(d, cmd, nets[j]) \in Nat \ {0}
    BY <1>10, PeriodOf
  <2> QED BY <2>1
<1>14. \A j \in DOMAIN nets : /\ Period(d, cmd, nets[j]) = Period(d, cmd, nets[1])
                              /\ 2 * d.control.dead.v < Period(d, cmd, nets[j])
  BY <1>1, <1>11, <1>12, <1>13, Timed
<1>15. \A net \in GateNets(d) : \E j \in DOMAIN nets : net = nets[j]
  BY <1>7, <1>8
<1>16. InOnePeriod(d, cmd, GateNets(d))
  BY <1>10, <1>14, <1>15 DEF InOnePeriod
<1>17. DeadFits(d, cmd, GateNets(d))
  BY <1>14, <1>15 DEF DeadFits
<1> QED BY <1>16, <1>17

\* No carrier of a compiled document is left without a gate.
LEMMA CarriersHaveGates ==
  ASSUME NEW d, Typed(d), NEW cmd, Refusal(d, cmd) = Accepted
  PROVE  \A k \in Carriers(d) : CarrierNet(d, k) \in GateNets(d)
<1> DEFINE S == DOMAIN d.components
           Why(c) == CardRefusal(d, cmd, c)
           T == {i \in S : Why(i) # Accepted}
<1>1. S \in SUBSET Nat
  BY ListIndices DEF Typed
<1>2. T # {} => \E p \in S : Why(p) # Accepted /\ \A q \in S : q < p => Why(q) = Accepted
  <2> HIDE DEF S, Why
  <2>1. T \in SUBSET S
    OBVIOUS
  <2>2. T # {} => \E p \in S : p \in T /\ \A q \in S : q < p => q \notin T
    BY <1>1, <2>1, NoneBefore
  <2> QED BY <2>2
<1>3. FirstRefused(S, Why) = Accepted
  BY CodesRefuse, OrElse DEF Refusal
<1> HIDE DEF S, Why
<1>4. \A c \in S : Why(c) = Accepted
  BY <1>2, <1>3 DEF FirstRefused
<1>5. \A c \in S : ~(c \in Carriers(d) /\ CarrierNet(d, c) \notin GateNets(d))
  BY <1>4, CodesRefuse DEF Why, CardRefusal, ??, RefuseIf
<1>6. Carriers(d) \subseteq S
  BY DEF Carriers, OfKind, S
<1> QED BY <1>5, <1>6

\* The modes that are declared.
Modes == {"single_duty", "single_duty_complementary", "single_duty_interleaved",
          "paired_complementary"}

\* What every compiled document has, whatever its mode.
LEMMA AcceptedGates ==
  ASSUME NEW d, Typed(d), NEW cmd, KeepsPeriods(cmd.overrides), Refusal(d, cmd) = Accepted
  PROVE  /\ Mode(d) \in Modes
         /\ InOnePeriod(d, cmd, GateNets(d))
         /\ Mode(d) = "single_duty_interleaved" =>
              GateNets(d) = {PhaseOrder(d)[i] : i \in DOMAIN PhaseOrder(d)}
         /\ Mode(d) \notin {"single_duty", "single_duty_interleaved"} =>
              DeadFits(d, cmd, GateNets(d)) /\ d.control.dead.v \in Nat
<1>1. /\ d.control.form = "absent" \/ DeclarationIsRead(d.control)
      /\ GatesRefusal(d, cmd) = Accepted
  BY RefusalParts
<1>2. Mode(d) \in Modes
  BY <1>1 DEF Mode, Modes, DeclarationIsRead, AllowedKeys
<1>3. CASE Mode(d) = "single_duty"
  BY <1>1, <1>2, <1>3, SingleGates DEF GatesRefusal
<1>4. CASE Mode(d) = "single_duty_interleaved"
  BY <1>1, <1>2, <1>4, InterleavedGates DEF GatesRefusal
<1>5. ASSUME Mode(d) \in {"single_duty_complementary", "paired_complementary"}
      PROVE  d.control.dead.v \in Nat /\ DeclarationIsRead(d.control)
  <2>1. DeclarationIsRead(d.control) /\ d.control.mode = Mode(d)
    BY <1>1, <1>5 DEF Mode
  <2>2. NoneOrNonNegative(d.control.dead)
    BY <1>5, <2>1 DEF DeclarationIsRead
  <2>3. d.control.dead.v \in Int /\ d.control.dead.class = "absent" => d.control.dead.v = 0
    BY DEF Typed
  <2> QED BY <2>1, <2>2, <2>3 DEF NoneOrNonNegative, Typed
<1>6. CASE Mode(d) = "single_duty_complementary"
  BY <1>1, <1>2, <1>5, <1>6, ComplementaryGates DEF GatesRefusal
<1>7. CASE Mode(d) = "paired_complementary"
  BY <1>1, <1>2, <1>5, <1>7, PairedGates DEF GatesRefusal
<1> QED BY <1>2, <1>3, <1>4, <1>6, <1>7 DEF Modes

\* The delay of a gate is a number of ticks.
LEMMA DelayIsAnInteger ==
  ASSUME NEW d, Typed(d), NEW cmd, KeepsPeriods(cmd.overrides), Refusal(d, cmd) = Accepted,
         NEW net \in GateNets(d), NEW P \in Nat
  PROVE  Delay(d, P, net) \in Int
<1>1. Mode(d) \in Modes
  BY AcceptedGates
<1>2. CASE Mode(d) = "single_duty_interleaved"
  <2> DEFINE order == PhaseOrder(d)
             i == CHOOSE j \in DOMAIN order : order[j] = net
             n == Len(order)
  <2>1. \E j \in DOMAIN order : order[j] = net
    BY <1>2, AcceptedGates
  <2>2. n \in Nat /\ DOMAIN order = 1 .. n
    BY OrderIsListed, ListIndices
  <2>3. i \in DOMAIN order
    <3> HIDE DEF order
    <3> QED BY <2>1
  <2>4. Delay(d, P, net) = ((i - 1) * P) \div n
    BY <1>2 DEF Delay
  <2> HIDE DEF i, n, order
  <2>5. n \in Nat \ {0} /\ (i - 1) * P \in Int
    BY <2>2, <2>3
  <2> QED BY <2>4, <2>5
<1>3. CASE Mode(d) = "paired_complementary"
  <2> DEFINE legs == Legs(d)
             place == PlaceOf(d, net)
  <2>1. d.control.mode = "paired_complementary"
    BY <1>3 DEF Mode
  <2>2. /\ DOMAIN legs \in SUBSET Nat
        /\ \A k \in DOMAIN legs :
             DOMAIN legs[k] = {1, 2} /\ Maps!Range(legs[k]) = {legs[k][1], legs[k][2]}
    BY <2>1, LegsAreListed, LegIsPair, ListIndices
  <2>3. net \in UNION {Maps!Range(leg) : leg \in Maps!Range(legs)}
    BY <1>3 DEF GateNets
  <2> HIDE DEF legs
  <2>4. PICK k \in DOMAIN legs : net \in Maps!Range(legs[k])
    BY <2>3 DEF Maps!Range
  <2>5. \E m \in Members(legs) : legs[m[1]][m[2]] = net
    <3>1. PICK i \in {1, 2} : net = legs[k][i]
      BY <2>2, <2>4
    <3>2. <<k, i>> \in Members(legs)
      BY DEF Members
    <3> QED BY <3>1, <3>2
  <2>6. place \in Members(legs)
    BY <2>5 DEF PlaceOf, legs
  <2>7. place[1] \in Int
    BY <2>2, <2>6 DEF Members
  <2>8. d.control.shift.v \in Int
    BY DEF Typed
  <2>9. Delay(d, P, net) = (place[1] - 1) * d.control.shift.v
    BY <1>3 DEF Delay
  <2> DEFINE shift == d.control.shift.v
  <2> HIDE DEF place, shift
  <2>10. (place[1] - 1) * shift \in Int
    BY <2>7, <2>8 DEF shift
  <2> QED BY <2>9, <2>10 DEF shift
<1>4. CASE Mode(d) \in {"single_duty", "single_duty_complementary"}
  BY <1>4 DEF Delay
<1> QED BY <1>1, <1>2, <1>3, <1>4 DEF Modes

-----------------------------------------------------------------------------
(* The arithmetic of a cycle. *)

\* Division with remainder, by a positive number.
LEMMA Divided ==
  ASSUME NEW P \in Nat \ {0}, NEW a \in Int
  PROVE  a % P \in 0 .. P - 1 /\ a = P * (a \div P) + (a % P) /\ a \div P \in Int
OBVIOUS

\* The remainder is the only one.
LEMMA Remainder ==
  ASSUME NEW P \in Nat \ {0}, NEW a \in Int, NEW k \in Int, NEW r \in 0 .. P - 1,
         a = k * P + r
  PROVE  a % P = r
OBVIOUS

\* Whole cycles do not count.
LEMMA Congruent ==
  ASSUME NEW P \in Nat \ {0}, NEW x \in Int, NEW y \in Int, NEW k \in Int, y = x + k * P
  PROVE  y % P = x % P
<1> DEFINE m == x \div P  r == x % P
<1>1. m \in Int /\ r \in 0 .. P - 1 /\ x = m * P + r
  BY Divided
<1> HIDE DEF m, r
<1>2. m + k \in Int /\ y = (m + k) * P + r
  BY <1>1
<1>3. y % P = r
  BY <1>1, <1>2, Remainder
<1> QED BY <1>3 DEF r

\* One cycle back at most.
LEMMA OneTurn ==
  ASSUME NEW P \in Nat \ {0}, NEW a \in Int, a \in -P .. P - 1
  PROVE  a % P = IF a < 0 THEN a + P ELSE a
<1>1. CASE a < 0
  <2>1. a = (-1) * P + (a + P) /\ a + P \in 0 .. P - 1
    BY <1>1
  <2> QED BY <2>1, <1>1, Remainder
<1>2. CASE a >= 0
  BY <1>2
<1> QED BY <1>1, <1>2

\* One rendered gate, wherever in its cycle a window begins: the periodic source
\* and the rest of the pulse that began before are the interval of the cycle.
LEMMA PulseIsOn ==
  ASSUME NEW P \in Nat \ {0}, NEW start \in Nat, NEW stop \in Int, stop <= P,
         NEW q \in 0 .. P - 1, NEW u \in Nat
  PROVE  LET cycle == (q + u) % P
         IN  IsOn(RenderedGate(start, stop, q, P), P, u) <=> start <= cycle /\ cycle < stop
<1> DEFINE gate == RenderedGate(start, stop, q, P)
           cycle == (q + u) % P
           first == (start - q) % P
           tail == IF start < q /\ q < stop THEN stop - q ELSE 0
           pulse == u >= first /\ (u - first) % P < stop - start
<1> SUFFICES IsOn(gate, P, u) <=> start <= cycle /\ cycle < stop
  OBVIOUS
<1>1. /\ gate.off = (stop <= start) /\ gate.first = first
      /\ gate.width = stop - start /\ gate.tail = tail
  BY Zenon DEF RenderedGate
<1>2. IsOn(gate, P, u) <=> ~(stop <= start) /\ (pulse \/ u < tail)
  <2> HIDE DEF gate, first, tail
  <2> QED BY <1>1 DEF IsOn
<1>3. cycle \in 0 .. P - 1
  BY Divided
<1>4. CASE stop <= start
  <2> HIDE DEF cycle
  <2> QED BY <1>2, <1>3, <1>4
<1>5. CASE start < stop
  <2>1. first = IF start < q THEN start - q + P ELSE start - q
    <3>1. start - q \in -P .. P - 1
      BY <1>5
    <3> QED BY <3>1, OneTurn
  <2>2. (u - first) % P = IF cycle < start THEN cycle - start + P ELSE cycle - start
    <3>1. (u - first) % P = (u - (start - q)) % P
      <4> DEFINE a == start - q  m == a \div P  x == u - first  y == u - a
      <4>1. a \in Int /\ m \in Int /\ first \in Int /\ a = m * P + first
        BY Divided
      <4>2. x \in Int /\ y \in Int
        <5> HIDE DEF a, first
        <5> QED BY <4>1
      <4>3. x = y + m * P
        <5> HIDE DEF a, m, first
        <5> QED BY <4>1
      <4>4. x % P = y % P
        <5> HIDE DEF m, x, y
        <5> QED BY <4>1, <4>2, <4>3, Congruent
      <4> QED BY <4>4
    <3>2. u - (start - q) = (q + u) + (- start)
      OBVIOUS
    <3>3. ((q + u) + (- start)) % P = (cycle + (- start)) % P
      <4> DEFINE a == q + u  m == a \div P  x == cycle + (- start)  y == a + (- start)
      <4>1. a \in Int /\ m \in Int /\ cycle \in Int /\ a = m * P + cycle
        BY Divided
      <4>2. x \in Int /\ y \in Int
        <5> HIDE DEF a, cycle
        <5> QED BY <4>1
      <4>3. y = x + m * P
        <5> HIDE DEF a, m, cycle
        <5> QED BY <4>1
      <4>4. y % P = x % P
        <5> HIDE DEF m, x, y
        <5> QED BY <4>1, <4>2, <4>3, Congruent
      <4> QED BY <4>4
    <3>4. (cycle + (- start)) % P
            = IF cycle + (- start) < 0 THEN cycle + (- start) + P ELSE cycle + (- start)
      <4> HIDE DEF cycle
      <4>1. cycle + (- start) \in -P .. P - 1
        BY <1>3, <1>5
      <4> QED BY <4>1, OneTurn
    <3> HIDE DEF cycle, first
    <3> QED BY <1>3, <3>1, <3>2, <3>3, <3>4
  <2>3. /\ q + u < P => cycle = q + u
        /\ P <= q + u /\ u < first => cycle = q + u - P
    <3>1. ASSUME q + u < P PROVE cycle = q + u
      BY <3>1, q + u \in 0 .. P - 1
    <3>2. ASSUME P <= q + u, u < first PROVE cycle = q + u - P
      <4>1. q + u - P \in 0 .. P - 1 /\ q + u = 1 * P + (q + u - P) /\ q + u \in Int
        <5> HIDE DEF first
        <5> QED BY <1>5, <2>1, <3>2
      <4> QED BY <4>1, Remainder
    <3> QED BY <3>1, <3>2
  <2> HIDE DEF gate, first, cycle
  <2>4. CASE u >= first
    <3>1. pulse <=> start <= cycle /\ cycle < stop
      BY <1>3, <1>5, <2>2, <2>4
    <3>2. u < tail => start <= cycle /\ cycle < stop
      BY <1>3, <1>5, <2>3
    <3> HIDE DEF tail
    <3> QED BY <1>2, <1>5, <2>4, <3>1, <3>2
  <2>5. CASE u < first
    <3>1. u < tail <=> start <= cycle /\ cycle < stop
      BY <1>3, <1>5, <2>1, <2>3, <2>5
    <3> QED BY <1>2, <1>5, <2>1, <2>5, <3>1
  <2> QED BY <2>1, <2>4, <2>5
<1> QED BY <1>4, <1>5

\* The phase the executor hands over keeps the cycle: a window that begins at
\* from continues where the run is, for any delay of the net.
LEMMA WindowCycle ==
  ASSUME NEW P \in Nat \ {0}, NEW from \in Nat, NEW D \in Int, NEW u \in Nat
  PROVE  LET q == ((from % P) - D) % P
         IN  q \in 0 .. P - 1 /\ (q + u) % P = ((from + u) - D) % P
<1> DEFINE f == from % P  m == from \div P  a == f - D  q == a % P  n == a \div P
           x == q + u  y == (from + u) - D  k == m + n
<1>1. f \in Int /\ m \in Int /\ from = m * P + f
  BY Divided
<1>2. a \in Int
  <2> HIDE DEF f
  <2> QED BY <1>1
<1>3. q \in 0 .. P - 1 /\ n \in Int /\ a = n * P + q
  <2> HIDE DEF a
  <2> QED BY <1>2, Divided
<1>4. x \in Int /\ y \in Int /\ k \in Int
  <2> HIDE DEF q, m, n
  <2> QED BY <1>1, <1>3
<1>5. y = x + k * P
  <2> DEFINE mp == m * P  np == n * P
  <2>1. k * P = mp + np
    <3> HIDE DEF m, n
    <3> QED BY <1>1, <1>3
  <2>2. mp \in Int /\ np \in Int /\ from = mp + f /\ a = np + q
    <3> HIDE DEF m, n, f, q, a
    <3> QED BY <1>1, <1>3
  <2>3. a = f - D
    OBVIOUS
  <2> HIDE DEF mp, np, k, f, q, a
  <2> QED BY <1>1, <1>3, <2>1, <2>2, <2>3
<1>6. y % P = x % P
  <2> HIDE DEF x, y, k
  <2> QED BY <1>4, <1>5, Congruent
<1> QED BY <1>3, <1>6

\* A pulse is no longer than the cycle.
LEMMA WidthBounds ==
  ASSUME NEW P \in Nat \ {0}, NEW duty \in 0 .. DutyScale
  PROVE  Width(P, duty) \in 0 .. P
<1>1. DutyScale \in Nat \ {0}
  BY CompileAssumption
<1> DEFINE a == duty * P  m == a \div DutyScale  r == a % DutyScale
<1>2. a \in Nat /\ a <= DutyScale * P
  BY <1>1
<1>3. m \in Int /\ r \in 0 .. DutyScale - 1 /\ a = DutyScale * m + r
  <2> HIDE DEF a
  <2> QED BY <1>1, <1>2, Divided
<1>4. Width(P, duty) = m
  BY DEF Width
<1> HIDE DEF a, m, r
<1>5. ~(m > P)
  <2> SUFFICES ASSUME m >= P + 1 PROVE FALSE
    BY <1>3
  <2>1. DutyScale * m >= DutyScale * (P + 1)
    BY <1>1, <1>3
  <2>2. DutyScale * (P + 1) = DutyScale * P + DutyScale
    BY <1>1
  <2> QED BY <1>1, <1>2, <1>3, <2>1, <2>2
<1>6. ~(m < 0)
  <2> SUFFICES ASSUME m <= -1 PROVE FALSE
    BY <1>3
  <2>1. DutyScale * m <= DutyScale * (-1)
    BY <1>1, <1>3
  <2> QED BY <1>1, <1>2, <1>3, <2>1
<1> QED BY <1>3, <1>4, <1>5, <1>6

\* The larger of two.
LEMMA MaxOfTwo ==
  ASSUME NEW a \in Int, NEW b \in Int
  PROVE  Sets!Max({a, b}) = IF a >= b THEN a ELSE b
<1> DEFINE m == IF a >= b THEN a ELSE b
           IsMax(x) == \A y \in {a, b} : x >= y
<1>1. m \in {a, b} /\ IsMax(m) /\ \A x \in {a, b} : IsMax(x) => x = m
  OBVIOUS
<1>2. Sets!Max({a, b}) = CHOOSE x \in {a, b} : IsMax(x)
  BY DEF Sets!Max
<1> HIDE DEF m, IsMax
<1>3. (CHOOSE x \in {a, b} : IsMax(x)) = m
  BY <1>1
<1> QED BY <1>2, <1>3 DEF m

-----------------------------------------------------------------------------
(* One window of a circuit, and the theorem about all of them. *)

\* The executor reads the period off the first carrier.
LEMMA FirstCarrier ==
  ASSUME NEW d, Typed(d), Carriers(d) # {}
  PROVE  Sets!Min(Carriers(d)) \in Carriers(d)
<1> DEFINE S == Carriers(d)
<1>1. S \in SUBSET Nat
  BY ListIndices DEF Carriers, OfKind, Typed
<1> HIDE DEF S
<1>2. \E n \in S : \A m \in S : n <= m
  <2>1. S # {}
    BY DEF S
  <2>2. PICK n \in S : \A m \in S : ~(m < n)
    BY <1>1, <2>1, LeastOf
  <2>3. \A m \in S : n \in Nat /\ m \in Nat
    BY <1>1
  <2> QED BY <2>2, <2>3
<1>3. Sets!Min(S) \in S
  BY <1>2 DEF Sets!Min
<1> QED BY <1>3 DEF S

\* The gates of a compiled document share the period that the executor, which
\* knows nothing of gates, reads off the first carrier to place the window.
LEMMA OneCycle ==
  ASSUME NEW d, Typed(d), NEW cmd, KeepsPeriods(cmd.overrides), Refusal(d, cmd) = Accepted,
         GateNets(d) # {}
  PROVE  /\ CyclePeriod(d, cmd) \in Nat \ {0}
         /\ \A net \in GateNets(d) : Period(d, cmd, net) = CyclePeriod(d, cmd)
         /\ \A t \in Nat : PhaseAt(d, t) = t % CyclePeriod(d, cmd)
<1> DEFINE P == CyclePeriod(d, cmd)
           gate == CHOOSE net \in GateNets(d) : TRUE
           k == Sets!Min(Carriers(d))
           first == CarrierNet(d, k)
<1>1. InOnePeriod(d, cmd, GateNets(d))
  BY AcceptedGates
<1>2. gate \in GateNets(d) /\ P = Period(d, cmd, gate)
  BY DEF CyclePeriod
<1> HIDE DEF P, gate
<1>3. gate \in CarrierNets(d) /\ FrequencyRefusal(d, cmd, gate) = Accepted
  BY <1>1, <1>2 DEF InOnePeriod
<1>4. P \in Nat \ {0}
  BY <1>2, <1>3, PeriodOf
<1>5. \A net \in GateNets(d) : Period(d, cmd, net) = P
  BY <1>1, <1>2 DEF InOnePeriod
<1>6. Carriers(d) # {}
  BY <1>3 DEF CarrierNets
<1>7. k \in Carriers(d)
  BY <1>6, FirstCarrier
<1> HIDE DEF k
<1>8. first \in GateNets(d)
  BY <1>7, CarriersHaveGates
<1>9. first \in CarrierNets(d) /\ FrequencyRefusal(d, cmd, first) = Accepted
  BY <1>1, <1>8 DEF InOnePeriod
<1>10. CarrierOn(d, first) = k
  <2>1. CarrierOn(d, first) \in Carriers(d) /\ CarrierNet(d, CarrierOn(d, first)) = first
    BY <1>9, CarrierOnNet
  <2>2. CarrierRefusal(d) = Accepted
    BY RefusalParts
  <2> QED BY <1>7, <2>1, <2>2, CarriersApart
<1> HIDE DEF first
<1>11. P = d.components[k].params["switching_frequency_hz"].v
  BY <1>5, <1>8, <1>9, <1>10, PeriodOf
<1>12. \A t \in Nat : PhaseAt(d, t) = IF t = 0 THEN 0 ELSE t % P
  BY <1>11 DEF PhaseAt, k
<1>13. 0 % P = 0
  BY <1>4
<1>14. \A t \in Nat : PhaseAt(d, t) = t % P
  BY <1>12, <1>13
<1> QED BY <1>4, <1>5, <1>14 DEF P

\* The clamped intervals of a leg are the declared ones.
LEMMA IntervalIsOn ==
  ASSUME NEW P \in Nat \ {0}, NEW on \in 0 .. P, NEW dead \in Nat, NEW cycle \in 0 .. P - 1
  PROVE  LET high == Sets!Max({0, on - dead})
         IN  /\ high \in 0 .. P /\ high + dead \in Nat
             /\ cycle < high <=> cycle < on - dead
             /\ cycle >= high + dead <=> cycle >= Sets!Max({on, dead})
<1>1. Sets!Max({0, on - dead}) = IF 0 >= on - dead THEN 0 ELSE on - dead
  BY MaxOfTwo
<1>2. Sets!Max({on, dead}) = IF on >= dead THEN on ELSE dead
  BY MaxOfTwo
<1> QED BY <1>1, <1>2

\* What a document declares of a gate at an instant.
DeclaredIn(d, P, duty, net, t) ==
  LET on == (duty * P) \div DutyScale
      dead == d.control.dead.v
      cycle == (t - Delay(d, P, net)) % P
  IN  IF Mode(d) \in {"single_duty", "single_duty_interleaved"} THEN cycle < on
      ELSE IF PlaceOf(d, net)[2] = 1 THEN cycle < on - dead
      ELSE cycle >= Sets!Max({on, dead}) /\ cycle < P - dead

\* One gate of one window, in every mode, is on when it is declared to be.
LEMMA GateIsDeclared ==
  ASSUME NEW d, Typed(d), NEW cmd, KeepsPeriods(cmd.overrides), Refusal(d, cmd) = Accepted,
         NEW from \in Nat, cmd.phase = PhaseAt(d, from), cmd.duty \in 0 .. DutyScale,
         NEW net \in GateNets(d), NEW u \in Nat
  PROVE  LET P == CyclePeriod(d, cmd)
         IN  IsOn(Gate(d, cmd, P, net), P, u) <=> DeclaredIn(d, P, cmd.duty, net, from + u)
<1> DEFINE P == CyclePeriod(d, cmd)
           on == Width(P, cmd.duty)
           dead == d.control.dead.v
           D == Delay(d, P, net)
           cycle == ((from + u) - D) % P
           q == (cmd.phase - D) % P
           start == Interval(d, cmd, P, net)[1]
           stop == Interval(d, cmd, P, net)[2]
           high == Sets!Max({0, on - dead})
<1>0. DeclaredIn(d, P, cmd.duty, net, from + u)
        <=> IF Mode(d) \in {"single_duty", "single_duty_interleaved"} THEN cycle < on
            ELSE IF PlaceOf(d, net)[2] = 1 THEN cycle < on - dead
            ELSE cycle >= Sets!Max({on, dead}) /\ cycle < P - dead
  BY Zenon DEF DeclaredIn, Width
<1>1. P \in Nat \ {0} /\ cmd.phase = from % P
  BY OneCycle
<1> HIDE DEF P
<1>2. on \in 0 .. P
  BY <1>1, WidthBounds
<1>3. D \in Int
  BY <1>1, DelayIsAnInteger
<1> HIDE DEF on, D
<1>4. q \in 0 .. P - 1 /\ (q + u) % P = cycle
  <2> DEFINE r == ((from % P) - D) % P
  <2>1. r \in 0 .. P - 1 /\ (r + u) % P = cycle
    BY <1>1, <1>3, WindowCycle
  <2>2. q = r
    BY <1>1
  <2> HIDE DEF q, r, cycle
  <2> QED BY <2>1, <2>2
<1>5. cycle \in 0 .. P - 1
  <2>1. (from + u) - D \in Int
    BY <1>3
  <2> QED BY <1>1, <2>1, Divided
<1>6. Gate(d, cmd, P, net) = RenderedGate(start, stop, q, P)
  BY DEF Gate, D
<1> HIDE DEF q, cycle
<1>7. ASSUME start \in Nat, stop \in Int, stop <= P
      PROVE  IsOn(Gate(d, cmd, P, net), P, u) <=> start <= cycle /\ cycle < stop
  <2> HIDE DEF start, stop
  <2> QED BY <1>1, <1>4, <1>6, <1>7, PulseIsOn
<1>8. CASE Mode(d) \in {"single_duty", "single_duty_interleaved"}
  <2>1. start = 0 /\ stop = on
    BY <1>8 DEF Interval, on
  <2> HIDE DEF start, stop
  <2>2. IsOn(Gate(d, cmd, P, net), P, u) <=> 0 <= cycle /\ cycle < on
    BY <1>1, <1>2, <1>7, <2>1
  <2> QED BY <1>0, <1>5, <1>8, <2>2 DEF P
<1>9. CASE Mode(d) \notin {"single_duty", "single_duty_interleaved"}
  <2>1. dead \in Nat /\ DeadFits(d, cmd, GateNets(d))
    BY <1>9, AcceptedGates
  <2> HIDE DEF dead
  <2>2. /\ high \in 0 .. P /\ high + dead \in Nat
        /\ cycle < high <=> cycle < on - dead
        /\ cycle >= high + dead <=> cycle >= Sets!Max({on, dead})
    BY <1>1, <1>2, <1>5, <2>1, IntervalIsOn
  <2>3. HighWidth(d, cmd, P) = high
    BY DEF HighWidth, on, dead
  <2> HIDE DEF high
  <2>4. CASE PlaceOf(d, net)[2] = 1
    <3>1. start = 0 /\ stop = high
      BY <1>9, <2>3, <2>4 DEF Interval, LegInterval
    <3> HIDE DEF start, stop
    <3>2. IsOn(Gate(d, cmd, P, net), P, u) <=> 0 <= cycle /\ cycle < high
      BY <1>1, <1>7, <2>2, <3>1
    <3>3. IsOn(Gate(d, cmd, P, net), P, u) <=> cycle < on - dead
      BY <1>5, <2>2, <3>2
    <3> QED BY <1>0, <1>9, <2>4, <3>3 DEF P
  <2>5. CASE PlaceOf(d, net)[2] # 1
    <3>1. start = high + dead /\ stop = P - dead
      BY <1>9, <2>3, <2>5 DEF Interval, LegInterval, dead
    <3> HIDE DEF start, stop
    <3>2. start \in Nat /\ stop \in Int /\ stop <= P
      BY <1>1, <2>1, <2>2, <3>1
    <3>3. IsOn(Gate(d, cmd, P, net), P, u) <=> high + dead <= cycle /\ cycle < P - dead
      BY <1>7, <3>1, <3>2
    <3>4. high + dead <= cycle <=> cycle >= high + dead
      BY <1>5, <2>2
    <3> QED BY <1>0, <1>9, <2>2, <2>5, <3>3, <3>4 DEF P
  <2> QED BY <2>4, <2>5
<1> QED BY <1>8, <1>9

\* The inductive invariant: the window at hand was compiled from the document at
\* hand, without a refusal, with the carrier where the window began.
CircuitInv ==
  /\ time \in Nat
  /\ window.outcome # "unsolved" => doc # NoDocument
  /\ WasSolved =>
       /\ window.from \in Nat /\ window.span \in Nat
       /\ window.command.duty \in CommandedDuties
       /\ KeepsPeriods(window.command.overrides)
       /\ window.command.phase = PhaseAt(doc, window.from)
       /\ Refusal(doc, window.command) = Accepted
       /\ window.circuit = Compiled(doc, window.command)

\* Solving a window keeps it.
LEMMA SolveKeepsCircuitInv ==
  ASSUME CircuitInv, NEW duty \in CommandedDuties, NEW span \in Spans,
         NEW overrides \in Overrides, Solve(duty, span, overrides)
  PROVE  CircuitInv'
<1> DEFINE command == [ duty |-> duty,
                        phase |-> PhaseAt(doc, time),
                        initial |-> IF time = 0 THEN {} ELSE Stateful(doc),
                        overrides |-> overrides ]
           code == Refusal(doc, command)
<1>1. /\ Buildable(doc) /\ doc' = doc
      /\ IF code # Accepted
         THEN window' = Refused(code) /\ time' = time
         ELSE /\ window' = SolvedWindow(time, span, command, Compiled(doc, command))
              /\ time' = time + span
  BY DEF Solve
<1>2. command.duty = duty /\ command.phase = PhaseAt(doc, time) /\ command.overrides = overrides
  OBVIOUS
<1> HIDE DEF command
<1>3. doc' # NoDocument
  BY <1>1 DEF Buildable, NoDocument
<1>4. span \in Nat /\ KeepsPeriods(overrides) /\ time \in Nat
  BY CircuitAssumption DEF KeepsPeriods, CircuitInv
<1>5. CASE code # Accepted
  <2>1. time' = time /\ window'.outcome = "refused"
    BY <1>1, <1>5 DEF Refused
  <2> QED BY <1>3, <1>4, <2>1 DEF CircuitInv, WasSolved
<1>6. CASE code = Accepted
  <2> DEFINE circuit == Compiled(doc, command)
  <2>1. time' = time + span /\ window' = SolvedWindow(time, span, command, circuit)
    BY <1>1, <1>6
  <2> HIDE DEF circuit
  <2>2. /\ window'.from = time /\ window'.span = span /\ window'.command = command
        /\ window'.circuit = circuit
    BY <2>1 DEF SolvedWindow
  <2>3. time' \in Nat
    BY <1>4, <2>1
  <2> QED BY <1>1, <1>2, <1>3, <1>4, <1>6, <2>2, <2>3 DEF CircuitInv, circuit
<1> QED BY <1>5, <1>6

\* So it always holds.
LEMMA CircuitInvariant == CircuitSpec => []CircuitInv
<1>1. CircuitInit => CircuitInv
  BY DEF CircuitInit, CircuitInv, Unsolved, WasSolved
<1>2. CircuitInv /\ [CircuitNext]_circuitVars => CircuitInv'
  <2> SUFFICES ASSUME CircuitInv, [CircuitNext]_circuitVars PROVE CircuitInv'
    OBVIOUS
  <2>1. ASSUME NEW netlist \in Netlists, Import(netlist) PROVE CircuitInv'
    <3>1. /\ doc = NoDocument /\ window' = window /\ time' = time
      BY <2>1 DEF Import
    <3>2. window.outcome = "unsolved" /\ window'.outcome = "unsolved"
      BY <3>1 DEF CircuitInv
    <3> QED BY <3>1, <3>2 DEF CircuitInv, WasSolved
  <2>2. CASE Edit
    <3>1. window'.outcome = "unsolved" /\ time' = time
      BY <2>2 DEF Edit, Unsolved
    <3> QED BY <3>1 DEF CircuitInv, WasSolved
  <2>3. CASE Validate
    BY <2>3 DEF Validate, CircuitInv, WasSolved
  <2>4. ASSUME NEW duty \in CommandedDuties, NEW span \in Spans, NEW overrides \in Overrides,
               Solve(duty, span, overrides)
        PROVE  CircuitInv'
    BY <2>4, SolveKeepsCircuitInv
  <2>5. CASE UNCHANGED circuitVars
    BY <2>5 DEF circuitVars, CircuitInv, WasSolved
  <2> QED BY <2>1, <2>2, <2>3, <2>4, <2>5 DEF CircuitNext
<1> QED BY <1>1, <1>2, PTL DEF CircuitSpec

\* The gates in the record of a window.
LEMMA GatesAreCompiled ==
  ASSUME NEW d, NEW cmd
  PROVE  LET circuit == Compiled(d, cmd)
         IN  /\ circuit.period = CyclePeriod(d, cmd)
             /\ DOMAIN circuit.gates = GateNets(d)
             /\ \A net \in GateNets(d) :
                  circuit.gates[net] = Gate(d, cmd, circuit.period, net)
<1> DEFINE gates == Gates(d, cmd)
<1>1. /\ Compiled(d, cmd).period = CyclePeriod(d, cmd)
      /\ Compiled(d, cmd).gates = gates
  <2> HIDE DEF gates
  <2> QED BY DEF Compiled, gates
<1>2. gates = [net \in GateNets(d) |-> Gate(d, cmd, CyclePeriod(d, cmd), net)]
  BY DEF Gates
<1> HIDE DEF gates
<1> QED BY <1>1, <1>2

\* However a run is cut into windows, and whatever the duty of each, the gates of
\* every window follow the cycle that the document declares (CircuitPlant._solve_window
\* and circuit_compile._render_gate): for every document whose numbers are numbers
\* and whose lists are lists, every period, duty, dead time, phase shift and window.
THEOREM GatesFollowTheCycle == CircuitSpec => [](Typed(doc) => GateFollowsTheCycle)
<1>1. ASSUME CircuitInv, Typed(doc) PROVE GateFollowsTheCycle
  <2> DEFINE cmd == window.command  P == CyclePeriod(doc, cmd)  circuit == Compiled(doc, cmd)
  <2> SUFFICES ASSUME WasSolved, NEW net \in DOMAIN window.circuit.gates,
                      NEW u \in 0 .. window.span - 1
               PROVE  IsOn(window.circuit.gates[net], window.circuit.period, u)
                        <=> DeclaredOn(net, window.command.duty, window.from + u)
    BY DEF GateFollowsTheCycle
  <2>1. /\ window.from \in Nat /\ window.span \in Nat
        /\ cmd.duty \in CommandedDuties
        /\ KeepsPeriods(cmd.overrides)
        /\ cmd.phase = PhaseAt(doc, window.from)
        /\ Refusal(doc, cmd) = Accepted
        /\ window.circuit = circuit
    BY <1>1 DEF CircuitInv
  <2>2. cmd.duty \in 0 .. DutyScale /\ u \in Nat
    BY <2>1, CircuitAssumption
  <2>3. /\ window.circuit.period = P /\ net \in GateNets(doc)
        /\ window.circuit.gates[net] = Gate(doc, cmd, P, net)
    BY <2>1, GatesAreCompiled
  <2> DEFINE from == window.from
  <2> HIDE DEF cmd, P, circuit, from
  <2>4. IsOn(Gate(doc, cmd, P, net), P, u) <=> DeclaredIn(doc, P, cmd.duty, net, from + u)
    BY <1>1, <2>1, <2>2, <2>3, GateIsDeclared DEF P, from
  <2>5. DeclaredOn(net, cmd.duty, from + u)
          = DeclaredIn(doc, window.circuit.period, cmd.duty, net, from + u)
    BY Zenon DEF DeclaredOn, DeclaredIn
  <2> QED BY <2>3, <2>4, <2>5 DEF cmd, from
<1> QED BY <1>1, CircuitInvariant, PTL

-------------------------------------------------------------------------------
(* A document that is compiled, as the validator reads it. *)

\* The kinds of devices.
DeviceKinds == {"voltage_source", "pulse_source", "inductor", "capacitor", "resistor_load",
          "voltage_controlled_switch", "freewheeling_diode", "averaged_switch"}

\* A kind that is known stands for one of these.
LEMMA KnownKinds == ASSUME NEW device, KnownKind(device) PROVE Canonical(device) \in DeviceKinds
BY DEF KnownKind, Canonical, Devices, DeviceKinds

\* The ports of each kind.
LEMMA DevicePorts ==
  /\ Devices["voltage_source"] = << Port("positive", Electrical, "output"),
                                    Port("negative", ElectricalOrReference, "passive") >>
  /\ Devices["pulse_source"] = << Port("positive", Control, "output"),
                                  Port("negative", ElectricalOrReference, "passive") >>
  /\ Devices["inductor"] = TwoTerminals("input", "output")
  /\ Devices["capacitor"] = TwoTerminals("positive", "negative")
  /\ Devices["resistor_load"] = TwoTerminals("positive", "negative")
  /\ Devices["voltage_controlled_switch"] =
       << Port("input", ElectricalOrReference, "input"),
          Port("output", ElectricalOrReference, "output"), Port("control", Control, "control") >>
  /\ Devices["freewheeling_diode"] = TwoTerminals("anode", "cathode")
  /\ Devices["averaged_switch"] =
       << Port("input", Electrical, "input"),
          Port("output", ElectricalOrReference, "output"), Port("control", Control, "control") >>
BY DEF Devices

\* The parts of a port.
LEMMA PortFields ==
  ASSUME NEW id, NEW nets, NEW direction
  PROVE  /\ Port(id, nets, direction).id = id /\ Port(id, nets, direction).nets = nets
         /\ Port(id, nets, direction).direction = direction
BY DEF Port

\* The ports of a device are told apart by their ids, and the one that drives a
\* control net is that of a carrier.
PortsAreApart(ports) ==
  /\ DOMAIN ports \in SUBSET Nat
  /\ \A i, j \in DOMAIN ports : ports[i].id = ports[j].id => i = j

OnlyDriver(device) ==
  \A i \in DOMAIN Devices[device] :
    ("control" \in Devices[device][i].nets /\ Devices[device][i].direction = "output") =>
      device = "pulse_source" /\ Devices[device][i].id = "positive"

\* So it is for every kind.
LEMMA PortsOfKinds ==
  ASSUME NEW device \in DeviceKinds
  PROVE  PortsAreApart(Devices[device]) /\ OnlyDriver(device)
<1>1. "control" \notin Electrical /\ "control" \notin ElectricalOrReference
  BY DEF Electrical, ElectricalOrReference
<1>2. CASE device = "voltage_source"
  BY <1>1, <1>2, DevicePorts, PortFields DEF PortsAreApart, OnlyDriver
<1>3. CASE device = "pulse_source"
  BY <1>1, <1>3, DevicePorts, PortFields DEF PortsAreApart, OnlyDriver
<1>4. CASE device = "inductor"
  BY <1>1, <1>4, DevicePorts, PortFields
  DEF PortsAreApart, OnlyDriver, TwoTerminals
<1>5. CASE device \in {"capacitor", "resistor_load"}
  BY <1>1, <1>5, DevicePorts, PortFields
  DEF PortsAreApart, OnlyDriver, TwoTerminals
<1>6. CASE device = "voltage_controlled_switch"
  BY <1>1, <1>6, DevicePorts, PortFields DEF PortsAreApart, OnlyDriver
<1>7. CASE device = "freewheeling_diode"
  BY <1>1, <1>7, DevicePorts, PortFields
  DEF PortsAreApart, OnlyDriver, TwoTerminals
<1>8. CASE device = "averaged_switch"
  BY <1>1, <1>8, DevicePorts, PortFields DEF PortsAreApart, OnlyDriver
<1> QED BY <1>2, <1>3, <1>4, <1>5, <1>6, <1>7, <1>8 DEF DeviceKinds

\* A port is found by its id.
LEMMA PortIsSpecified ==
  ASSUME NEW device \in DeviceKinds, NEW i \in DOMAIN Devices[device]
  PROVE  PortSpec(device, Devices[device][i].id) = Devices[device][i]
<1> DEFINE ports == Devices[device]
           k == CHOOSE j \in DOMAIN ports : ports[j].id = ports[i].id
<1>1. PortsAreApart(ports)
  BY PortsOfKinds
<1>2. PortSpec(device, ports[i].id) = ports[k]
  BY DEF PortSpec
<1>3. k \in DOMAIN ports /\ ports[k].id = ports[i].id
  OBVIOUS
<1> HIDE DEF k, ports
<1>4. k = i
  BY <1>1, <1>3 DEF PortsAreApart, ports
<1> QED BY <1>2, <1>4 DEF ports

\* The parameters that must be stated are read, a carrier's frequency with its gate.
LEMMA RequiredAreRead ==
  ASSUME NEW device \in DeviceKinds, NEW name \in RequiredParameters(device)
  PROVE  \/ device = "pulse_source" /\ name = "switching_frequency_hz"
         \/ \E i \in DOMAIN ReadParameters[device] : ReadParameters[device][i] = name
<1>1. name \in DOMAIN Parameters[device] /\ Parameters[device][name].default.class = "absent"
      /\ ~Parameters[device][name].nullable
  BY DEF RequiredParameters, ParameterNames, Absent
<1>2. CASE device = "voltage_source"
  BY <1>1, <1>2 DEF Parameters, ReadParameters
<1>3. CASE device = "pulse_source"
  BY <1>1, <1>3
  DEF Parameters, ReadParameters, Positive, NonNegative, Param, Num
<1>4. CASE device = "inductor"
  BY <1>1, <1>4
  DEF Parameters, ReadParameters, Positive, NonNegative, Param, Num
<1>5. CASE device = "capacitor"
  BY <1>1, <1>5
  DEF Parameters, ReadParameters, Positive, NonNegative, Param, Num
<1>6. CASE device = "resistor_load"
  BY <1>1, <1>6
  DEF Parameters, ReadParameters, Positive, NonNegative, Param, Num
<1>7. CASE device = "voltage_controlled_switch"
  BY <1>1, <1>7
  DEF Parameters, ReadParameters, Positive, NonNegative, Param, Num
<1>8. CASE device = "freewheeling_diode"
  BY <1>1, <1>8
  DEF Parameters, ReadParameters, Positive, NonNegative, Param, Num
<1>9. CASE device = "averaged_switch"
  <2>1. Parameters[device] = << >>
    BY <1>9 DEF Parameters
  <2> QED BY <1>1, <2>1
<1> QED BY <1>2, <1>3, <1>4, <1>5, <1>6, <1>7, <1>8, <1>9 DEF DeviceKinds

\* What the compiler repeats of the structure of a document: every net and every device
\* is one it knows, there is one reference net, and a port binds a device it accepts.
LEMMA DescriptorAccepted ==
  ASSUME NEW d, Typed(d), NEW cmd, Refusal(d, cmd) = Accepted
  PROVE  /\ \A n \in DOMAIN d.nets : d.nets[n].kind \in CompilableNetKinds
         /\ Cardinality(ReferenceNets(d)) = 1
         /\ \A c \in DOMAIN d.components :
              KnownKind(d.components[c].kind) /\ Renderable(KindOf(d, c)) /\ ~WrongPort(d, c)
<1> DEFINE S == DOMAIN d.components
           Known(c) == RefuseIf(~KnownKind(d.components[c].kind) \/ ~Renderable(KindOf(d, c)),
                                "not_compilable")
           Fits(c) == RefuseIf(WrongPort(d, c), "unsupported_net_kind")
           T == {c \in S : Known(c) # Accepted}
           U == {c \in S : Fits(c) # Accepted}
<1>1. DescriptorRefusal(d, cmd) = Accepted
  BY OrElse DEF Refusal
<1>2. /\ RefuseIf(\E n \in DOMAIN d.nets : d.nets[n].kind \notin CompilableNetKinds,
                  "unsupported_net_kind") = Accepted
      /\ RefuseIf(Cardinality(ReferenceNets(d)) # 1, "ambiguous_reference_net") = Accepted
      /\ FirstRefused(S, Known) = Accepted /\ FirstRefused(S, Fits) = Accepted
  <2> DEFINE nets == RefuseIf(\E n \in DOMAIN d.nets : d.nets[n].kind \notin CompilableNetKinds,
                              "unsupported_net_kind")
             reference == RefuseIf(Cardinality(ReferenceNets(d)) # 1, "ambiguous_reference_net")
             known == FirstRefused(S, Known)
             fits == FirstRefused(S, Fits)
             command == RefuseIf(BadCommand(d, cmd), "invalid_parameter")
  <2>1. DescriptorRefusal(d, cmd) = nets ?? reference ?? known ?? fits ?? command
    BY Zenon DEF DescriptorRefusal
  <2> HIDE DEF nets, reference, known, fits, command
  <2>2. nets = Accepted /\ reference = Accepted /\ known = Accepted /\ fits = Accepted
    BY <1>1, <2>1, OrElse
  <2> QED BY <2>2 DEF nets, reference, known, fits
<1>3. "unsupported_net_kind" # Accepted /\ "ambiguous_reference_net" # Accepted
  BY DEF Accepted
<1>4. S \in SUBSET Nat
  BY ListIndices DEF Typed
<1>5. T # {} => \E p \in S : Known(p) # Accepted /\ \A q \in S : q < p => Known(q) = Accepted
  <2> HIDE DEF S, Known
  <2>1. T \in SUBSET S
    OBVIOUS
  <2>2. T # {} => \E p \in S : p \in T /\ \A q \in S : q < p => q \notin T
    BY <1>4, <2>1, NoneBefore
  <2> QED BY <2>2
<1>6. U # {} => \E p \in S : Fits(p) # Accepted /\ \A q \in S : q < p => Fits(q) = Accepted
  <2> HIDE DEF S, Fits
  <2>1. U \in SUBSET S
    OBVIOUS
  <2>2. U # {} => \E p \in S : p \in U /\ \A q \in S : q < p => q \notin U
    BY <1>4, <2>1, NoneBefore
  <2> QED BY <2>2
<1>7. \A c \in S : Known(c) = Accepted
  <2> HIDE DEF S, Known, Fits
  <2> QED BY <1>2, <1>5 DEF FirstRefused
<1>8. \A c \in S : Fits(c) = Accepted
  <2> HIDE DEF S, Known, Fits
  <2> QED BY <1>2, <1>6 DEF FirstRefused
<1> QED BY <1>2, <1>3, <1>7, <1>8, CodesRefuse DEF RefuseIf

\* Every card is accepted.
LEMMA CardsAccepted ==
  ASSUME NEW d, Typed(d), NEW cmd, Refusal(d, cmd) = Accepted, NEW c \in DOMAIN d.components
  PROVE  CardRefusal(d, cmd, c) = Accepted
<1> DEFINE S == DOMAIN d.components
           Why(b) == CardRefusal(d, cmd, b)
           T == {i \in S : Why(i) # Accepted}
<1>1. S \in SUBSET Nat
  BY ListIndices DEF Typed
<1>2. T # {} => \E p \in S : Why(p) # Accepted /\ \A q \in S : q < p => Why(q) = Accepted
  <2> HIDE DEF S, Why
  <2>1. T \in SUBSET S
    OBVIOUS
  <2>2. T # {} => \E p \in S : p \in T /\ \A q \in S : q < p => q \notin T
    BY <1>1, <2>1, NoneBefore
  <2> QED BY <2>2
<1>3. FirstRefused(S, Why) = Accepted
  BY CodesRefuse, OrElse DEF Refusal
<1> HIDE DEF S, Why
<1>4. \A b \in S : Why(b) = Accepted
  BY <1>2, <1>3 DEF FirstRefused
<1> QED BY <1>4 DEF S, Why

\* Every port of its kind is there.
LEMMA PortsAreThere ==
  ASSUME NEW d, Typed(d), NEW cmd, Refusal(d, cmd) = Accepted, NEW c \in DOMAIN d.components,
         NEW id \in PortIds(KindOf(d, c))
  PROVE  PortsNamed(d, c, id) # {}
<1> DEFINE device == KindOf(d, c)
           ids == [i \in DOMAIN Devices[device] |-> Devices[device][i].id]
           S == DOMAIN ids
           Why(i) == NoPort(d, c, ids[i])
           T == {i \in S : Why(i) # Accepted}
<1>1. device \in DeviceKinds
  BY DescriptorAccepted, KnownKinds DEF KindOf
<1>2. DOMAIN Devices[device] \in SUBSET Nat
  BY <1>1, PortsOfKinds DEF PortsAreApart
<1> HIDE DEF device
<1>3. S \in SUBSET Nat
  BY <1>2
<1>4. T # {} => \E p \in S : Why(p) # Accepted /\ \A q \in S : q < p => Why(q) = Accepted
  <2> HIDE DEF S, Why
  <2>1. T \in SUBSET S
    OBVIOUS
  <2>2. T # {} => \E p \in S : p \in T /\ \A q \in S : q < p => q \notin T
    BY <1>3, <2>1, NoneBefore
  <2> QED BY <2>2
<1>5. FirstRefused(S, Why) = Accepted
  <2>1. CardRefusal(d, cmd, c) = Accepted
    BY CardsAccepted
  <2>2. NoPortOf(d, c, ids) = Accepted
    BY <2>1, OrElse DEF CardRefusal, device
  <2> QED BY <2>2 DEF NoPortOf
<1> HIDE DEF S, Why
<1>6. \A i \in S : Why(i) = Accepted
  BY <1>4, <1>5 DEF FirstRefused
<1>7. PICK i \in DOMAIN Devices[device] : id = Devices[device][i].id
  BY DEF PortIds, device
<1>8. i \in S /\ ids[i] = id
  BY <1>7 DEF S
<1> HIDE DEF ids
<1>9. NoPort(d, c, id) = Accepted
  BY <1>6, <1>8 DEF Why
<1> QED BY <1>9, CodesRefuse DEF NoPort, RefuseIf

\* Every parameter that is read is accepted.
LEMMA ReadIsAccepted ==
  ASSUME NEW d, Typed(d), NEW cmd, Refusal(d, cmd) = Accepted, NEW c \in DOMAIN d.components,
         DOMAIN ReadParameters[KindOf(d, c)] \in SUBSET Nat,
         NEW i \in DOMAIN ReadParameters[KindOf(d, c)]
  PROVE  BadParameter(d, cmd, c, ReadParameters[KindOf(d, c)][i]) = Accepted
<1> DEFINE names == ReadParameters[KindOf(d, c)]
           S == DOMAIN names
           Why(j) == BadParameter(d, cmd, c, names[j])
           T == {j \in S : Why(j) # Accepted}
<1>1. S \in SUBSET Nat
  OBVIOUS
<1>2. T # {} => \E p \in S : Why(p) # Accepted /\ \A q \in S : q < p => Why(q) = Accepted
  <2> HIDE DEF S, Why
  <2>1. T \in SUBSET S
    OBVIOUS
  <2>2. T # {} => \E p \in S : p \in T /\ \A q \in S : q < p => q \notin T
    BY <1>1, <2>1, NoneBefore
  <2> QED BY <2>2
<1>3. FirstRefused(S, Why) = Accepted
  <2>1. CardRefusal(d, cmd, c) = Accepted
    BY CardsAccepted
  <2>2. BadParameterOf(d, cmd, c, names) = Accepted
    BY <2>1, OrElse DEF CardRefusal
  <2> QED BY <2>2 DEF BadParameterOf
<1> HIDE DEF S, Why
<1>4. \A j \in S : Why(j) = Accepted
  BY <1>2, <1>3 DEF FirstRefused
<1> QED BY <1>4 DEF S, Why

\* A document that the constructors accept and the compiler renders.
Rendered(d, cmd) ==
  Typed(d) /\ Buildable(d) /\ KeepsPeriods(cmd.overrides) /\ Refusal(d, cmd) = Accepted

\* The validator reads all of its nets and components, each under an id of its own.
LEMMA AllIsRead ==
  ASSUME NEW d, NEW cmd, Rendered(d, cmd)
  PROVE  /\ ReadNets(d) = DOMAIN d.nets /\ Parsed(d) = DOMAIN d.components
         /\ \A m, n \in DOMAIN d.nets : d.nets[m].id = d.nets[n].id => m = n
         /\ \A n \in DOMAIN d.nets : NetIsRead(d, n) /\ Compilable(d, n) /\ ~Shadowed(d, n)
         /\ \A c \in DOMAIN d.components : ComponentIsRead(d, c) /\ ~Repeated(d, c)
<1>1. Typed(d) /\ Buildable(d) /\ Refusal(d, cmd) = Accepted
  BY DEF Rendered
<1>2. /\ \A m, n \in DOMAIN d.nets : d.nets[m].id = d.nets[n].id => m = n
      /\ \A b, c \in DOMAIN d.components : d.components[b].id = d.components[c].id => b = c
  BY <1>1 DEF Buildable, Distinct
<1>3. \A n \in DOMAIN d.nets : NetIsRead(d, n) /\ Compilable(d, n)
  BY <1>1, DescriptorAccepted DEF Buildable, NetIsBuilt, NetIsRead, Compilable
<1>4. \A c \in DOMAIN d.components : ComponentIsRead(d, c)
  BY <1>1 DEF Buildable, ComponentIsBuilt, ComponentIsRead
<1>5. \A n \in DOMAIN d.nets : ~Shadowed(d, n)
  <2> SUFFICES ASSUME NEW n \in DOMAIN d.nets, NEW m \in 1 .. n - 1, d.nets[m].id = d.nets[n].id
               PROVE  FALSE
    BY DEF Shadowed
  <2> DEFINE nets == d.nets
  <2>1. DOMAIN nets = 1 .. Len(nets) /\ Len(nets) \in Nat
    BY <1>1, ListIndices DEF Typed
  <2>2. m # n /\ m \in DOMAIN nets
    <3> HIDE DEF nets
    <3>1. n \in 1 .. Len(nets)
      BY <2>1 DEF nets
    <3> QED BY <2>1, <3>1
  <2> QED BY <1>2, <2>2
<1>6. \A c \in DOMAIN d.components : ~Repeated(d, c)
  <2> SUFFICES ASSUME NEW c \in DOMAIN d.components, NEW b \in 1 .. c - 1,
                      d.components[b].id = d.components[c].id
               PROVE  FALSE
    BY DEF Repeated
  <2> DEFINE components == d.components
  <2>1. DOMAIN components = 1 .. Len(components) /\ Len(components) \in Nat
    BY <1>1, ListIndices DEF Typed
  <2>2. b # c /\ b \in DOMAIN components
    <3> HIDE DEF components
    <3>1. c \in 1 .. Len(components)
      BY <2>1 DEF components
    <3> QED BY <2>1, <3>1
  <2> QED BY <1>2, <2>2
<1> QED BY <1>2, <1>3, <1>4, <1>5, <1>6 DEF ReadNets, Parsed

\* What the graph says of a net is what the document says.
LEMMA GraphNets ==
  ASSUME NEW d, NEW cmd, Rendered(d, cmd)
  PROVE  LET g == Graph(d)
         IN  /\ DOMAIN g.kinds = {d.nets[n].id : n \in DOMAIN d.nets}
             /\ \A n \in DOMAIN d.nets : g.kinds[d.nets[n].id] = d.nets[n].kind
             /\ \A n \in DOMAIN d.nets : g.kinds[d.nets[n].id] = KindOfNet(d, d.nets[n].id)
<1> DEFINE index == NetIndex(d)
           kinds == KindsOfNets(d)
<1>1. Graph(d).kinds = kinds
  BY DEF Graph
<1>2. \A m, n \in DOMAIN d.nets : d.nets[m].id = d.nets[n].id => m = n
  BY AllIsRead
<1>3. ReadNets(d) = DOMAIN d.nets
  BY AllIsRead
<1>4. /\ DOMAIN index = {d.nets[n].id : n \in DOMAIN d.nets}
      /\ \A n \in DOMAIN d.nets : index[d.nets[n].id] = n
  BY <1>2, <1>3 DEF NetIndex
<1>5. \A n \in DOMAIN d.nets : KindOfNet(d, d.nets[n].id) = d.nets[n].kind
  BY <1>2 DEF KindOfNet
<1>6. kinds = [id \in DOMAIN index |-> d.nets[index[id]].kind]
  BY DEF KindsOfNets
<1> HIDE DEF index, kinds
<1>7. /\ DOMAIN kinds = {d.nets[n].id : n \in DOMAIN d.nets}
      /\ \A n \in DOMAIN d.nets : kinds[d.nets[n].id] = d.nets[n].kind
  BY <1>4, <1>6
<1> QED BY <1>1, <1>5, <1>7

\* It has every component, with its kind and its parameters.
LEMMA GraphComponents ==
  ASSUME NEW d, NEW cmd, Rendered(d, cmd)
  PROVE  LET g == Graph(d)
         IN  /\ Components(g) = DOMAIN d.components
             /\ \A c \in DOMAIN d.components :
                  /\ g.device[c] = KindOf(d, c) /\ DeviceOf(d, c) = KindOf(d, c)
                  /\ KindOf(d, c) \in DeviceKinds /\ Renderable(KindOf(d, c))
                  /\ g.params[c] = d.components[c].params
<1> DEFINE g == Graph(d)
<1>1. /\ g.device = [c \in Parsed(d) |-> DeviceOf(d, c)]
      /\ g.params = [c \in Parsed(d) |-> IF d.components[c].form = "parameters" THEN << >>
                                          ELSE d.components[c].params]
  BY DEF Graph
<1>2. /\ Parsed(d) = DOMAIN d.components
      /\ \A c \in DOMAIN d.components : d.components[c].form # "parameters"
  BY AllIsRead DEF Rendered, Buildable, ComponentIsBuilt
<1>3. \A c \in DOMAIN d.components : KnownKind(d.components[c].kind) /\ Renderable(KindOf(d, c))
  BY DescriptorAccepted DEF Rendered
<1>4. \A c \in DOMAIN d.components :
        DeviceOf(d, c) = KindOf(d, c) /\ KindOf(d, c) \in DeviceKinds
  BY <1>3, KnownKinds DEF DeviceOf, KindOf
<1> HIDE DEF g
<1> QED BY <1>1, <1>2, <1>3, <1>4 DEF Components, g

\* Every port is bound to a net it accepts, or has an id of nobody.
LEMMA PortVerdict ==
  ASSUME NEW d, NEW cmd, Rendered(d, cmd), NEW c \in DOMAIN d.components,
         NEW p \in DOMAIN d.components[c].ports
  PROVE  /\ PortIssue(d, Graph(d).kinds, c, p)
              = IF d.components[c].ports[p].id \in PortIds(KindOf(d, c))
                THEN "bound" ELSE "unknown_port"
         /\ d.components[c].ports[p].net \in DOMAIN Graph(d).kinds
         /\ d.components[c].ports[p].id \in PortIds(KindOf(d, c)) =>
              Graph(d).kinds[d.components[c].ports[p].net]
                \in PortSpec(KindOf(d, c), d.components[c].ports[p].id).nets
         /\ PortIsRead(d.components[c].ports[p])
<1> DEFINE ports == d.components[c].ports
           kinds == Graph(d).kinds
           device == KindOf(d, c)
<1>1. Typed(d) /\ Buildable(d) /\ Refusal(d, cmd) = Accepted
  BY DEF Rendered
<1>2. ComponentIsBuilt(d, d.components[c])
  BY <1>1 DEF Buildable
<1>3. PortIsBuilt(d, ports[p]) /\ \A q \in DOMAIN ports : ports[q].id = ports[p].id => q = p
  BY <1>2 DEF ComponentIsBuilt, Distinct
<1>4. PortIsRead(ports[p])
  BY <1>3 DEF PortIsBuilt, PortIsRead
<1>5. PICK n \in DOMAIN d.nets : d.nets[n].id = ports[p].net
  BY <1>3 DEF PortIsBuilt
<1>6. ports[p].net \in DOMAIN kinds /\ kinds[ports[p].net] = KindOfNet(d, ports[p].net)
  BY <1>5, GraphNets
<1>7. device # "unknown" /\ DeviceOf(d, c) = device
  BY GraphComponents DEF DeviceKinds
<1>8. ports[p].id \in PortIds(device) => kinds[ports[p].net] \in PortSpec(device, ports[p].id).nets
  <2>1. ~WrongPort(d, c)
    BY <1>1, DescriptorAccepted
  <2> QED BY <1>6, <2>1 DEF WrongPort
<1>9. ~\E q \in 1 .. p - 1 : PortIsRead(ports[q]) /\ ports[q].id = ports[p].id
  <2> SUFFICES ASSUME NEW q \in 1 .. p - 1, ports[q].id = ports[p].id PROVE FALSE
    OBVIOUS
  <2>1. DOMAIN ports = 1 .. Len(ports) /\ Len(ports) \in Nat
    BY <1>1, ListIndices DEF Typed
  <2>2. q # p /\ q \in DOMAIN ports
    <3> HIDE DEF ports
    <3>1. p \in 1 .. Len(ports)
      BY <2>1 DEF ports
    <3> QED BY <2>1, <3>1
  <2> QED BY <1>3, <2>2
<1> HIDE DEF ports, kinds, device
<1>10. PortIssue(d, kinds, c, p)
         = IF ports[p].id \in PortIds(device) THEN "bound" ELSE "unknown_port"
  BY <1>4, <1>6, <1>7, <1>8, <1>9 DEF PortIssue, ports
<1> QED BY <1>4, <1>6, <1>8, <1>10 DEF ports, kinds, device

\* So a component has the ports of its kind, each on the net the compiler reads.
LEMMA GraphPorts ==
  ASSUME NEW d, NEW cmd, Rendered(d, cmd), NEW c \in DOMAIN d.components
  PROVE  LET g == Graph(d)
         IN  /\ DOMAIN g.verdicts[c] = DOMAIN d.components[c].ports
             /\ \A p \in DOMAIN d.components[c].ports :
                  g.verdicts[c][p] = PortIssue(d, g.kinds, c, p)
             /\ DOMAIN g.ports[c] = PortIds(KindOf(d, c))
             /\ \A id \in PortIds(KindOf(d, c)) :
                  /\ g.ports[c][id] = Net(d, c, id) /\ Net(d, c, id) \in DOMAIN g.kinds
                  /\ g.kinds[Net(d, c, id)] \in PortSpec(KindOf(d, c), id).nets
<1> DEFINE g == Graph(d)
           ports == d.components[c].ports
           ids == PortIds(KindOf(d, c))
           verdicts == PortVerdicts(d, g.kinds, c)
           of == PortNets(d, verdicts, c)
           bound == {p \in DOMAIN ports : ports[p].id \in ids}
<1>1. c \in Parsed(d) /\ d.components[c].form # "ports"
  BY AllIsRead DEF Rendered, Buildable, ComponentIsBuilt
<1>2. g.verdicts[c] = verdicts /\ g.ports[c] = of
  <2> DEFINE kinds == KindsOfNets(d)
             all == [b \in Parsed(d) |-> PortVerdicts(d, kinds, b)]
  <2>1. /\ g.kinds = kinds /\ g.verdicts = all
        /\ g.ports = [b \in Parsed(d) |-> PortNets(d, all[b], b)]
    BY DEF Graph
  <2> HIDE DEF g, kinds
  <2>2. all[c] = PortVerdicts(d, kinds, c)
    BY <1>1
  <2> HIDE DEF all
  <2> QED BY <1>1, <2>1, <2>2
<1>3. verdicts = [p \in DOMAIN ports |-> PortIssue(d, g.kinds, c, p)]
  BY <1>1 DEF PortVerdicts, PortIndices
<1>5. \A p \in DOMAIN ports :
        PortIssue(d, g.kinds, c, p) = IF ports[p].id \in ids THEN "bound" ELSE "unknown_port"
  BY PortVerdict
<1> HIDE DEF g
<1>6. {p \in DOMAIN verdicts : verdicts[p] = "bound"} = bound
  <2> HIDE DEF verdicts, ports, ids
  <2> QED BY <1>3, <1>5
<1>7. of = [id \in {ports[p].id : p \in bound} |->
              ports[CHOOSE p \in bound : ports[p].id = id].net]
  <2> DEFINE Bound == {p \in DOMAIN verdicts : verdicts[p] = "bound"}
             Nets(s) == [id \in {ports[p].id : p \in s} |->
                           ports[CHOOSE p \in s : ports[p].id = id].net]
  <2> HIDE DEF verdicts, bound
  <2>1. Bound = bound
    BY <1>6
  <2>2. of = Nets(Bound)
    BY Zenon DEF PortNets
  <2> HIDE DEF Nets, Bound, of
  <2>3. of = Nets(bound)
    BY <2>1, <2>2
  <2> QED BY <2>3 DEF Nets
<1> HIDE DEF of, verdicts
<1>8. \A p, q \in DOMAIN ports : ports[p].id = ports[q].id => p = q
  BY DEF Rendered, Buildable, ComponentIsBuilt, Distinct
<1>9. \A id \in ids : \E p \in DOMAIN ports : ports[p].id = id
  <2>1. \A id \in ids : PortsNamed(d, c, id) # {}
    BY PortsAreThere DEF Rendered
  <2> QED BY <2>1 DEF PortsNamed
<1>10. \A p \in bound : Net(d, c, ports[p].id) = ports[p].net
  BY <1>8 DEF Net, PortsNamed
<1> HIDE DEF ids
<1>11. DOMAIN of = ids
  BY <1>7, <1>9
<1>12. \A id \in ids : \E p \in bound : ports[p].id = id /\ of[id] = ports[p].net
  <2> SUFFICES ASSUME NEW id \in ids
               PROVE  \E p \in bound : ports[p].id = id /\ of[id] = ports[p].net
    OBVIOUS
  <2> DEFINE k == CHOOSE p \in bound : ports[p].id = id
  <2>1. k \in bound /\ ports[k].id = id
    BY <1>9
  <2> HIDE DEF bound, ports
  <2>2. of[id] = ports[k].net
    BY <1>7, <2>1
  <2> HIDE DEF k
  <2> QED BY <2>1, <2>2
<1>13. \A id \in ids : /\ of[id] = Net(d, c, id) /\ Net(d, c, id) \in DOMAIN g.kinds
                       /\ g.kinds[Net(d, c, id)] \in PortSpec(KindOf(d, c), id).nets
  <2> SUFFICES ASSUME NEW id \in ids
               PROVE  /\ of[id] = Net(d, c, id) /\ Net(d, c, id) \in DOMAIN g.kinds
                      /\ g.kinds[Net(d, c, id)] \in PortSpec(KindOf(d, c), id).nets
    OBVIOUS
  <2>1. PICK p \in bound : ports[p].id = id /\ of[id] = ports[p].net
    BY <1>12
  <2>2. Net(d, c, id) = ports[p].net
    BY <1>10, <2>1
  <2>3. ports[p].net \in DOMAIN g.kinds /\ g.kinds[ports[p].net] \in PortSpec(KindOf(d, c), id).nets
    BY <2>1, PortVerdict DEF g, ids
  <2> QED BY <2>1, <2>2, <2>3
<1>14. /\ DOMAIN g.verdicts[c] = DOMAIN ports
       /\ \A p \in DOMAIN ports : g.verdicts[c][p] = PortIssue(d, g.kinds, c, p)
  BY <1>2, <1>3
<1> QED BY <1>2, <1>11, <1>13, <1>14 DEF g, ids

\* A kind that is rendered has a list of parameters that are read.
LEMMA ReadParametersAreLists ==
  ASSUME NEW device \in DeviceKinds, Renderable(device)
  PROVE  DOMAIN ReadParameters[device] \in SUBSET Nat
<1>1. CASE device = "averaged_switch"
  BY <1>1 DEF Renderable, SpiceType
<1>2. CASE device # "averaged_switch"
  BY <1>2 DEF DeviceKinds, ReadParameters
<1> QED BY <1>1, <1>2

\* What the validator may still say of a port of such a document.
LEMMA PortsAreFine ==
  ASSUME NEW d, NEW cmd, Rendered(d, cmd), NEW c \in DOMAIN d.components,
         NEW issue \in PortIssues(d, Graph(d), c)
  PROVE  issue.code \in {"schema_violation", "unknown_port"}
<1> DEFINE g == Graph(d)
           ports == d.components[c].ports
           verdicts == g.verdicts[c]
           device == KindOf(d, c)
           Seen == {ports[p].id : p \in {q \in DOMAIN verdicts : PortIsRead(ports[q])}}
<1>1. DOMAIN verdicts = DOMAIN ports /\ g.device[c] = device
  BY GraphPorts, GraphComponents
<1>2. \A p \in DOMAIN ports :
        verdicts[p] = (IF ports[p].id \in PortIds(device) THEN "bound" ELSE "unknown_port")
        /\ PortIsRead(ports[p])
  BY GraphPorts, PortVerdict
<1>3. d.components[c].form # "ports"
  BY DEF Rendered, Buildable, ComponentIsBuilt
<1>4. PortIds(device) \ Seen = {}
  <2> SUFFICES ASSUME NEW id \in PortIds(device) PROVE id \in Seen
    OBVIOUS
  <2>1. PortsNamed(d, c, id) # {}
    BY PortsAreThere DEF Rendered
  <2>2. PICK p \in DOMAIN ports : ports[p].id = id
    BY <2>1 DEF PortsNamed
  <2> QED BY <1>1, <1>2, <2>2
<1> HIDE DEF g, verdicts, Seen, ports, device
<1>5. PortIssues(d, g, c)
        = {At(verdicts[p], "ports", c, p) : p \in {q \in DOMAIN verdicts : verdicts[q] # "bound"}}
          \cup {At("schema_violation", "port field", c, p) :
                  p \in {q \in DOMAIN verdicts : ports[q].form = "field"}}
  <2> DEFINE missing == /\ g.device[c] # "unknown"
                        /\ d.components[c].form # "ports"
                        /\ "unknown_port" \notin Fns!Range(verdicts)
                        /\ PortIds(g.device[c]) \ Seen # {}
  <2>1. PortIssues(d, g, c)
        = {At(verdicts[p], "ports", c, p) : p \in {q \in DOMAIN verdicts : verdicts[q] # "bound"}}
          \cup {At("schema_violation", "port field", c, p) :
                  p \in {q \in DOMAIN verdicts : ports[q].form = "field"}}
          \cup When(d.components[c].form = "ports", At("schema_violation", "ports", c, 0))
          \cup When(missing, At("missing_port", "ports", c, 0))
    BY Zenon DEF PortIssues, verdicts, Seen, ports
  <2>2. ~missing
    BY <1>1, <1>4
  <2> HIDE DEF missing
  <2>3. When(missing, At("missing_port", "ports", c, 0)) = {}
    BY <2>2 DEF When
  <2>4. When(d.components[c].form = "ports", At("schema_violation", "ports", c, 0)) = {}
    BY <1>3 DEF When
  <2> QED BY <2>1, <2>3, <2>4
<1>6. CASE issue \in {At(verdicts[p], "ports", c, p) :
                        p \in {q \in DOMAIN verdicts : verdicts[q] # "bound"}}
  <2>1. PICK p \in DOMAIN verdicts : verdicts[p] # "bound" /\ issue = At(verdicts[p], "ports", c, p)
    BY <1>6
  <2>2. issue.code = verdicts[p] /\ verdicts[p] = "unknown_port"
    BY <1>1, <1>2, <2>1 DEF At
  <2> QED BY <2>2
<1>7. CASE issue \in {At("schema_violation", "port field", c, p) :
                        p \in {q \in DOMAIN verdicts : ports[q].form = "field"}}
  <2>1. PICK p \in DOMAIN verdicts : issue = At("schema_violation", "port field", c, p)
    BY <1>7
  <2> QED BY <2>1 DEF At
<1> QED BY <1>5, <1>6, <1>7 DEF g

\* A parameter that must be stated is, unless the window gives some.
LEMMA RequiredIsStated ==
  ASSUME NEW d, NEW cmd, Rendered(d, cmd), cmd.overrides = << >>, NEW c \in DOMAIN d.components,
         NEW name \in RequiredParameters(KindOf(d, c))
  PROVE  name \in DOMAIN d.components[c].params
<1> DEFINE device == KindOf(d, c)
           params == d.components[c].params
<1>1. Typed(d) /\ Refusal(d, cmd) = Accepted /\ KeepsPeriods(cmd.overrides)
  BY DEF Rendered
<1>2. device \in DeviceKinds
  BY GraphComponents
<1>3. BadParameter(d, cmd, c, name) = Accepted
  <2>1. CASE device = "pulse_source" /\ name = "switching_frequency_hz"
    <3> DEFINE net == CarrierNet(d, c)
    <3>1. c \in Carriers(d)
      BY <2>1 DEF Carriers, OfKind
    <3>2. net \in GateNets(d)
      BY <1>1, <3>1, CarriersHaveGates
    <3>3. net \in CarrierNets(d) /\ FrequencyRefusal(d, cmd, net) = Accepted
      BY <1>1, <3>2, AcceptedGates DEF InOnePeriod
    <3>4. CarrierOn(d, net) = c
      <4>1. CarrierOn(d, net) \in Carriers(d) /\ CarrierNet(d, CarrierOn(d, net)) = net
        BY <3>3, CarrierOnNet
      <4>2. CarrierRefusal(d) = Accepted
        BY <1>1, RefusalParts
      <4> QED BY <1>1, <3>1, <4>1, <4>2, CarriersApart
    <3> QED BY <2>1, <3>3, <3>4 DEF FrequencyRefusal
  <2>2. CASE \E i \in DOMAIN ReadParameters[device] : ReadParameters[device][i] = name
    <3>1. PICK i \in DOMAIN ReadParameters[device] : ReadParameters[device][i] = name
      BY <2>2
    <3>2. DOMAIN ReadParameters[device] \in SUBSET Nat
      BY <1>2, ReadParametersAreLists, GraphComponents
    <3> QED BY <1>1, <3>1, <3>2, ReadIsAccepted
  <2> QED BY <1>2, <2>1, <2>2, RequiredAreRead
<1>4. Parameters[device][name].default.class = "absent" /\ ~Parameters[device][name].nullable
  BY DEF RequiredParameters, Absent
<1>5. ASSUME name \notin DOMAIN params PROVE FALSE
  <2> DEFINE view == View(d, cmd, c)
  <2>1. DOMAIN view = DOMAIN params
    <3> DEFINE id == d.components[c].id
               replaced == IF id \in DOMAIN cmd.overrides THEN cmd.overrides[id] ELSE << >>
               all == [n \in DOMAIN replaced \cup DOMAIN params |->
                         IF n \in DOMAIN replaced THEN replaced[n] ELSE params[n]]
    <3>1. view = all
      BY DEF View
    <3>2. DOMAIN cmd.overrides = {}
      OBVIOUS
    <3>3. replaced = << >>
      BY <3>2
    <3> HIDE DEF replaced, params, view
    <3>4. DOMAIN replaced = {}
      BY <3>3
    <3> QED BY <3>1, <3>4
  <2>2. Stated(d, cmd, c, name).class = "absent"
    BY <1>4, <1>5, <2>1 DEF Stated
  <2>3. BadParameter(d, cmd, c, name) = "missing_parameter"
    BY <1>4, <2>2 DEF BadParameter, RefuseIf
  <2> QED BY <1>3, <2>3, CodesRefuse
<1> QED BY <1>5

\* What the validator may still say of a parameter.
LEMMA ParametersAreFine ==
  ASSUME NEW d, NEW cmd, Rendered(d, cmd), NEW c \in DOMAIN d.components,
         NEW issue \in ParameterIssues(d, Graph(d), c)
  PROVE  issue.code \in {"schema_violation", "unknown_parameter", "invalid_parameter_value"}
                        \cup (IF cmd.overrides = << >> THEN {} ELSE {"missing_parameter"})
<1> DEFINE g == Graph(d)
           device == KindOf(d, c)
           params == d.components[c].params
           Code(name) == ParameterIssue(device, params, name)
           missing == RequiredParameters(device) \ DOMAIN params # {}
<1>1. g.device[c] = device /\ g.params[c] = params
  BY GraphComponents
<1>2. \A name \in DOMAIN params :
        Code(name) \in {"accepted", "unknown_parameter", "invalid_parameter_value"}
  BY DEF ParameterIssue
<1>3. cmd.overrides = << >> => ~missing
  BY RequiredIsStated
<1> HIDE DEF g, device, params
<1>4. CASE d.components[c].form = "parameters"
  <2>1. issue = At("schema_violation", "parameters", c, 0)
    BY <1>4 DEF ParameterIssues, g
  <2> QED BY <2>1 DEF At
<1>5. CASE d.components[c].form # "parameters"
  <2> DEFINE Rejected == {name \in DOMAIN params : Code(name) # "accepted"}
  <2>1. ParameterIssues(d, g, c)
          = {At(Code(name), name, c, 0) : name \in Rejected}
            \cup When(missing, At("missing_parameter", "parameters", c, 0))
    BY <1>1, <1>5 DEF ParameterIssues
  <2> HIDE DEF Code, missing
  <2>2. CASE issue \in {At(Code(name), name, c, 0) : name \in Rejected}
    <3>1. PICK name \in DOMAIN params : Code(name) # "accepted" /\ issue = At(Code(name), name, c, 0)
      BY <2>2
    <3>2. issue.code = Code(name)
      BY <3>1 DEF At
    <3> QED BY <1>2, <3>1, <3>2
  <2>3. CASE issue \in When(missing, At("missing_parameter", "parameters", c, 0))
    <3>1. missing /\ issue = At("missing_parameter", "parameters", c, 0)
      BY <2>3 DEF When
    <3> QED BY <1>3, <3>1 DEF At
  <2> QED BY <2>1, <2>2, <2>3 DEF g
<1> QED BY <1>4, <1>5


\* Of a net it says only that an entry is malformed.
LEMMA NetsAreFine ==
  ASSUME NEW d, NEW cmd, Rendered(d, cmd), NEW issue \in NetIssues(d)
  PROVE  issue.code = "schema_violation"
<1>1. \A n \in DOMAIN d.nets : NetIsRead(d, n) /\ Compilable(d, n) /\ ~Shadowed(d, n)
  BY AllIsRead
<1>2. PICK n : issue = At("schema_violation", "nets", n, 0)
  BY <1>1 DEF NetIssues
<1> QED BY <1>2 DEF At

\* And of a component what it says of its ports and parameters.
LEMMA ComponentsAreFine ==
  ASSUME NEW d, NEW cmd, Rendered(d, cmd), NEW issue \in ComponentIssues(d, Graph(d))
  PROVE  issue.code \in {"schema_violation", "unknown_port", "unknown_parameter",
                         "invalid_parameter_value"}
                        \cup (IF cmd.overrides = << >> THEN {} ELSE {"missing_parameter"})
<1> DEFINE g == Graph(d)
           malformed == {At("schema_violation", "components", c, 0) :
                           c \in {b \in DOMAIN d.components :
                                    d.components[b].form \in {"not_object", "field", "id"}}}
           twice == {b \in DOMAIN d.components : ComponentIsRead(d, b) /\ Repeated(d, b)}
           unknown == OfDevice(g, {"unknown"})
           dup == {At("duplicate_component_id", "components", c, 0) : c \in twice}
           odd == {At("unsupported_device_kind", "components", c, 1) : c \in unknown}
           ports == UNION {PortIssues(d, g, c) : c \in Components(g)}
           params == UNION {ParameterIssues(d, g, c) : c \in Components(g) \ unknown}
<1>1. Components(g) = DOMAIN d.components /\ twice = {} /\ unknown = {}
  <2>1. twice = {}
    BY AllIsRead
  <2>2. Components(g) = DOMAIN d.components
    BY GraphComponents
  <2>3. \A c \in DOMAIN d.components : g.device[c] \in DeviceKinds
    BY GraphComponents
  <2>4. unknown = {}
    <3> HIDE DEF g
    <3> QED BY <2>2, <2>3 DEF OfDevice, DeviceKinds
  <2> QED BY <2>1, <2>2, <2>4
<1>2. ComponentIssues(d, g) = malformed \cup dup \cup odd \cup ports \cup params
  BY Zenon DEF ComponentIssues
<1> HIDE DEF g, twice, unknown
<1>3. \/ issue \in malformed
      \/ \E c \in DOMAIN d.components :
           issue \in PortIssues(d, g, c) \/ issue \in ParameterIssues(d, g, c)
  <2>1. dup = {} /\ odd = {}
    BY <1>1
  <2>2. \A x \in ports : \E c \in DOMAIN d.components : x \in PortIssues(d, g, c)
    BY <1>1
  <2>3. \A x \in params : \E c \in DOMAIN d.components : x \in ParameterIssues(d, g, c)
    BY <1>1
  <2>4. issue \in ComponentIssues(d, g)
    BY DEF g
  <2> HIDE DEF malformed, dup, odd, ports, params
  <2> QED BY <1>2, <2>1, <2>2, <2>3, <2>4
<1>4. CASE issue \in malformed
  <2>1. PICK c : issue = At("schema_violation", "components", c, 0)
    BY <1>4
  <2> QED BY <2>1 DEF At
<1>5. ASSUME NEW c \in DOMAIN d.components, issue \in PortIssues(d, g, c)
      PROVE  issue.code \in {"schema_violation", "unknown_port"}
  BY <1>5, PortsAreFine DEF g
<1>6. ASSUME NEW c \in DOMAIN d.components, issue \in ParameterIssues(d, g, c)
      PROVE  issue.code \in {"schema_violation", "unknown_parameter", "invalid_parameter_value"}
                        \cup (IF cmd.overrides = << >> THEN {} ELSE {"missing_parameter"})
  BY <1>6, ParametersAreFine DEF g
<1> HIDE DEF malformed, dup, odd, ports, params
<1> QED BY <1>3, <1>4, <1>5, <1>6

\* The image of a finite list of places is finite.
LEMMA NetsAreFinite ==
  ASSUME NEW d, Typed(d)
  PROVE  IsFiniteSet(ReferenceNets(d)) /\ IsFiniteSet(DOMAIN d.nets) /\ DOMAIN d.nets \subseteq Nat
<1>1. DOMAIN d.nets = 1 .. Len(d.nets) /\ Len(d.nets) \in Nat
  BY ListIndices DEF Typed
<1>2. IsFiniteSet(DOMAIN d.nets)
  BY <1>1, FS_Interval, 1 \in Int, Len(d.nets) \in Int
<1> DEFINE S == {m \in DOMAIN d.nets : d.nets[m].kind = "reference"}
           f == [n \in S |-> d.nets[n].id]
<1>3. IsFiniteSet(S)
  <2>1. S \subseteq DOMAIN d.nets
    OBVIOUS
  <2> HIDE DEF S
  <2> QED BY <1>2, <2>1, FS_Subset
<1>4. ReferenceNets(d) = {d.nets[n].id : n \in S}
  BY DEF ReferenceNets
<1> HIDE DEF S
<1>5. f \in Surjection(S, ReferenceNets(d))
  BY <1>4 DEF Surjection
<1>6. IsFiniteSet(ReferenceNets(d))
  <2> HIDE DEF f
  <2> QED BY <1>3, <1>5, FS_Surjection
<1> QED BY <1>1, <1>2, <1>6

\* One reference net, and every component an element card: the validator misses neither.
LEMMA ConnectionsAreFine ==
  ASSUME NEW d, NEW cmd, Rendered(d, cmd), NEW issue \in ConnectivityIssues(Graph(d))
  PROVE  issue.code \in {"isolated_net", "disconnected_graph"}
<1> DEFINE g == Graph(d)
           References == {g.place[net] : net \in NetsOfKind(g, "reference")}
           First == {n \in References : \A m \in References : n <= m}
           isolated == {At("isolated_net", "nets", g.place[net], 0) :
                          net \in {n \in DOMAIN g.kinds : Isolated(g, n)}}
           apart == When(Disconnected(g), At("disconnected_graph", "nets", 0, 0))
<1>1. Typed(d) /\ Refusal(d, cmd) = Accepted
  BY DEF Rendered
<1>2. PICK r : ReferenceNets(d) = {r}
  BY <1>1, DescriptorAccepted, NetsAreFinite, FS_Singleton
<1>3. NetsOfKind(g, "reference") = {r}
  <2>1. DOMAIN g.kinds = {d.nets[n].id : n \in DOMAIN d.nets}
        /\ \A n \in DOMAIN d.nets : g.kinds[d.nets[n].id] = d.nets[n].kind
    BY GraphNets
  <2> HIDE DEF g
  <2>2. NetsOfKind(g, "reference") = ReferenceNets(d)
    BY <2>1 DEF NetsOfKind, ReferenceNets
  <2> QED BY <1>2, <2>2
<1>4. g.place[r] \in Nat
  <2> DEFINE index == NetIndex(d)
             before == {n \in ReadNets(d) : n <= index[r]}
  <2>1. r \in DOMAIN index
    <3>1. PICK n \in DOMAIN d.nets : r = d.nets[n].id
      BY <1>2 DEF ReferenceNets
    <3> QED BY <3>1, AllIsRead DEF NetIndex
  <2>2. g.place = [id \in DOMAIN index |-> Cardinality({n \in ReadNets(d) : n <= index[id]})]
    BY DEF Graph
  <2> HIDE DEF g, index
  <2>3. g.place[r] = Cardinality(before)
    BY <2>1, <2>2
  <2>4. before \subseteq DOMAIN d.nets
    BY DEF ReadNets
  <2> HIDE DEF before
  <2> QED BY <1>1, <2>3, <2>4, NetsAreFinite, FS_Subset, FS_CardinalityType
<1>5. References = {g.place[r]}
  <2> HIDE DEF g
  <2> QED BY <1>3
<1>6. ConnectivityIssues(g)
        = isolated \cup When(References = {}, At("missing_reference_net", "nets", 0, 0))
          \cup {At("multiple_reference_nets", "nets", n, 1) : n \in References \ First} \cup apart
  BY Zenon DEF ConnectivityIssues
<1>7. References \ First = {} /\ References # {}
  <2> HIDE DEF g, References
  <2> QED BY <1>4, <1>5
<1>8. issue \in isolated \/ issue \in apart
  <2> HIDE DEF References, First, isolated, apart
  <2>1. When(References = {}, At("missing_reference_net", "nets", 0, 0)) = {}
    BY <1>7 DEF When
  <2> QED BY <1>6, <1>7, <2>1 DEF g
<1>9. CASE issue \in isolated
  <2>1. PICK n : issue = At("isolated_net", "nets", n, 0)
    BY <1>9
  <2> QED BY <2>1 DEF At
<1>10. CASE issue \in apart
  BY <1>10 DEF At, When
<1> QED BY <1>8, <1>9, <1>10

\* Every component has a card; all that may lack is a load.
LEMMA CardsAreFine ==
  ASSUME NEW d, NEW cmd, Rendered(d, cmd), NEW issue \in RenderabilityIssues(Graph(d))
  PROVE  issue.code = "no_output_load"
<1> DEFINE g == Graph(d)
           lacking == \E c \in Components(g) : g.device[c] # "unknown" /\ ~Renderable(g.device[c])
           loose == OfDevice(g, {"resistor_load"}) = {}
<1>1. ~lacking
  BY GraphComponents
<1>2. RenderabilityIssues(g) = When(lacking, At("not_compilable", "components", 0, 0))
                               \cup When(loose, At("no_output_load", "components", 0, 0))
  BY Zenon DEF RenderabilityIssues
<1> HIDE DEF g, lacking, loose
<1>3. issue = At("no_output_load", "components", 0, 0)
  BY <1>1, <1>2 DEF When, g
<1> QED BY <1>3 DEF At


\* A set in which all are alike has one member at most.
LEMMA AtMostOne ==
  ASSUME NEW S, NEW T \in SUBSET S, \A x, y \in S : x = y
  PROVE  IsFiniteSet(T) /\ Cardinality(T) \in Nat /\ ~(Cardinality(T) > 1)
         /\ (Cardinality(T) = 0 => T = {})
<1>1. CASE T = {}
  BY <1>1, FS_EmptySet
<1>2. CASE T # {}
  <2>1. PICK x : T = {x}
    BY <1>2
  <2>2. IsFiniteSet({x}) /\ Cardinality({x}) = 1
    BY FS_Singleton
  <2> QED BY <2>1, <2>2
<1> QED BY <1>1, <1>2

\* What drives a control net is a carrier, as the compiler finds it.
LEMMA DriversAreCarriers ==
  ASSUME NEW d, NEW cmd, Rendered(d, cmd), NEW net \in NetsOfKind(Graph(d), "control")
  PROVE  Drivers(Graph(d), net) \subseteq CarriersOn(d, net)
<1> DEFINE g == Graph(d)
<1>1. net \in DOMAIN g.kinds /\ g.kinds[net] = "control"
  BY DEF NetsOfKind
<1> SUFFICES ASSUME NEW c \in Drivers(g, net) PROVE c \in CarriersOn(d, net)
  BY DEF g
<1>2. c \in DOMAIN d.components
  BY GraphComponents DEF Drivers
<1> DEFINE device == KindOf(d, c)
<1>3. g.device[c] = device /\ device \in DeviceKinds
  BY <1>2, GraphComponents
<1>4. /\ DOMAIN g.ports[c] = PortIds(device)
      /\ \A id \in PortIds(device) : /\ g.ports[c][id] = Net(d, c, id)
                                     /\ g.kinds[Net(d, c, id)] \in PortSpec(device, id).nets
  BY <1>2, GraphPorts
<1> HIDE DEF g, device
<1>5. PICK id \in PortIds(device) : Net(d, c, id) = net /\ PortSpec(device, id).direction = "output"
  BY <1>3, <1>4 DEF Drivers
<1>6. "control" \in PortSpec(device, id).nets
  BY <1>1, <1>4, <1>5
<1>7. PICK i \in DOMAIN Devices[device] : Devices[device][i].id = id
  BY <1>5 DEF PortIds
<1>8. PortSpec(device, id) = Devices[device][i]
  BY <1>3, <1>7, PortIsSpecified
<1>9. device = "pulse_source" /\ id = "positive"
  BY <1>3, <1>5, <1>6, <1>7, <1>8, PortsOfKinds DEF OnlyDriver
<1>10. c \in Carriers(d)
  BY <1>2, <1>9 DEF Carriers, OfKind, device
<1> QED BY <1>5, <1>9, <1>10 DEF CarriersOn, CarrierNet

\* A carrier drives a control net.
LEMMA CarriersDriveControlNets ==
  ASSUME NEW d, NEW cmd, Rendered(d, cmd)
  PROVE  CarrierNets(d) \subseteq NetsOfKind(Graph(d), "control")
<1> DEFINE g == Graph(d)
<1> SUFFICES ASSUME NEW k \in Carriers(d) PROVE CarrierNet(d, k) \in NetsOfKind(g, "control")
  BY DEF CarrierNets, g
<1>1. k \in DOMAIN d.components /\ KindOf(d, k) = "pulse_source"
  BY DEF Carriers, OfKind
<1>2. DOMAIN Devices["pulse_source"] = {1, 2}
      /\ Devices["pulse_source"][1] = Port("positive", Control, "output")
  BY DevicePorts
<1>3. Devices["pulse_source"][1].id = "positive" /\ Devices["pulse_source"][1].nets = {"control"}
  BY <1>2, PortFields DEF Control
<1>4. "positive" \in PortIds("pulse_source")
  BY <1>2, <1>3 DEF PortIds
<1>5. PortSpec("pulse_source", "positive").nets = {"control"}
  BY <1>2, <1>3, PortIsSpecified DEF DeviceKinds
<1>6. CarrierNet(d, k) \in DOMAIN g.kinds /\ g.kinds[CarrierNet(d, k)] \in {"control"}
  BY <1>1, <1>4, <1>5, GraphPorts DEF CarrierNet
<1> HIDE DEF g
<1> QED BY <1>6 DEF NetsOfKind

\* When every control net is driven, the control nets are the gates.
LEMMA ControlNetsAreGates ==
  ASSUME NEW d, NEW cmd, Rendered(d, cmd),
         \A net \in NetsOfKind(Graph(d), "control") : Drivers(Graph(d), net) # {}
  PROVE  NetsOfKind(Graph(d), "control") = GateNets(d)
<1>1. Typed(d) /\ KeepsPeriods(cmd.overrides) /\ Refusal(d, cmd) = Accepted
  BY DEF Rendered
<1>2. GateNets(d) \subseteq CarrierNets(d)
  BY <1>1, AcceptedGates DEF InOnePeriod
<1>3. CarrierNets(d) \subseteq GateNets(d)
  BY <1>1, CarriersHaveGates DEF CarrierNets
<1>4. \A net \in NetsOfKind(Graph(d), "control") : net \in CarrierNets(d)
  <2> SUFFICES ASSUME NEW net \in NetsOfKind(Graph(d), "control") PROVE net \in CarrierNets(d)
    OBVIOUS
  <2>1. PICK c : c \in Drivers(Graph(d), net)
    OBVIOUS
  <2>2. c \in CarriersOn(d, net)
    BY <2>1, DriversAreCarriers
  <2> QED BY <2>2 DEF CarriersOn, CarrierNets
<1> QED BY <1>2, <1>3, <1>4, CarriersDriveControlNets


\* The gates of the legs are all different.
LEMMA LegsApart ==
  ASSUME NEW d, Typed(d), NEW cmd, d.control.mode = "paired_complementary",
         PairedRefusal(d, cmd) = Accepted
  PROVE  \A j, k \in DOMAIN Legs(d) : \A a, b \in {1, 2} :
           Legs(d)[j][a] = Legs(d)[k][b] => j = k /\ a = b
<1> DEFINE pairs == d.control.pairs
           legs == Legs(d)
           GatesOf(j) == Maps!Range(LegOf(d, LegSwitches(d, pairs[j])))
<1>1. /\ DOMAIN legs = DOMAIN pairs /\ DOMAIN legs \in SUBSET Nat
      /\ \A k \in DOMAIN legs : legs[k] = LegOf(d, LegSwitches(d, pairs[k]))
  BY LegsAreListed, ListIndices
<1>2. \A k \in DOMAIN legs : GatesOf(k) = {legs[k][1], legs[k][2]}
  BY <1>1, LegIsPair
<1>3. ASSUME NEW k \in DOMAIN legs
      PROVE  legs[k][1] # legs[k][2] /\ \A j \in 1 .. k - 1 : GatesOf(j) \cap GatesOf(k) = {}
  <2>1. LegRefusal(d, cmd, k) = Accepted
    BY <1>1, LegsAccepted
  <2> DEFINE switches == LegSwitches(d, pairs[k])
             clash == \E j \in 1 .. k - 1 : GatesOf(j) \cap GatesOf(k) # {}
  <2>2. /\ SwitchesRefusal(d, switches) = Accepted
        /\ RefuseIf(clash, "ambiguous_complementary_control") = Accepted
    <3> DEFINE leg == LegOf(d, LegSwitches(d, pairs[k]))
               first == SwitchesRefusal(d, switches)
               second == RefuseIf(clash, "ambiguous_complementary_control")
               third == FirstRefused({1, 2}, LAMBDA i :
                            RefuseIf(leg[i] \notin CarrierNets(d), "no_carrier")
                            ?? FrequencyRefusal(d, cmd, leg[i]))
    <3>1. LegRefusal(d, cmd, k) = first ?? second ?? third
      BY Zenon DEF LegRefusal
    <3> HIDE DEF first, second, third
    <3>2. first = Accepted /\ second = Accepted
      BY <2>1, <3>1, OrElse
    <3> QED BY <3>2 DEF first, second
  <2> HIDE DEF GatesOf, switches
  <2>3. RefuseIf(LegOf(d, switches)[1] = LegOf(d, switches)[2],
                 "ambiguous_complementary_control") = Accepted
    BY <2>2, OrElse DEF SwitchesRefusal
  <2>4. ~clash /\ LegOf(d, switches)[1] # LegOf(d, switches)[2]
    BY <2>2, <2>3, CodesRefuse DEF RefuseIf
  <2> QED BY <1>1, <2>4 DEF switches
<1>4. DOMAIN legs = 1 .. Len(legs) /\ Len(legs) \in Nat
  BY LegsAreListed, ListIndices
<1> HIDE DEF legs, GatesOf
<1>5. \A j, k \in DOMAIN legs : j < k => GatesOf(j) \cap GatesOf(k) = {}
  <2> SUFFICES ASSUME NEW j \in DOMAIN legs, NEW k \in DOMAIN legs, j < k
               PROVE  GatesOf(j) \cap GatesOf(k) = {}
    OBVIOUS
  <2>1. j \in 1 .. k - 1
    BY <1>4
  <2> QED BY <1>3, <2>1
<1> SUFFICES ASSUME NEW j \in DOMAIN legs, NEW k \in DOMAIN legs, NEW a \in {1, 2}, NEW b \in {1, 2},
                    legs[j][a] = legs[k][b]
             PROVE  j = k /\ a = b
  BY DEF legs
<1>6. legs[j][a] \in GatesOf(j) /\ legs[k][b] \in GatesOf(k)
  BY <1>2
<1>7. ~(j < k) /\ ~(k < j)
  BY <1>5, <1>6
<1>8. j = k
  BY <1>1, <1>7
<1> QED BY <1>3, <1>8

\* So there are as many gates as the declaration has switches.
LEMMA PairedGatesAreCounted ==
  ASSUME NEW d, Typed(d), NEW cmd, Mode(d) = "paired_complementary",
         PairedRefusal(d, cmd) = Accepted
  PROVE  Cardinality(GateNets(d)) = 2 * Len(d.control.pairs)
<1> DEFINE legs == Legs(d)
           count == Len(legs)
           size == Len(d.control.pairs)
           S == 1 .. 2 * count
           f == [i \in S |-> legs[(i + 1) \div 2][2 - (i % 2)]]
<1>1. d.control.mode = "paired_complementary"
  BY DEF Mode
<1>2. /\ DOMAIN legs = 1 .. count /\ count \in Nat
      /\ \A k \in DOMAIN legs : legs[k] = LegOf(d, LegSwitches(d, d.control.pairs[k]))
  BY <1>1, LegsAreListed, ListIndices
<1>3. count = size
  <2>1. DOMAIN legs = 1 .. size /\ size \in Nat
    BY <1>1, LegsAreListed, ListIndices DEF Typed
  <2> HIDE DEF legs, count, size
  <2> QED BY <1>2, <2>1
<1>4. \A k \in 1 .. count : Maps!Range(legs[k]) = {legs[k][1], legs[k][2]}
  BY <1>2, LegIsPair
<1>5. GateNets(d) = UNION {{legs[k][1], legs[k][2]} : k \in 1 .. count}
  <2>1. GateNets(d) = UNION {Maps!Range(leg) : leg \in Maps!Range(legs)}
    BY DEF GateNets
  <2>2. Maps!Range(legs) = {legs[k] : k \in 1 .. count}
    BY <1>2 DEF Maps!Range
  <2> HIDE DEF legs, count
  <2> QED BY <1>4, <2>1, <2>2
<1>6. \A j, k \in 1 .. count : \A a, b \in {1, 2} : legs[j][a] = legs[k][b] => j = k /\ a = b
  BY <1>1, <1>2, LegsApart
<1> HIDE DEF legs, count, size
<1>7. \A i \in S : /\ (i + 1) \div 2 \in 1 .. count /\ 2 - (i % 2) \in {1, 2}
                   /\ i = 2 * ((i + 1) \div 2) - 2 + (2 - (i % 2))
  BY <1>2
<1>8. f \in Injection(S, GateNets(d))
  <2>1. \A i \in S : f[i] \in GateNets(d)
    <3> SUFFICES ASSUME NEW i \in S PROVE f[i] \in GateNets(d)
      OBVIOUS
    <3> DEFINE k == (i + 1) \div 2  a == 2 - (i % 2)
    <3>1. k \in 1 .. count /\ a \in {1, 2} /\ f[i] = legs[k][a]
      BY <1>7
    <3> HIDE DEF k, a, f, S
    <3> QED BY <1>5, <3>1
  <2>2. \A i, j \in S : f[i] = f[j] => i = j
    <3> SUFFICES ASSUME NEW i \in S, NEW j \in S, f[i] = f[j] PROVE i = j
      OBVIOUS
    <3> DEFINE k == (i + 1) \div 2  a == 2 - (i % 2)  l == (j + 1) \div 2  b == 2 - (j % 2)
    <3>1. /\ k \in 1 .. count /\ a \in {1, 2} /\ f[i] = legs[k][a] /\ i = 2 * k - 2 + a
          /\ l \in 1 .. count /\ b \in {1, 2} /\ f[j] = legs[l][b] /\ j = 2 * l - 2 + b
      BY <1>7
    <3> HIDE DEF k, a, l, b, f, S
    <3>2. legs[k][a] = legs[l][b]
      BY <3>1
    <3>3. k = l /\ a = b
      BY <1>6, <3>1, <3>2
    <3> QED BY <3>1, <3>3
  <2>3. f \in [S -> GateNets(d)]
    BY <2>1
  <2> HIDE DEF f
  <2> QED BY <2>2, <2>3 DEF Injection, IsInjective
<1>9. f \in Surjection(S, GateNets(d))
  <2> SUFFICES ASSUME NEW net \in GateNets(d) PROVE \E i \in S : f[i] = net
    <3>1. f \in [S -> GateNets(d)]
      BY <1>8 DEF Injection
    <3> QED BY <3>1 DEF Surjection
  <2>1. PICK k \in 1 .. count, a \in {1, 2} : net = legs[k][a]
    BY <1>5
  <2> DEFINE i == 2 * k - 2 + a
  <2>2. i \in S /\ (i + 1) \div 2 = k /\ 2 - (i % 2) = a
    BY <1>2
  <2> HIDE DEF i
  <2> QED BY <2>1, <2>2
<1>10. IsFiniteSet(S) /\ Cardinality(S) = 2 * count
  <2> DEFINE total == 2 * count
  <2>1. total \in Nat
    BY <1>2
  <2> HIDE DEF total
  <2>2. IsFiniteSet(1 .. total) /\ Cardinality(1 .. total) = total
    BY <2>1, FS_Interval, 1 \in Int
  <2> QED BY <2>2 DEF total
<1> HIDE DEF f, S
<1>11. Cardinality(GateNets(d)) = Cardinality(S)
  BY <1>8, <1>9, <1>10, FS_Surjection
<1> QED BY <1>3, <1>10, <1>11 DEF size

\* And as many phases as it says.
LEMMA PhasesAreCounted ==
  ASSUME NEW d, NEW cmd, InterleavedRefusal(d, cmd) = Accepted
  PROVE  Cardinality(PhaseNets(d)) = d.control.phases.v
BY CodesRefuse DEF InterleavedRefusal, ??, RefuseIf

\* The validator counts a declaration of which the compiler honours every gate.
LEMMA DeclarationFitsGates ==
  ASSUME NEW d, NEW cmd, Rendered(d, cmd), Cardinality(GateNets(d)) > 1
  PROVE  DeclarationFits(d.control, Cardinality(GateNets(d)))
<1>1. /\ Typed(d) /\ KeepsPeriods(cmd.overrides) /\ Refusal(d, cmd) = Accepted
      /\ Mode(d) \in Modes
  BY AcceptedGates DEF Rendered
<1>2. /\ d.control.form = "absent" \/ DeclarationIsRead(d.control)
      /\ GatesRefusal(d, cmd) = Accepted
  BY <1>1, RefusalParts
<1> DEFINE count == Cardinality(GateNets(d))
<1>3. ASSUME Mode(d) # "single_duty"
      PROVE  DeclarationIsRead(d.control) /\ d.control.mode = Mode(d) /\ d.control.form = "ok"
             /\ d.control.mode \in ControlModes
  <2>1. DeclarationIsRead(d.control) /\ d.control.mode = Mode(d)
    BY <1>2, <1>3 DEF Mode
  <2> QED BY <1>1, <1>3, <2>1 DEF DeclarationIsRead, Modes, ControlModes
<1>4. CASE Mode(d) = "single_duty"
  <2> DEFINE switch == CHOOSE c \in Actuators(d) : TRUE
  <2>1. Cardinality(Actuators(d)) = 1
    BY <1>2, <1>4, CodesRefuse DEF GatesRefusal, SingleRefusal, ??, RefuseIf
  <2>2. IsFiniteSet(Actuators(d))
    <3>1. Actuators(d) \subseteq 1 .. Len(d.components) /\ Len(d.components) \in Nat
      BY <1>1, ListIndices DEF Actuators, OfKind, Typed
    <3> QED BY <3>1, FS_Interval, FS_Subset, 1 \in Int, Len(d.components) \in Int
  <2>3. PICK a : Actuators(d) = {a}
    BY <2>1, <2>2, FS_Singleton
  <2>4. GateNets(d) = {Net(d, a, "control")}
    BY <1>4, <2>3 DEF GateNets, PhaseNets
  <2>5. count = 1
    BY <2>4, FS_Singleton
  <2> QED BY <2>5
<1>5. CASE Mode(d) = "single_duty_complementary"
  BY <1>3, <1>5 DEF DeclarationFits
<1>6. CASE Mode(d) = "single_duty_interleaved"
  <2>1. Cardinality(PhaseNets(d)) = d.control.phases.v
    <3>1. InterleavedRefusal(d, cmd) = Accepted
      BY <1>2, <1>6 DEF GatesRefusal
    <3> QED BY <3>1, PhasesAreCounted
  <2>2. GateNets(d) = PhaseNets(d)
    BY <1>6 DEF GateNets
  <2>3. PhasesAreRead(d.control)
    BY <1>3, <1>6 DEF DeclarationIsRead
  <2> QED BY <1>3, <1>6, <2>1, <2>2, <2>3 DEF DeclarationFits, PhasesAreRead
<1>7. CASE Mode(d) = "paired_complementary"
  <2>1. count = 2 * Len(d.control.pairs)
    BY <1>1, <1>2, <1>7, PairedGatesAreCounted DEF GatesRefusal
  <2>2. PairsAreRead(d.control)
    BY <1>3, <1>7 DEF DeclarationIsRead
  <2> QED BY <1>3, <1>7, <2>1, <2>2 DEF DeclarationFits, PairsAreRead
<1> QED BY <1>1, <1>4, <1>5, <1>6, <1>7 DEF Modes

\* Every mode has a switch.
LEMMA SomeActuator ==
  ASSUME NEW d, NEW cmd, Rendered(d, cmd)
  PROVE  Actuators(d) # {}
<1>1. Typed(d) /\ Refusal(d, cmd) = Accepted /\ Mode(d) \in Modes
  BY AcceptedGates DEF Rendered
<1>2. /\ d.control.form = "absent" \/ DeclarationIsRead(d.control)
      /\ GatesRefusal(d, cmd) = Accepted
  BY <1>1, RefusalParts
<1> SUFFICES ASSUME Actuators(d) = {} PROVE FALSE
  OBVIOUS
<1>3. Cardinality(Actuators(d)) = 0 /\ PhaseNets(d) = {} /\ Cardinality(PhaseNets(d)) = 0
  BY FS_EmptySet DEF PhaseNets
<1>4. CASE Mode(d) = "single_duty"
  BY <1>2, <1>3, <1>4, CodesRefuse DEF GatesRefusal, SingleRefusal, ??, RefuseIf
<1>5. CASE Mode(d) = "single_duty_complementary"
  <2>1. ComplementaryRefusal(d, cmd) = Accepted
    BY <1>2, <1>5 DEF GatesRefusal
  <2>2. RefuseIf(Cardinality(Actuators(d)) # 2, "ambiguous_complementary_control") = Accepted
    BY <2>1, OrElse DEF ComplementaryRefusal
  <2> QED BY <1>3, <2>2, CodesRefuse DEF RefuseIf
<1>6. CASE Mode(d) = "single_duty_interleaved"
  <2>1. InterleavedRefusal(d, cmd) = Accepted
    BY <1>2, <1>6 DEF GatesRefusal
  <2>2. Cardinality(PhaseNets(d)) = d.control.phases.v
    BY <2>1, PhasesAreCounted
  <2>3. d.control.phases.v >= 2
    BY <1>2, <1>6 DEF Mode, DeclarationIsRead, PhasesAreRead
  <2> QED BY <1>3, <2>2, <2>3
<1>7. CASE Mode(d) = "paired_complementary"
  <2> DEFINE pairs == d.control.pairs
             listed == {pairs[m[1]][m[2]] : m \in Members(pairs)}
             ids == {d.components[c].id : c \in Actuators(d)}
  <2>1. PairedRefusal(d, cmd) = Accepted
    BY <1>2, <1>7 DEF GatesRefusal
  <2>2. RefuseIf(listed # ids, "invalid_control_declaration") = Accepted
    BY <2>1, OrElse DEF PairedRefusal
  <2>3. listed = ids
    BY <2>2, CodesRefuse DEF RefuseIf
  <2>4. pairs # << >> /\ Listed(pairs)
    BY <1>1, <1>2, <1>7 DEF Mode, DeclarationIsRead, PairsAreRead, Typed
  <2> HIDE DEF pairs
  <2>5. 1 \in DOMAIN pairs
    BY <2>4 DEF Listed
  <2>6. <<1, 1>> \in Members(pairs)
    BY <2>5 DEF Members
  <2> QED BY <2>3, <2>6
<1> QED BY <1>1, <1>4, <1>5, <1>6, <1>7 DEF Modes


\* What the validator may still say of the gates: only of a control net that nothing
\* drives, or of several once it has said that.
LEMMA GatesAreFine ==
  ASSUME NEW d, NEW cmd, Rendered(d, cmd)
  PROVE  LET issues == ControlIssues(d, Graph(d))
         IN  /\ \A issue \in issues :
                  issue.code \in {"multiple_control_nets", "control_net_undriven",
                                  "switch_threshold_above_carrier_amplitude"}
             /\ (\E issue \in issues : issue.code = "multiple_control_nets") =>
                  \E issue \in issues : issue.code = "control_net_undriven"
<1> DEFINE g == Graph(d)
           nets == NetsOfKind(g, "control")
           gates == {net \in nets : ~Behavioural(g, net)}
           drivers == [net \in gates |-> Cardinality(Drivers(g, net))]
           idle == OfDevice(g, {"voltage_controlled_switch", "averaged_switch"}) = {}
           several == Cardinality(nets) > 1 /\ ~DeclarationFits(d.control, Cardinality(nets))
           undriven == {At("control_net_undriven", "nets", g.place[net], 0) :
                          net \in {n \in gates : drivers[n] = 0}}
           contested == {At("control_net_multiple_drivers", "nets", g.place[net], 0) :
                           net \in {n \in gates : drivers[n] > 1}}
           levels == IF nets = {} THEN {} ELSE GateLevelIssues(g)
<1>1. ControlIssues(d, g)
        = When(idle, At("actuator_missing", "components", 0, 0))
          \cup When(several, At("multiple_control_nets", "nets", 0, 0))
          \cup undriven \cup contested \cup levels
  BY Zenon DEF ControlIssues
<1>2. Typed(d) /\ Refusal(d, cmd) = Accepted
  BY DEF Rendered
<1>3. gates = nets
  <2>1. \A c \in Components(g) : g.device[c] = KindOf(d, c) /\ Renderable(KindOf(d, c))
    BY GraphComponents
  <2> HIDE DEF g
  <2>2. \A net \in nets : ~Behavioural(g, net)
    BY <2>1 DEF Behavioural, Users
  <2> HIDE DEF nets
  <2> QED BY <2>2
<1>4. ~idle
  <2>1. PICK c : c \in Actuators(d)
    BY SomeActuator
  <2>2. c \in DOMAIN d.components /\ KindOf(d, c) = "voltage_controlled_switch"
    BY <2>1 DEF Actuators, OfKind
  <2>3. c \in Components(g) /\ g.device[c] = "voltage_controlled_switch"
    BY <2>2, GraphComponents
  <2> HIDE DEF g
  <2> QED BY <2>3 DEF OfDevice
<1>5. \A net \in nets : /\ Cardinality(Drivers(g, net)) \in Nat
                        /\ ~(Cardinality(Drivers(g, net)) > 1)
                        /\ Cardinality(Drivers(g, net)) = 0 => Drivers(g, net) = {}
  <2> SUFFICES ASSUME NEW net \in nets
               PROVE  /\ Cardinality(Drivers(g, net)) \in Nat
                      /\ ~(Cardinality(Drivers(g, net)) > 1)
                      /\ Cardinality(Drivers(g, net)) = 0 => Drivers(g, net) = {}
    OBVIOUS
  <2>1. Drivers(g, net) \in SUBSET CarriersOn(d, net)
    BY DriversAreCarriers
  <2>2. \A j, k \in CarriersOn(d, net) : j = k
    BY <1>2, RefusalParts, CarriersApart DEF CarriersOn
  <2> HIDE DEF g, nets
  <2> QED BY <2>1, <2>2, AtMostOne
<1>6. several => \E net \in nets : Cardinality(Drivers(g, net)) = 0
  <2> SUFFICES ASSUME several, \A net \in nets : Cardinality(Drivers(g, net)) # 0 PROVE FALSE
    OBVIOUS
  <2>1. \A net \in nets : Drivers(g, net) # {}
    BY FS_EmptySet
  <2>2. nets = GateNets(d)
    BY <2>1, ControlNetsAreGates
  <2> HIDE DEF nets
  <2> QED BY <2>2, DeclarationFitsGates
<1>7. \A issue \in levels : issue.code = "switch_threshold_above_carrier_amplitude"
  <2> SUFFICES ASSUME NEW issue \in GateLevelIssues(g)
               PROVE  issue.code = "switch_threshold_above_carrier_amplitude"
    OBVIOUS
  <2>1. PICK c : issue = At("switch_threshold_above_carrier_amplitude", "components", c, 0)
    BY DEF GateLevelIssues
  <2> QED BY <2>1 DEF At
<1> HIDE DEF g, nets, idle, several, levels
<1>8. contested = {}
  BY <1>3, <1>5
<1>9. \A issue \in undriven : issue.code = "control_net_undriven"
  <2> SUFFICES ASSUME NEW issue \in undriven PROVE issue.code = "control_net_undriven"
    OBVIOUS
  <2>1. PICK n : issue = At("control_net_undriven", "nets", n, 0)
    OBVIOUS
  <2> QED BY <2>1 DEF At
<1>10. several => undriven # {}
  BY <1>3, <1>6
<1> HIDE DEF undriven, contested, gates, drivers
<1>11. When(idle, At("actuator_missing", "components", 0, 0)) = {}
  BY <1>4 DEF When
<1>12. \A issue \in When(several, At("multiple_control_nets", "nets", 0, 0)) :
         several /\ issue.code = "multiple_control_nets"
  BY DEF When, At
<1>13. \A issue \in ControlIssues(d, g) :
         \/ several /\ issue.code = "multiple_control_nets"
         \/ issue.code = "control_net_undriven"
         \/ issue.code = "switch_threshold_above_carrier_amplitude"
  BY <1>1, <1>7, <1>8, <1>9, <1>11, <1>12
<1>14. several => \E issue \in ControlIssues(d, g) : issue.code = "control_net_undriven"
  BY <1>1, <1>9, <1>10
<1> QED BY <1>13, <1>14 DEF g

\* What the validator may say of a document that is compiled.
LeftBehind(overrides) ==
  {"schema_violation", "unknown_parameter", "unknown_port", "isolated_net",
   "disconnected_graph", "voltage_source_loop", "control_net_undriven",
   "invalid_parameter_value", "fingerprint_mismatch"}
  \cup (IF overrides = << >> THEN {} ELSE {"missing_parameter"})

\* So no error of it concerns a gate, a device, a net or a carrier.
LEMMA IssuesOfCompiled ==
  ASSUME NEW d, NEW cmd, Rendered(d, cmd)
  PROVE  /\ Codes(Issues(d)) \ Warnings \subseteq LeftBehind(cmd.overrides)
         /\ {"not_compilable", "actuator_missing"} \cap Codes(Issues(d)) = {}
         /\ "multiple_control_nets" \in Codes(Issues(d)) => HasError(Issues(d))
<1> DEFINE g == Graph(d)
           found == TopLevelIssues(d) \cup NetIssues(d) \cup ComponentIssues(d, g)
                    \cup GraphIssues(d, g)
           more == FingerprintIssues(d, found)
           Fine == LeftBehind(cmd.overrides) \cup {"multiple_control_nets", "no_output_load",
                      "switch_threshold_above_carrier_amplitude"}
<1>1. d.form # "not_object"
  BY DEF Rendered, Buildable
<1>2. \A issue \in TopLevelIssues(d) : issue.code = "schema_violation"
  BY DEF TopLevelIssues, At
<1>3. \A issue \in NetIssues(d) : issue.code = "schema_violation"
  BY NetsAreFine
<1>4. \A issue \in ComponentIssues(d, g) : issue.code \in LeftBehind(cmd.overrides)
  <2> SUFFICES ASSUME NEW issue \in ComponentIssues(d, g)
               PROVE  issue.code \in LeftBehind(cmd.overrides)
    OBVIOUS
  <2>1. issue.code \in {"schema_violation", "unknown_port", "unknown_parameter",
                        "invalid_parameter_value"}
                       \cup (IF cmd.overrides = << >> THEN {} ELSE {"missing_parameter"})
    BY ComponentsAreFine
  <2> QED BY <2>1 DEF LeftBehind
<1>5. /\ \A issue \in GraphIssues(d, g) : issue.code \in Fine
      /\ (\E issue \in GraphIssues(d, g) : issue.code = "multiple_control_nets") =>
           \E issue \in GraphIssues(d, g) : issue.code = "control_net_undriven"
  <2>1. \A issue \in RenderabilityIssues(g) : issue.code = "no_output_load"
    BY CardsAreFine
  <2>2. \A issue \in ConnectivityIssues(g) : issue.code \in {"isolated_net", "disconnected_graph"}
    BY ConnectionsAreFine
  <2>3. /\ \A issue \in ControlIssues(d, g) :
             issue.code \in {"multiple_control_nets", "control_net_undriven",
                             "switch_threshold_above_carrier_amplitude"}
        /\ (\E issue \in ControlIssues(d, g) : issue.code = "multiple_control_nets") =>
             \E issue \in ControlIssues(d, g) : issue.code = "control_net_undriven"
    BY GatesAreFine
  <2>4. \A issue \in SourceIssues(d, g) : issue.code = "voltage_source_loop"
    BY DEF SourceIssues, When, At
  <2> HIDE DEF g
  <2>5. CASE ~GraphIsChecked(g)
    BY <2>5 DEF GraphIssues
  <2>6. CASE GraphIsChecked(g)
    <3>1. GraphIssues(d, g) = RenderabilityIssues(g) \cup ConnectivityIssues(g)
                              \cup ControlIssues(d, g) \cup SourceIssues(d, g)
      BY <2>6 DEF GraphIssues
    <3> QED BY <2>1, <2>2, <2>3, <2>4, <3>1 DEF LeftBehind
  <2> QED BY <2>5, <2>6
<1>6. \A issue \in more : issue.code = "fingerprint_mismatch"
  <2> HIDE DEF found
  <2> QED BY DEF FingerprintIssues, When, At
<1>7. CASE d.form = "other_schema"
  <2>1. Issues(d) = {At("schema_violation", "/schema", 0, 0)}
    BY <1>7 DEF Issues
  <2>2. Codes(Issues(d)) = {"schema_violation"}
    BY <2>1 DEF Codes, At
  <2> QED BY <2>2 DEF LeftBehind
<1>8. CASE d.form # "other_schema"
  <2>1. Issues(d) = found \cup more
    BY Zenon, <1>1, <1>8 DEF Issues
  <2> HIDE DEF g, more, Fine
  <2>2. \A issue \in found : issue.code \in Fine
    BY <1>2, <1>3, <1>4, <1>5 DEF Fine, LeftBehind
  <2>3. \A issue \in Issues(d) : issue.code \in Fine
    BY <1>6, <2>1, <2>2 DEF Fine, LeftBehind
  <2>4. Codes(Issues(d)) \subseteq Fine
    BY <2>3 DEF Codes
  <2>5. "multiple_control_nets" \in Codes(Issues(d)) => "control_net_undriven" \in Codes(Issues(d))
    <3> SUFFICES ASSUME NEW issue \in Issues(d), issue.code = "multiple_control_nets"
                 PROVE  \E other \in Issues(d) : other.code = "control_net_undriven"
      BY DEF Codes
    <3>1. issue \in GraphIssues(d, g)
      BY <1>2, <1>3, <1>4, <1>6, <2>1 DEF LeftBehind
    <3>2. \E other \in GraphIssues(d, g) : other.code = "control_net_undriven"
      BY <1>5, <3>1
    <3> QED BY <2>1, <3>2
  <2> HIDE DEF found
  <2>6. "multiple_control_nets" \in Codes(Issues(d)) => HasError(Issues(d))
    BY <2>5 DEF HasError, Warnings
  <2> QED BY <2>4, <2>6 DEF Fine, LeftBehind, Warnings
<1> QED BY <1>7, <1>8

\* The inductive invariant of the report: it is that of the document at hand, and a window was
\* rendered from a document the constructors accept.
ReportInv ==
  /\ CircuitInv
  /\ report = NotValidated \/ report = Issues(doc)
  /\ WasSolved => Buildable(doc)

\* It always holds.
LEMMA ReportInvariant == CircuitSpec => []ReportInv
<1>1. CircuitInit => ReportInv
  BY DEF CircuitInit, CircuitInv, ReportInv, Unsolved, WasSolved
<1>2. ReportInv /\ [CircuitNext]_circuitVars /\ CircuitInv' => ReportInv'
  <2> SUFFICES ASSUME ReportInv, [CircuitNext]_circuitVars, CircuitInv' PROVE ReportInv'
    OBVIOUS
  <2>1. ASSUME NEW netlist \in Netlists, Import(netlist) PROVE ReportInv'
    <3>1. /\ doc = NoDocument /\ window' = window
          /\ (report' = report /\ doc' = doc) \/ report' = Issues(doc')
      BY <2>1 DEF Import
    <3>2. window'.outcome = "unsolved"
      BY <3>1 DEF ReportInv, CircuitInv
    <3> QED BY <3>1, <3>2 DEF ReportInv, WasSolved
  <2>2. CASE Edit
    <3>1. window'.outcome = "unsolved" /\ report' = NotValidated
      BY <2>2 DEF Edit, Unsolved
    <3> QED BY <3>1 DEF ReportInv, WasSolved, NotValidated
  <2>3. CASE Validate
    BY <2>3 DEF Validate, ReportInv, WasSolved
  <2>4. ASSUME NEW duty \in CommandedDuties, NEW span \in Spans, NEW overrides \in Overrides,
               Solve(duty, span, overrides)
        PROVE  ReportInv'
    <3>1. Buildable(doc) /\ doc' = doc /\ report' = report
      BY <2>4 DEF Solve
    <3> QED BY <3>1 DEF ReportInv, WasSolved, NotValidated, CircuitInv
  <2>5. CASE UNCHANGED circuitVars
    BY <2>5 DEF circuitVars, ReportInv, WasSolved, NotValidated
  <2> QED BY <2>1, <2>2, <2>3, <2>4, <2>5 DEF CircuitNext
<1> QED BY <1>1, <1>2, CircuitInvariant, PTL DEF CircuitSpec

\* Whatever document is compiled, through the validator or past it, the two readings of it agree
\* (topology_validation.validate_topology_data and circuit_compile.compile_circuit): an accepted
\* document was not warned of gates or devices that cannot be honoured, and the errors of one that
\* is compiled all the same are those left to the validator.
THEOREM ValidatorAgrees == CircuitSpec => [](Typed(doc) => ValidatorAndCompilerAgree)
<1>1. ASSUME ReportInv, Typed(doc) PROVE ValidatorAndCompilerAgree
  <2> SUFFICES ASSUME WasSolved, report # NotValidated
               PROVE  /\ Codes(report) \ Warnings \subseteq LeftToTheValidator
                      /\ ~HasError(report) => "multiple_control_nets" \notin Codes(report)
                      /\ ~HasError(report) => "not_compilable" \notin Codes(report)
                      /\ ~HasError(report) => "actuator_missing" \notin Codes(report)
    BY DEF ValidatorAndCompilerAgree
  <2>1. Rendered(doc, window.command) /\ report = Issues(doc)
    BY <1>1 DEF ReportInv, CircuitInv, Rendered
  <2>2. LeftToTheValidator = LeftBehind(window.command.overrides)
    BY Zenon DEF LeftToTheValidator, LeftBehind
  <2> QED BY <2>1, <2>2, IssuesOfCompiled
<1> QED BY <1>1, ReportInvariant, PTL

-------------------------------------------------------------------------------
(* The verdicts on a graph: islands, and loops of ideal sources. *)

\* Counting up to a number.
LEMMA CountUp ==
  ASSUME NEW N \in Nat, NEW P, 0 \in P, \A k \in 1 .. N : k - 1 \in P => k \in P
  PROVE  \A k \in 0 .. N : k \in P
<1> DEFINE T == {k \in 0 .. N : k \notin P}
<1> SUFFICES ASSUME T # {} PROVE FALSE
  OBVIOUS
<1>1. T \in SUBSET Nat
  OBVIOUS
<1>2. PICK n \in T : \A m \in T : ~(m < n)
  BY <1>1, LeastOf
<1>3. n # 0 /\ n \in 1 .. N /\ n - 1 \in 0 .. N /\ n - 1 < n
  BY <1>2
<1>4. n - 1 \in P
  BY <1>2, <1>3
<1> QED BY <1>2, <1>3, <1>4

\* A function of the numbers up to one can be given step by step.
Built(N, S, first, next) ==
  {W \in [0 .. N -> S] : W[0] = first /\ \A k \in 1 .. N : W[k] = next[<<k, W[k - 1]>>]}

LEMMA StepByStep ==
  ASSUME NEW N \in Nat, NEW S, NEW first \in S, NEW next \in [(1 .. N) \X S -> S]
  PROVE  \E W : W \in Built(N, S, first, next)
<1> DEFINE Begun(W, n) == W[0] = first /\ \A k \in 1 .. n : W[k] = next[<<k, W[k - 1]>>]
           P == {n \in 0 .. N : \E W \in [0 .. n -> S] : Begun(W, n)}
<1>1. 0 \in P
  <2> DEFINE W == [k \in 0 .. 0 |-> first]
  <2>1. W \in [0 .. 0 -> S] /\ Begun(W, 0) /\ 0 \in 0 .. N
    OBVIOUS
  <2> HIDE DEF W, Begun
  <2> QED BY <2>1
<1>2. ASSUME NEW n \in 1 .. N, n - 1 \in P PROVE n \in P
  <2>1. PICK W \in [0 .. n - 1 -> S] : Begun(W, n - 1)
    BY <1>2
  <2> DEFINE V == [k \in 0 .. n |-> IF k = n THEN next[<<n, W[n - 1]>>] ELSE W[k]]
  <2>2. W[n - 1] \in S
    BY <2>1
  <2>3. next[<<n, W[n - 1]>>] \in S
    BY <2>2
  <2>4. V \in [0 .. n -> S]
    BY <2>1, <2>3
  <2>5. \A k \in 0 .. n - 1 : V[k] = W[k]
    OBVIOUS
  <2>6. V[n] = next[<<n, W[n - 1]>>]
    OBVIOUS
  <2> HIDE DEF V
  <2>7. V[0] = first
    BY <2>1, <2>5
  <2>8. \A k \in 1 .. n : V[k] = next[<<k, V[k - 1]>>]
    <3> SUFFICES ASSUME NEW k \in 1 .. n PROVE V[k] = next[<<k, V[k - 1]>>]
      OBVIOUS
    <3>1. V[k - 1] = W[k - 1]
      BY <2>5
    <3>2. CASE k = n
      BY <2>6, <3>1, <3>2
    <3>3. CASE k # n
      <4>1. k \in 1 .. n - 1
        BY <3>3
      <4> QED BY <2>1, <2>5, <3>1, <4>1
    <3> QED BY <3>2, <3>3
  <2> QED BY <2>4, <2>7, <2>8
<1> HIDE DEF P
<1>3. N \in P
  <2>1. \A k \in 0 .. N : k \in P
    BY <1>1, <1>2, CountUp
  <2> QED BY <2>1
<1> QED BY <1>3 DEF P, Built

\* The walk over a graph, one component after the other.
IsWalk(W, g, net) ==
  /\ W \in [0 .. Cardinality(Components(g)) -> SUBSET ({net} \cup BoundNets(g))]
  /\ W[0] = {net}
  /\ \A k \in 1 .. Cardinality(Components(g)) : W[k] = Spread(g, W[k - 1])

LEMMA WalkIs ==
  ASSUME NEW g, IsFiniteSet(Components(g)), NEW net
  PROVE  \E W : IsWalk(W, g, net) /\ ReachedFrom(g, net) = W[Cardinality(Components(g))]
<1> DEFINE N == Cardinality(Components(g))
           S == SUBSET ({net} \cup BoundNets(g))
           next == [p \in (1 .. N) \X S |-> Spread(g, p[2])]
           first == {net}
           Unrolled(W) == [k \in 0 .. N |-> IF k = 0 THEN first ELSE Spread(g, W[k - 1])]
           Walk == CHOOSE W : W = Unrolled(W)
<1>1. N \in Nat
  BY FS_CardinalityType
<1>2. ReachedFrom(g, net) = Walk[N]
  BY DEF ReachedFrom
<1>3. next \in [(1 .. N) \X S -> S]
  <2>1. \A r \in S : Spread(g, r) \in S
    BY DEF Spread, BoundNets
  <2> HIDE DEF N, S
  <2> QED BY <2>1
<1>4. first \in S
  OBVIOUS
<1> HIDE DEF N, S, Walk, next, first
<1>5. PICK W \in [0 .. N -> S] : W[0] = first /\ \A k \in 1 .. N : W[k] = next[<<k, W[k - 1]>>]
  <2>1. PICK W : W \in Built(N, S, first, next)
    BY <1>1, <1>3, <1>4, StepByStep
  <2> QED BY <2>1 DEF Built
<1>6. \A k \in 1 .. N : W[k] = Spread(g, W[k - 1])
  <2> SUFFICES ASSUME NEW k \in 1 .. N PROVE W[k] = Spread(g, W[k - 1])
    OBVIOUS
  <2>1. W[k - 1] \in S
    BY <1>1, <1>5
  <2> QED BY <1>5, <2>1 DEF next
<1>7. W = Unrolled(W)
  BY <1>1, <1>5, <1>6
<1>8. Walk = Unrolled(Walk)
  BY <1>7 DEF Walk
<1>9. Walk[0] = first /\ \A k \in 1 .. N : Walk[k] = Spread(g, Walk[k - 1])
  <2> DEFINE U == Unrolled(Walk)
  <2>1. U[0] = first /\ \A k \in 1 .. N : U[k] = Spread(g, Walk[k - 1])
    BY <1>1
  <2>2. Walk = U
    BY <1>8
  <2> HIDE DEF U
  <2> QED BY <2>1, <2>2
<1> HIDE DEF Unrolled
<1>10. \A k \in 0 .. N : Walk[k] \in S
  <2> DEFINE P == {k \in 0 .. N : Walk[k] \in S}
  <2>1. 0 \in P
    BY <1>1, <1>4, <1>9
  <2>2. \A k \in 1 .. N : k - 1 \in P => k \in P
    <3> SUFFICES ASSUME NEW k \in 1 .. N, k - 1 \in P PROVE k \in P
      OBVIOUS
    <3>1. next[<<k, Walk[k - 1]>>] \in S /\ next[<<k, Walk[k - 1]>>] = Spread(g, Walk[k - 1])
      BY <1>3 DEF next
    <3> QED BY <1>1, <1>9, <3>1
  <2> HIDE DEF P
  <2>3. \A k \in 0 .. N : k \in P
    BY <1>1, <2>1, <2>2, CountUp
  <2> QED BY <2>3 DEF P
<1>11. DOMAIN Walk = 0 .. N /\ Walk = [k \in 0 .. N |-> Walk[k]]
  BY <1>8 DEF Unrolled
<1>12. Walk \in [0 .. N -> S]
  BY <1>10, <1>11
<1>13. IsWalk(Walk, g, net)
  BY <1>9, <1>12 DEF IsWalk, N, S, first
<1> QED BY <1>2, <1>13 DEF N

\* The components a set of nets touches.
Touched(g, reached) == {c \in Components(g) : NetsOf(g, c) \cap reached # {}}

\* Enough steps reach everything: each touches a component more, or nothing more is reached.
LEMMA WalkEnds ==
  ASSUME NEW g, IsFiniteSet(Components(g)), NEW net \in BoundNets(g)
  PROVE  LET R == ReachedFrom(g, net)
         IN  net \in R /\ R \subseteq BoundNets(g) /\ Spread(g, R) = R
<1> DEFINE N == Cardinality(Components(g))
<1>1. N \in Nat
  BY FS_CardinalityType
<1>2. PICK W : IsWalk(W, g, net) /\ ReachedFrom(g, net) = W[N]
  BY WalkIs
<1>3. \A k \in 0 .. N : W[k] \subseteq BoundNets(g)
  BY <1>2 DEF IsWalk
<1> DEFINE T(k) == Touched(g, W[k])
<1>4. \A k \in 0 .. N : IsFiniteSet(T(k)) /\ Cardinality(T(k)) \in Nat /\ Cardinality(T(k)) <= N
  <2> SUFFICES ASSUME NEW k \in 0 .. N
               PROVE  IsFiniteSet(T(k)) /\ Cardinality(T(k)) \in Nat /\ Cardinality(T(k)) <= N
    OBVIOUS
  <2>1. T(k) \in SUBSET Components(g)
    BY DEF Touched
  <2> HIDE DEF T
  <2> QED BY <2>1, FS_Subset, FS_CardinalityType
<1> HIDE DEF N
<1> DEFINE P == {k \in 0 .. N : /\ net \in W[k]
                                /\ Spread(g, W[k]) = W[k] \/ Cardinality(T(k)) > k}
<1>5. 0 \in P
  <2>1. W[0] = {net}
    BY <1>2 DEF IsWalk
  <2>2. PICK c \in Components(g) : net \in NetsOf(g, c)
    BY DEF BoundNets
  <2>3. T(0) # {}
    BY <2>1, <2>2 DEF Touched
  <2>4. 0 \in 0 .. N
    BY <1>1
  <2> HIDE DEF T
  <2>5. Cardinality(T(0)) # 0
    BY <1>4, <2>3, <2>4, FS_EmptySet
  <2> QED BY <1>4, <2>1, <2>4, <2>5
<1>6. ASSUME NEW k \in 1 .. N, k - 1 \in P PROVE k \in P
  <2>1. W[k] = Spread(g, W[k - 1]) /\ k - 1 \in 0 .. N /\ k \in 0 .. N
    BY <1>1, <1>2 DEF IsWalk, N
  <2>2. net \in W[k]
    BY <1>6, <2>1 DEF Spread
  <2>3. CASE Spread(g, W[k - 1]) = W[k - 1]
    BY <2>1, <2>2, <2>3
  <2>4. CASE Cardinality(T(k - 1)) > k - 1
    <3>1. T(k - 1) \subseteq T(k)
      BY <2>1 DEF Touched, Spread
    <3>2. CASE T(k) = T(k - 1)
      <4>1. \A R : Spread(g, R) = R \cup UNION {NetsOf(g, c) : c \in Touched(g, R)}
        BY DEF Spread, Touched
      <4>2. Spread(g, W[k]) = W[k] \cup UNION {NetsOf(g, c) : c \in T(k - 1)}
        BY <3>2, <4>1
      <4>3. W[k] = W[k - 1] \cup UNION {NetsOf(g, c) : c \in T(k - 1)}
        BY <2>1, <4>1
      <4> HIDE DEF T
      <4>4. Spread(g, W[k]) = W[k]
        BY <4>2, <4>3
      <4> QED BY <2>1, <2>2, <4>4
    <3>3. CASE T(k) # T(k - 1)
      <4> HIDE DEF T
      <4>1. Cardinality(T(k - 1)) <= Cardinality(T(k)) /\ Cardinality(T(k - 1)) # Cardinality(T(k))
        BY <1>4, <2>1, <3>1, <3>3, FS_Subset
      <4>2. Cardinality(T(k)) > k
        BY <1>4, <2>1, <2>4, <4>1
      <4> QED BY <2>1, <2>2, <4>2
    <3> QED BY <3>2, <3>3
  <2> QED BY <1>6, <2>3, <2>4
<1>7. N \in P
  <2> HIDE DEF P
  <2>1. \A k \in 0 .. N : k \in P
    BY <1>1, <1>5, <1>6, CountUp
  <2> QED BY <1>1, <2>1
<1>8. N \in 0 .. N /\ ~(Cardinality(T(N)) > N)
  BY <1>1, <1>4
<1> QED BY <1>2, <1>3, <1>7, <1>8

\* So the graph falls apart when a walk does not reach every net.
LEMMA IslandsAreFound ==
  ASSUME NEW g, IsFiniteSet(Components(g))
  PROVE  Disconnected(g) <=> FallsApart(g)
<1>1. ASSUME Disconnected(g) PROVE FallsApart(g)
  <2>1. PICK net \in BoundNets(g) : BoundNets(g) \ ReachedFrom(g, net) # {}
    BY <1>1 DEF Disconnected
  <2> DEFINE R == ReachedFrom(g, net)
  <2>2. net \in R /\ R \subseteq BoundNets(g) /\ Spread(g, R) = R
    BY WalkEnds
  <2> HIDE DEF R
  <2>3. \A c \in Components(g) : NetsOf(g, c) \subseteq R \/ NetsOf(g, c) \cap R = {}
    BY <2>2 DEF Spread
  <2>4. R \in (SUBSET BoundNets(g)) \ {{}, BoundNets(g)}
    BY <2>1, <2>2 DEF R
  <2> QED BY <2>3, <2>4 DEF FallsApart
<1>2. ASSUME FallsApart(g) PROVE Disconnected(g)
  <2>1. PICK part \in (SUBSET BoundNets(g)) \ {{}, BoundNets(g)} :
          \A c \in Components(g) : NetsOf(g, c) \subseteq part \/ NetsOf(g, c) \cap part = {}
    BY <1>2 DEF FallsApart
  <2>2. PICK net : net \in part
    BY <2>1
  <2> DEFINE N == Cardinality(Components(g))
  <2>3. N \in Nat
    BY FS_CardinalityType
  <2>4. PICK W : IsWalk(W, g, net) /\ ReachedFrom(g, net) = W[N]
    BY WalkIs
  <2>5. W[0] = {net} /\ \A k \in 1 .. N : W[k] = Spread(g, W[k - 1])
    BY <2>4 DEF IsWalk
  <2> HIDE DEF N
  <2> DEFINE P == {k \in 0 .. N : W[k] \subseteq part}
  <2>6. 0 \in P
    BY <2>2, <2>3, <2>5
  <2>7. ASSUME NEW k \in 1 .. N, k - 1 \in P PROVE k \in P
    <3>1. W[k - 1] \subseteq part /\ W[k] = Spread(g, W[k - 1])
      BY <2>5, <2>7
    <3>2. Spread(g, W[k - 1]) \subseteq part
      BY <2>1, <3>1 DEF Spread
    <3> QED BY <2>3, <3>1, <3>2
  <2> HIDE DEF P
  <2>8. \A k \in 0 .. N : k \in P
    BY <2>3, <2>6, <2>7, CountUp
  <2>9. ReachedFrom(g, net) \subseteq part
    BY <2>3, <2>4, <2>8 DEF P
  <2>10. BoundNets(g) \ ReachedFrom(g, net) # {} /\ net \in BoundNets(g)
    BY <2>1, <2>2, <2>9
  <2> QED BY <2>10 DEF Disconnected
<1> QED BY <1>1, <1>2

\* Even sets: the parts of two sets that the other does not have are even when both are, or
\* neither is.
Even(S) == Cardinality(S) % 2 = 0
Apart(S, T) == (S \ T) \cup (T \ S)

LEMMA ApartIsEven ==
  ASSUME NEW S, NEW T, IsFiniteSet(S), IsFiniteSet(T)
  PROVE  IsFiniteSet(Apart(S, T)) /\ (Even(Apart(S, T)) <=> (Even(S) <=> Even(T)))
<1> DEFINE a == Cardinality(S)  b == Cardinality(T)  c == Cardinality(S \cap T)
           U == S \cup T  V == S \cap T  d == Cardinality(Apart(S, T))
<1>1. /\ IsFiniteSet(U) /\ a \in Nat /\ b \in Nat /\ Cardinality(U) = a + b - c
  BY FS_Union, FS_CardinalityType
<1>2. IsFiniteSet(V) /\ c \in Nat /\ U \cap V = V
  BY FS_Intersection, FS_CardinalityType
<1>3. Apart(S, T) = U \ V
  BY DEF Apart
<1> HIDE DEF U, V
<1>4. IsFiniteSet(U \ V) /\ Cardinality(U \ V) = Cardinality(U) - Cardinality(U \cap V)
  BY <1>1, FS_Difference
<1>5. d = a + b - 2 * c
  <2>1. d = Cardinality(U \ V)
    BY <1>3
  <2>2. Cardinality(U \cap V) = c
    BY <1>2 DEF V
  <2> HIDE DEF a, b, c, d
  <2> QED BY <1>1, <1>2, <1>4, <2>1, <2>2
<1> HIDE DEF a, b, c, d
<1>6. d % 2 = 0 <=> (a % 2 = 0 <=> b % 2 = 0)
  BY <1>1, <1>2, <1>5
<1> QED BY <1>3, <1>4, <1>6 DEF Even, a, b, d

\* A graph whose sources all lie between two of its nets.
Plus(g, c) == g.ports[c]["positive"]
Minus(g, c) == g.ports[c]["negative"]

IsWiring(g, n) ==
  /\ n \in Nat /\ IsFiniteSet(DOMAIN g.kinds) /\ Wired(g) \subseteq 1 .. n
  /\ \A c \in Wired(g) : Plus(g, c) \in DOMAIN g.kinds /\ Minus(g, c) \in DOMAIN g.kinds

\* Sources that meet every net an even number of times, but for the two ends.
Path(g, S, a, b) ==
  /\ S \in SUBSET Wired(g)
  /\ \A net \in DOMAIN g.kinds : Even(Meeting(g, S, net)) <=> ~(a # b /\ net \in {a, b})

LEMMA MeetingIsFinite ==
  ASSUME NEW g, NEW n, IsWiring(g, n), NEW S \in SUBSET Wired(g), NEW net
  PROVE  IsFiniteSet(S) /\ IsFiniteSet(Meeting(g, S, net))
<1>1. S \in SUBSET (1 .. n) /\ Meeting(g, S, net) \in SUBSET (1 .. n)
  BY DEF IsWiring, Meeting
<1>2. IsFiniteSet(1 .. n)
  BY FS_Interval, 1 \in Int, n \in Int DEF IsWiring
<1> QED BY <1>1, <1>2, FS_Subset

LEMMA PathsJoin ==
  ASSUME NEW g, NEW n, IsWiring(g, n), NEW S, NEW T, NEW a, NEW b, NEW c,
         Path(g, S, a, b), Path(g, T, b, c)
  PROVE  Path(g, Apart(S, T), a, c)
<1>1. S \in SUBSET Wired(g) /\ T \in SUBSET Wired(g) /\ Apart(S, T) \in SUBSET Wired(g)
  BY DEF Path, Apart
<1>2. ASSUME NEW net \in DOMAIN g.kinds
      PROVE  Even(Meeting(g, Apart(S, T), net)) <=> ~(a # c /\ net \in {a, c})
  <2>1. Meeting(g, Apart(S, T), net) = Apart(Meeting(g, S, net), Meeting(g, T, net))
    BY DEF Meeting, Apart
  <2>2. Even(Meeting(g, Apart(S, T), net))
          <=> (Even(Meeting(g, S, net)) <=> Even(Meeting(g, T, net)))
    BY <1>1, <2>1, MeetingIsFinite, ApartIsEven
  <2>3. /\ Even(Meeting(g, S, net)) <=> ~(a # b /\ net \in {a, b})
        /\ Even(Meeting(g, T, net)) <=> ~(b # c /\ net \in {b, c})
    BY DEF Path
  <2>4. (~(a # b /\ net \in {a, b}) <=> ~(b # c /\ net \in {b, c})) <=> ~(a # c /\ net \in {a, c})
    OBVIOUS
  <2> QED BY <2>2, <2>3, <2>4
<1> QED BY <1>1, <1>2 DEF Path

LEMMA PathsTurn ==
  ASSUME NEW g, NEW S, NEW a, NEW b, Path(g, S, a, b)
  PROVE  Path(g, S, b, a)
BY DEF Path

LEMMA NoPath == ASSUME NEW g, NEW a PROVE Path(g, {}, a, a)
<1>1. \A net : Meeting(g, {}, net) = {}
  BY DEF Meeting
<1>2. Even({})
  BY FS_EmptySet DEF Even
<1> QED BY <1>1, <1>2 DEF Path

LEMMA OneSource ==
  ASSUME NEW g, NEW c \in Wired(g)
  PROVE  Path(g, {c}, Plus(g, c), Minus(g, c))
<1> DEFINE a == Plus(g, c)  b == Minus(g, c)
<1> SUFFICES ASSUME NEW net PROVE Even(Meeting(g, {c}, net)) <=> ~(a # b /\ net \in {a, b})
  BY DEF Path
<1>1. Meeting(g, {c}, net) = IF a # b /\ net \in {a, b} THEN {c} ELSE {}
  BY DEF Meeting, Plus, Minus
<1>2. Even({}) /\ ~Even({c})
  <2>1. Cardinality({}) = 0 /\ Cardinality({c}) = 1
    BY FS_EmptySet, FS_Singleton
  <2> QED BY <2>1 DEF Even
<1> QED BY <1>1, <1>2

\* What one source does to the groups.
Joinings(g, n) == [loop : 0 .. n, group : [DOMAIN g.kinds -> DOMAIN g.kinds]]

LEMMA JoinOf ==
  ASSUME NEW g, NEW n, IsWiring(g, n), NEW before \in Joinings(g, n), NEW c \in 1 .. n
  PROVE  LET after == Join(g, before, c)
             left == before.group[Plus(g, c)]
             right == before.group[Minus(g, c)]
         IN  /\ after \in Joinings(g, n)
             /\ before.loop # 0 \/ c \notin Wired(g) => after = before
             /\ before.loop = 0 /\ c \in Wired(g) =>
                  IF left = right THEN after.loop = c /\ after.group = before.group
                  ELSE /\ after.loop = 0
                       /\ \A net \in DOMAIN g.kinds :
                            after.group[net] = IF before.group[net] = right THEN left
                                               ELSE before.group[net]
<1> DEFINE after == Join(g, before, c)
           left == before.group[Plus(g, c)]
           right == before.group[Minus(g, c)]
           D == DOMAIN g.kinds
<1>1. before.loop \in 0 .. n /\ before.group \in [D -> D] /\ DOMAIN before.group = D
      /\ before = [loop |-> before.loop, group |-> before.group]
  BY DEF Joinings
<1>2. CASE before.loop # 0 \/ c \notin Wired(g)
  <2>1. after = before
    BY <1>2 DEF Join, Wired
  <2> QED BY <1>2, <2>1
<1>3. CASE before.loop = 0 /\ c \in Wired(g)
  <2>1. ~(\/ before.loop # 0
          \/ c \notin OfDevice(g, {"voltage_source"})
          \/ DOMAIN g.ports[c] # {"positive", "negative"})
    BY <1>3 DEF Wired
  <2>2. left \in D /\ right \in D
    BY <1>1, <1>3 DEF IsWiring
  <2>3. CASE left = right
    <3>1. after = [before EXCEPT !.loop = c]
      BY <2>1, <2>3 DEF Join, Plus, Minus
    <3> HIDE DEF after, D, left, right
    <3>2. after = [loop |-> c, group |-> before.group]
      BY <1>1, <3>1
    <3>3. after \in Joinings(g, n) /\ after.loop = c /\ after.group = before.group
      BY <1>1, <3>2 DEF Joinings, D
    <3> QED BY <1>3, <2>3, <3>3 DEF after, left, right
  <2>4. CASE left # right
    <3> DEFINE group == [net \in D |-> IF before.group[net] = right THEN left
                                       ELSE before.group[net]]
    <3>1. after = [before EXCEPT !.group = [net \in DOMAIN @ |->
                                              IF @[net] = right THEN left ELSE @[net]]]
      BY <2>1, <2>4 DEF Join, Plus, Minus
    <3> HIDE DEF after, left, right
    <3>2. after = [before EXCEPT !.group = group]
      BY <1>1, <3>1
    <3>3. group \in [D -> D]
      BY <1>1, <2>2
    <3>4. \A net \in D : group[net] = IF before.group[net] = right THEN left ELSE before.group[net]
      OBVIOUS
    <3> HIDE DEF group, D
    <3>5. after = [loop |-> before.loop, group |-> group]
      BY <1>1, <3>2
    <3>6. after \in Joinings(g, n) /\ after.loop = 0 /\ after.group = group
      BY <1>1, <1>3, <3>3, <3>5 DEF Joinings, D
    <3> QED BY <1>3, <2>4, <3>4, <3>6 DEF after, left, right, D
  <2> QED BY <2>3, <2>4
<1> QED BY <1>2, <1>3

\* The sources one after the other.
IsJoining(J, g, n) ==
  /\ J \in [0 .. n -> Joinings(g, n)]
  /\ J[0] = [loop |-> 0, group |-> [net \in DOMAIN g.kinds |-> net]]
  /\ \A k \in 1 .. n : J[k] = Join(g, J[k - 1], k)

LEMMA JoiningIs ==
  ASSUME NEW d, NEW g, IsWiring(g, Len(d.components))
  PROVE  \E J : IsJoining(J, g, Len(d.components)) /\ SourceLoop(d, g) = J[Len(d.components)].loop
<1> DEFINE N == Len(d.components)
           S == Joinings(g, N)
           first == [loop |-> 0, group |-> [net \in DOMAIN g.kinds |-> net]]
           next == [p \in (1 .. N) \X S |-> Join(g, p[2], p[1])]
           Unrolled(J) == [k \in 0 .. N |-> IF k = 0 THEN first ELSE Join(g, J[k - 1], k)]
           Steps == CHOOSE J : J = Unrolled(J)
<1>1. N \in Nat /\ IsWiring(g, N)
  BY DEF IsWiring
<1>2. SourceLoop(d, g) = Steps[N].loop
  BY DEF SourceLoop
<1> HIDE DEF N
<1>3. next \in [(1 .. N) \X S -> S]
  <2>1. \A c \in 1 .. N : \A before \in S : Join(g, before, c) \in S
    BY <1>1, JoinOf
  <2> HIDE DEF S
  <2> QED BY <2>1
<1>4. first \in S
  BY <1>1 DEF Joinings
<1> HIDE DEF S, Steps, next, first
<1>5. PICK J \in [0 .. N -> S] : J[0] = first /\ \A k \in 1 .. N : J[k] = next[<<k, J[k - 1]>>]
  <2>1. PICK J : J \in Built(N, S, first, next)
    BY <1>1, <1>3, <1>4, StepByStep
  <2> QED BY <2>1 DEF Built
<1>6. \A k \in 1 .. N : J[k] = Join(g, J[k - 1], k)
  <2> SUFFICES ASSUME NEW k \in 1 .. N PROVE J[k] = Join(g, J[k - 1], k)
    OBVIOUS
  <2>1. J[k - 1] \in S
    BY <1>1, <1>5
  <2> QED BY <1>5, <2>1 DEF next
<1>7. J = Unrolled(J)
  BY <1>1, <1>5, <1>6
<1>8. Steps = Unrolled(Steps)
  BY <1>7 DEF Steps
<1>9. Steps[0] = first /\ \A k \in 1 .. N : Steps[k] = Join(g, Steps[k - 1], k)
  <2> DEFINE U == Unrolled(Steps)
  <2>1. U[0] = first /\ \A k \in 1 .. N : U[k] = Join(g, Steps[k - 1], k)
    BY <1>1
  <2>2. Steps = U
    BY <1>8
  <2> HIDE DEF U
  <2> QED BY <2>1, <2>2
<1> HIDE DEF Unrolled
<1>10. \A k \in 0 .. N : Steps[k] \in S
  <2> DEFINE P == {k \in 0 .. N : Steps[k] \in S}
  <2>1. 0 \in P
    BY <1>1, <1>4, <1>9
  <2>2. \A k \in 1 .. N : k - 1 \in P => k \in P
    <3> SUFFICES ASSUME NEW k \in 1 .. N, k - 1 \in P PROVE k \in P
      OBVIOUS
    <3>1. /\ next[<<k, Steps[k - 1]>>] \in S
          /\ next[<<k, Steps[k - 1]>>] = Join(g, Steps[k - 1], k)
      BY <1>3 DEF next
    <3> QED BY <1>1, <1>9, <3>1
  <2> HIDE DEF P
  <2>3. \A k \in 0 .. N : k \in P
    BY <1>1, <2>1, <2>2, CountUp
  <2> QED BY <2>3 DEF P
<1>11. DOMAIN Steps = 0 .. N /\ Steps = [k \in 0 .. N |-> Steps[k]]
  BY <1>8 DEF Unrolled
<1>12. Steps \in [0 .. N -> S]
  BY <1>10, <1>11
<1>13. IsJoining(Steps, g, N)
  BY <1>9, <1>12 DEF IsJoining, S, first
<1> QED BY <1>2, <1>13 DEF N

\* As long as there is no loop, the nets of a group are joined by sources, a source that was
\* looked at joins two nets of one group, which were of two groups before; and a loop is a source
\* between two nets of one group.
LEMMA GroupsAreJoined ==
  ASSUME NEW g, NEW n, IsWiring(g, n), NEW J, IsJoining(J, g, n)
  PROVE  \A k \in 0 .. n :
           /\ J[k].loop = 0 =>
                /\ \A a, b \in DOMAIN g.kinds : J[k].group[a] = J[k].group[b] =>
                     \E S \in SUBSET (Wired(g) \cap (1 .. k)) : Path(g, S, a, b)
                /\ \A c \in Wired(g) \cap (1 .. k) :
                     /\ J[k].group[Plus(g, c)] = J[k].group[Minus(g, c)]
                     /\ J[c - 1].group[Plus(g, c)] # J[c - 1].group[Minus(g, c)]
           /\ J[k].loop # 0 =>
                \E c \in Wired(g) \cap (1 .. k) :
                  J[c - 1].loop = 0 /\ J[c - 1].group[Plus(g, c)] = J[c - 1].group[Minus(g, c)]
<1> DEFINE D == DOMAIN g.kinds
           Paths(k) == \A a, b \in D : J[k].group[a] = J[k].group[b] =>
                         \E S \in SUBSET (Wired(g) \cap (1 .. k)) : Path(g, S, a, b)
           Closed(k) == \A c \in Wired(g) \cap (1 .. k) :
                          /\ J[k].group[Plus(g, c)] = J[k].group[Minus(g, c)]
                          /\ J[c - 1].group[Plus(g, c)] # J[c - 1].group[Minus(g, c)]
           Loop(k) == \E c \in Wired(g) \cap (1 .. k) :
                        /\ J[c - 1].loop = 0
                        /\ J[c - 1].group[Plus(g, c)] = J[c - 1].group[Minus(g, c)]
           P == {k \in 0 .. n : /\ J[k].loop = 0 => Paths(k) /\ Closed(k)
                                /\ J[k].loop # 0 => Loop(k)}
<1>1. n \in Nat /\ \A k \in 0 .. n : J[k] \in Joinings(g, n)
  BY DEF IsWiring, IsJoining
<1>2. 0 \in P
  <2>1. J[0].loop = 0 /\ \A a \in D : J[0].group[a] = a
    BY DEF IsJoining
  <2>2. Paths(0)
    <3> SUFFICES ASSUME NEW a \in D, NEW b \in D, J[0].group[a] = J[0].group[b]
                 PROVE  \E S \in SUBSET (Wired(g) \cap (1 .. 0)) : Path(g, S, a, b)
      OBVIOUS
    <3>1. a = b
      BY <2>1
    <3>2. Path(g, {}, a, b)
      BY <3>1, NoPath
    <3> QED BY <3>2
  <2>3. Closed(0)
    OBVIOUS
  <2>4. 0 \in 0 .. n
    BY <1>1
  <2> HIDE DEF Paths, Closed, Loop
  <2> QED BY <2>1, <2>2, <2>3, <2>4
<1>3. ASSUME NEW k \in 1 .. n, k - 1 \in P PROVE k \in P
  <2> DEFINE before == J[k - 1]
             left == before.group[Plus(g, k)]
             right == before.group[Minus(g, k)]
  <2>1. /\ k \in 0 .. n /\ k - 1 \in 0 .. n /\ before \in Joinings(g, n)
        /\ J[k] = Join(g, before, k)
    BY <1>1 DEF IsJoining
  <2>2. /\ before.loop # 0 \/ k \notin Wired(g) => J[k] = before
        /\ before.loop = 0 /\ k \in Wired(g) =>
             IF left = right THEN J[k].loop = k /\ J[k].group = before.group
             ELSE /\ J[k].loop = 0
                  /\ \A net \in D : J[k].group[net] = IF before.group[net] = right THEN left
                                                      ELSE before.group[net]
    BY <2>1, JoinOf
  <2>3. before.loop = 0 => Paths(k - 1) /\ Closed(k - 1)
    BY <1>3
  <2>4. before.loop # 0 => Loop(k - 1)
    BY <1>3
  <2>5. 1 .. k - 1 \subseteq 1 .. k /\ k # 0 /\ k \in 1 .. k /\ k \notin 1 .. k - 1
    BY <1>1
  <2>6. \A c \in 1 .. k : c = k \/ c \in 1 .. k - 1
    BY <1>1
  <2> HIDE DEF P
  <2>7. CASE before.loop # 0
    <3>1. J[k].loop # 0 /\ Loop(k)
      BY <2>2, <2>4, <2>5, <2>7
    <3> QED BY <2>1, <3>1 DEF P
  <2>8. CASE before.loop = 0 /\ k \notin Wired(g)
    <3>1. J[k] = before /\ J[k].loop = 0
      BY <2>2, <2>8
    <3>2. Wired(g) \cap (1 .. k) = Wired(g) \cap (1 .. k - 1)
      BY <2>5, <2>6, <2>8
    <3>3. Paths(k)
      BY <2>3, <2>8, <3>1, <3>2
    <3>4. Closed(k)
      BY <2>3, <2>8, <3>1, <3>2
    <3> QED BY <2>1, <3>1, <3>3, <3>4 DEF P
  <2>9. CASE before.loop = 0 /\ k \in Wired(g) /\ left = right
    <3>1. J[k].loop = k
      BY <2>2, <2>9
    <3>2. Loop(k)
      BY <2>5, <2>9
    <3> QED BY <2>1, <2>5, <3>1, <3>2 DEF P
  <2>10. CASE before.loop = 0 /\ k \in Wired(g) /\ left # right
    <3>1. J[k].loop = 0
      BY <2>2, <2>10
    <3>2. \A net \in D : J[k].group[net] = IF before.group[net] = right THEN left
                                           ELSE before.group[net]
      BY <2>2, <2>10
    <3>3. \A c \in Wired(g) : Plus(g, c) \in D /\ Minus(g, c) \in D
      BY DEF IsWiring
    <3>4. Closed(k)
      <4> SUFFICES ASSUME NEW c \in Wired(g), c \in 1 .. k
                   PROVE  /\ J[k].group[Plus(g, c)] = J[k].group[Minus(g, c)]
                          /\ J[c - 1].group[Plus(g, c)] # J[c - 1].group[Minus(g, c)]
        OBVIOUS
      <4>1. CASE c = k
        BY <2>10, <3>2, <3>3, <4>1
      <4>2. CASE c \in 1 .. k - 1
        <5>1. /\ before.group[Plus(g, c)] = before.group[Minus(g, c)]
              /\ J[c - 1].group[Plus(g, c)] # J[c - 1].group[Minus(g, c)]
          BY <2>3, <2>10, <4>2
        <5> QED BY <3>2, <3>3, <5>1
      <4> QED BY <2>6, <4>1, <4>2
    <3>5. Paths(k)
      <4> SUFFICES ASSUME NEW a \in D, NEW b \in D, J[k].group[a] = J[k].group[b]
                   PROVE  \E S \in SUBSET (Wired(g) \cap (1 .. k)) : Path(g, S, a, b)
        OBVIOUS
      <4> DEFINE p == Plus(g, k)  q == Minus(g, k)
      <4>1. p \in D /\ q \in D
        BY <2>10, <3>3
      <4>2. Path(g, {k}, p, q) /\ Path(g, {k}, q, p)
        BY <2>10, OneSource, PathsTurn
      <4>3. \A x, y \in D : before.group[x] = before.group[y] =>
              \E S \in SUBSET (Wired(g) \cap (1 .. k - 1)) : Path(g, S, x, y)
        BY <2>3, <2>10
      <4> HIDE DEF p, q, D, Paths, Closed, Loop
      <4>4. ASSUME NEW x, NEW y, NEW u \in D, NEW v \in D, Path(g, {k}, x, y), x \in D, y \in D,
                   before.group[u] = before.group[x], before.group[y] = before.group[v]
            PROVE  \E S \in SUBSET (Wired(g) \cap (1 .. k)) : Path(g, S, u, v)
        <5>1. PICK S \in SUBSET (Wired(g) \cap (1 .. k - 1)) : Path(g, S, u, x)
          BY <4>3, <4>4
        <5>2. PICK T \in SUBSET (Wired(g) \cap (1 .. k - 1)) : Path(g, T, y, v)
          BY <4>3, <4>4
        <5>3. Path(g, Apart(Apart(S, {k}), T), u, v)
          <6>1. Path(g, Apart(S, {k}), u, y)
            BY <4>4, <5>1, PathsJoin
          <6> QED BY <5>2, <6>1, PathsJoin
        <5>4. Apart(Apart(S, {k}), T) \in SUBSET (Wired(g) \cap (1 .. k))
          BY <2>5, <2>10 DEF Apart
        <5> QED BY <5>3, <5>4
      <4>5. CASE before.group[a] = before.group[b]
        <5>1. PICK S \in SUBSET (Wired(g) \cap (1 .. k - 1)) : Path(g, S, a, b)
          BY <4>3, <4>5
        <5> QED BY <2>5, <5>1
      <4>6. CASE before.group[a] # before.group[b]
        <5>1. \/ before.group[a] = right /\ before.group[b] = left
              \/ before.group[b] = right /\ before.group[a] = left
          BY <3>2, <4>6 DEF D
        <5>2. left = before.group[p] /\ right = before.group[q]
          BY DEF p, q
        <5> HIDE DEF left, right
        <5>3. CASE before.group[a] = right /\ before.group[b] = left
          BY <4>1, <4>2, <4>4, <5>2, <5>3
        <5>4. CASE before.group[b] = right /\ before.group[a] = left
          BY <4>1, <4>2, <4>4, <5>2, <5>4
        <5> QED BY <5>1, <5>3, <5>4
      <4> QED BY <4>5, <4>6
    <3> QED BY <2>1, <3>1, <3>4, <3>5 DEF P
  <2> QED BY <2>7, <2>8, <2>9, <2>10
<1> HIDE DEF P
<1>4. \A k \in 0 .. n : k \in P
  BY <1>1, <1>2, <1>3, CountUp
<1> QED BY <1>4 DEF P

\* A source between two nets of one group closes a cycle.
LEMMA LoopIsCycle ==
  ASSUME NEW g, NEW n, IsWiring(g, n), NEW J, IsJoining(J, g, n), J[n].loop # 0
  PROVE  HasCycle(g)
<1>1. n \in Nat /\ n \in 0 .. n
  BY DEF IsWiring
<1>2. PICK c \in Wired(g) \cap (1 .. n) :
        J[c - 1].loop = 0 /\ J[c - 1].group[Plus(g, c)] = J[c - 1].group[Minus(g, c)]
  BY <1>1, GroupsAreJoined
<1> DEFINE p == Plus(g, c)  q == Minus(g, c)
<1>3. p \in DOMAIN g.kinds /\ q \in DOMAIN g.kinds /\ c - 1 \in 0 .. n /\ c \notin 1 .. c - 1
  BY <1>1 DEF IsWiring
<1> HIDE DEF p, q
<1>4. PICK S \in SUBSET (Wired(g) \cap (1 .. c - 1)) : Path(g, S, p, q)
  BY <1>2, <1>3, GroupsAreJoined DEF p, q
<1> DEFINE T == Apart(S, {c})
<1>5. Path(g, T, p, p)
  <2>1. Path(g, {c}, q, p)
    BY OneSource, PathsTurn DEF p, q
  <2> QED BY <1>4, <2>1, PathsJoin
<1>6. c \in T
  BY <1>3 DEF Apart
<1> HIDE DEF T
<1>7. T \in (SUBSET Wired(g)) \ {{}}
  BY <1>5, <1>6 DEF Path
<1>8. \A net \in DOMAIN g.kinds : Cardinality(Meeting(g, T, net)) % 2 = 0
  BY <1>5 DEF Path, Even
<1> QED BY <1>7, <1>8 DEF HasCycle

\* The sources with exactly one end in a set of nets.
Cut(g, S, X) == {c \in S : (Plus(g, c) \in X) # (Minus(g, c) \in X)}

\* A cycle crosses the border of any set of nets an even number of times.
LEMMA CutIsEven ==
  ASSUME NEW g, NEW n, IsWiring(g, n), NEW S \in SUBSET Wired(g),
         \A net \in DOMAIN g.kinds : Even(Meeting(g, S, net)),
         NEW X \in SUBSET (DOMAIN g.kinds)
  PROVE  Even(Cut(g, S, X))
<1> DEFINE N == Cardinality(DOMAIN g.kinds)
           P == {k \in 0 .. N : \A Y \in SUBSET (DOMAIN g.kinds) :
                                  Cardinality(Y) = k => Even(Cut(g, S, Y))}
<1>1. N \in Nat
  BY FS_CardinalityType DEF IsWiring
<1>2. \A Y \in SUBSET (DOMAIN g.kinds) :
         IsFiniteSet(Y) /\ Cardinality(Y) \in 0 .. N
  <2> SUFFICES ASSUME NEW Y \in SUBSET (DOMAIN g.kinds)
               PROVE  IsFiniteSet(Y) /\ Cardinality(Y) \in 0 .. N
    OBVIOUS
  <2>1. IsFiniteSet(Y) /\ Cardinality(Y) <= N /\ Cardinality(Y) \in Nat
    BY FS_Subset, FS_CardinalityType DEF IsWiring
  <2> QED BY <1>1, <2>1
<1>3. \A Y : IsFiniteSet(Cut(g, S, Y))
  <2> SUFFICES ASSUME NEW Y PROVE IsFiniteSet(Cut(g, S, Y))
    OBVIOUS
  <2>1. IsFiniteSet(S) /\ Cut(g, S, Y) \in SUBSET S
    BY MeetingIsFinite DEF Cut
  <2> QED BY <2>1, FS_Subset
<1> HIDE DEF N
<1>4. 0 \in P
  <2> SUFFICES ASSUME NEW Y \in SUBSET (DOMAIN g.kinds), Cardinality(Y) = 0
               PROVE  Even(Cut(g, S, Y))
    BY <1>1
  <2>1. Y = {}
    BY <1>2, FS_EmptySet
  <2>2. Cut(g, S, Y) = {}
    BY <2>1 DEF Cut
  <2> QED BY <2>2, FS_EmptySet DEF Even
<1>5. ASSUME NEW k \in 1 .. N, k - 1 \in P PROVE k \in P
  <2> SUFFICES ASSUME NEW Y \in SUBSET (DOMAIN g.kinds), Cardinality(Y) = k
               PROVE  Even(Cut(g, S, Y))
    BY <1>1
  <2>1. Y # {}
    BY FS_EmptySet
  <2>2. PICK net : net \in Y
    BY <2>1
  <2> DEFINE Z == Y \ {net}
  <2>3. Z \in SUBSET (DOMAIN g.kinds) /\ Cardinality(Z) = k - 1
    BY <1>2, <2>2, FS_RemoveElement
  <2>4. Even(Cut(g, S, Z))
    BY <1>5, <2>3
  <2>5. Even(Meeting(g, S, net))
    BY <2>2
  <2>6. Cut(g, S, Y) = Apart(Cut(g, S, Z), Meeting(g, S, net))
    BY <2>2 DEF Cut, Apart, Meeting, Plus, Minus
  <2> QED BY <1>3, <2>4, <2>5, <2>6, MeetingIsFinite, ApartIsEven
<1> HIDE DEF P
<1>6. \A k \in 0 .. N : k \in P
  BY <1>1, <1>4, <1>5, CountUp
<1> QED BY <1>2, <1>6 DEF P

\* The last source of a cycle closes a loop.
LEMMA CycleIsLoop ==
  ASSUME NEW g, NEW n, IsWiring(g, n), NEW J, IsJoining(J, g, n), HasCycle(g)
  PROVE  J[n].loop # 0
<1> SUFFICES ASSUME J[n].loop = 0 PROVE FALSE
  OBVIOUS
<1>1. n \in Nat /\ \A k \in 0 .. n : J[k] \in Joinings(g, n)
  BY DEF IsWiring, IsJoining
<1>2. \A b \in 0 .. n : J[b].loop = 0
  <2> SUFFICES ASSUME NEW b \in 0 .. n, J[b].loop # 0 PROVE FALSE
    OBVIOUS
  <2> DEFINE P == {k \in 0 .. n : k >= b => J[k].loop # 0}
  <2>1. 0 \in P
    BY <1>1
  <2>2. ASSUME NEW k \in 1 .. n, k - 1 \in P PROVE k \in P
    <3> SUFFICES ASSUME k # b, k >= b PROVE J[k].loop # 0
      BY <1>1
    <3>1. k - 1 \in 0 .. n /\ k - 1 >= b
      BY <1>1
    <3>2. J[k - 1].loop # 0 /\ J[k - 1] \in Joinings(g, n) /\ J[k] = Join(g, J[k - 1], k)
      BY <1>1, <2>2, <3>1 DEF IsJoining
    <3> QED BY <3>2, JoinOf
  <2> HIDE DEF P
  <2>3. \A k \in 0 .. n : k \in P
    BY <1>1, <2>1, <2>2, CountUp
  <2>4. n \in 0 .. n /\ n >= b
    BY <1>1
  <2> QED BY <2>3, <2>4 DEF P
<1>3. PICK S \in (SUBSET Wired(g)) \ {{}} :
        \A net \in DOMAIN g.kinds : Cardinality(Meeting(g, S, net)) % 2 = 0
  BY DEF HasCycle
<1>4. PICK c \in S : \A s \in S : ~(c < s)
  <2> DEFINE T == {n - s : s \in S}
  <2>1. S \in SUBSET (1 .. n) /\ S # {}
    BY <1>3 DEF IsWiring
  <2>2. T \in SUBSET Nat /\ T # {}
    BY <1>1, <2>1
  <2> HIDE DEF T
  <2>3. PICK t \in T : \A m \in T : ~(m < t)
    BY <2>2, LeastOf
  <2>4. PICK c \in S : t = n - c
    BY <2>3 DEF T
  <2>5. \A s \in S : ~(n - s < n - c)
    BY <2>3, <2>4 DEF T
  <2> QED BY <1>1, <2>1, <2>4, <2>5
<1>5. c \in Wired(g) /\ S \in SUBSET Wired(g) /\ S \in SUBSET (1 .. n) /\ c \in 1 .. n
  BY <1>3 DEF IsWiring
<1>6. c \in 0 .. n /\ c - 1 \in 0 .. n /\ c \in 1 .. c
  BY <1>1, <1>5
<1> DEFINE group == J[c - 1].group
           X == {net \in DOMAIN g.kinds : group[net] = group[Plus(g, c)]}
<1>7. group[Plus(g, c)] # group[Minus(g, c)]
  BY <1>2, <1>5, <1>6, GroupsAreJoined
<1>8. \A s \in S : s # c => s \in 1 .. c - 1 /\ group[Plus(g, s)] = group[Minus(g, s)]
  <2> SUFFICES ASSUME NEW s \in S, s # c
               PROVE  s \in 1 .. c - 1 /\ group[Plus(g, s)] = group[Minus(g, s)]
    OBVIOUS
  <2>1. s \in 1 .. c - 1
    BY <1>1, <1>4, <1>5
  <2>2. s \in Wired(g)
    BY <1>5
  <2> QED BY <1>2, <1>6, <2>1, <2>2, GroupsAreJoined
<1> HIDE DEF group
<1>9. \A s \in S : Plus(g, s) \in DOMAIN g.kinds /\ Minus(g, s) \in DOMAIN g.kinds
  BY <1>5 DEF IsWiring
<1>10. Cut(g, S, X) = {c}
  BY <1>7, <1>8, <1>9 DEF Cut
<1>11. Even(Cut(g, S, X))
  BY <1>3, <1>5, CutIsEven DEF Even
<1>12. Cardinality({c}) = 1
  BY FS_Singleton
<1> QED BY <1>10, <1>11, <1>12 DEF Even

\* So the sources close a loop when the graph has a cycle of them.
LEMMA LoopsAreFound ==
  ASSUME NEW d, NEW g, IsWiring(g, Len(d.components))
  PROVE  SourceLoop(d, g) # 0 <=> HasCycle(g)
<1>1. PICK J : IsJoining(J, g, Len(d.components)) /\ SourceLoop(d, g) = J[Len(d.components)].loop
  BY JoiningIs
<1> QED BY <1>1, LoopIsCycle, CycleIsLoop

\* The graph of any document: its sources lie between nets that were read.
LEMMA GraphIsWiring ==
  ASSUME NEW d, Typed(d)
  PROVE  IsFiniteSet(Components(Graph(d))) /\ IsWiring(Graph(d), Len(d.components))
<1> DEFINE g == Graph(d)
           n == Len(d.components)
           kinds == KindsOfNets(d)
           all == [c \in Parsed(d) |-> PortVerdicts(d, kinds, c)]
<1>1. /\ g.kinds = kinds /\ g.device = [c \in Parsed(d) |-> DeviceOf(d, c)]
      /\ g.ports = [c \in Parsed(d) |-> PortNets(d, all[c], c)]
  BY DEF Graph
<1>2. n \in Nat /\ DOMAIN d.components = 1 .. n
  BY ListIndices DEF Typed
<1>3. IsFiniteSet(1 .. n)
  BY <1>2, FS_Interval, 1 \in Int, n \in Int
<1>4. IsFiniteSet(DOMAIN kinds)
  <2> DEFINE S == ReadNets(d)
             f == [m \in S |-> d.nets[m].id]
             ids == {d.nets[m].id : m \in S}
  <2>1. S \subseteq DOMAIN d.nets
    BY DEF ReadNets
  <2>2. DOMAIN kinds = ids
    BY DEF KindsOfNets, NetIndex
  <2> HIDE DEF S, kinds
  <2>3. IsFiniteSet(S)
    BY <2>1, NetsAreFinite, FS_Subset
  <2>4. f \in Surjection(S, ids)
    BY DEF Surjection
  <2> HIDE DEF f
  <2>5. IsFiniteSet(ids)
    BY <2>3, <2>4, FS_Surjection
  <2> QED BY <2>2, <2>5
<1> HIDE DEF g, kinds
<1>5. Components(g) = Parsed(d) /\ Parsed(d) \subseteq 1 .. n
  BY <1>1, <1>2 DEF Components, Parsed
<1>6. IsFiniteSet(Components(g))
  BY <1>3, <1>5, FS_Subset
<1>7. Wired(g) \subseteq 1 .. n /\ Wired(g) \subseteq Parsed(d)
  BY <1>5 DEF Wired, OfDevice
<1>8. ASSUME NEW c \in Parsed(d), NEW id \in DOMAIN g.ports[c]
      PROVE  g.ports[c][id] \in DOMAIN kinds
  <2> DEFINE ports == d.components[c].ports
             verdicts == PortVerdicts(d, kinds, c)
             bound == {p \in DOMAIN verdicts : verdicts[p] = "bound"}
             Nets(s) == [i \in {ports[p].id : p \in s} |->
                           ports[CHOOSE p \in s : ports[p].id = i].net]
             k == CHOOSE p \in bound : ports[p].id = id
  <2>1. all[c] = verdicts
    OBVIOUS
  <2> HIDE DEF all, verdicts
  <2>2. g.ports[c] = PortNets(d, verdicts, c)
    BY <1>1, <2>1
  <2>3. PortNets(d, verdicts, c) = Nets(bound)
    BY Zenon DEF PortNets
  <2>4. verdicts = [p \in PortIndices(d, c) |-> PortIssue(d, kinds, c, p)]
    BY DEF verdicts, PortVerdicts
  <2>5. \A p \in bound : PortIssue(d, kinds, c, p) = "bound"
    BY <2>4
  <2>6. \A p \in bound : ports[p].net \in DOMAIN kinds
    <3> SUFFICES ASSUME NEW p \in bound PROVE ports[p].net \in DOMAIN kinds
      OBVIOUS
    <3>1. PortIssue(d, kinds, c, p) = "bound"
      BY <2>5
    <3> HIDE DEF bound
    <3> QED BY <3>1 DEF PortIssue
  <2> HIDE DEF bound
  <2>7. id \in {ports[p].id : p \in bound}
    BY <2>2, <2>3
  <2>8. k \in bound
    BY <2>7
  <2>9. Nets(bound)[id] = ports[k].net
    BY <2>7
  <2> HIDE DEF ports, Nets, k
  <2>10. g.ports[c][id] = ports[k].net
    BY <2>2, <2>3, <2>9
  <2> QED BY <2>6, <2>8, <2>10
<1>9. \A c \in Wired(g) : Plus(g, c) \in DOMAIN g.kinds /\ Minus(g, c) \in DOMAIN g.kinds
  <2> SUFFICES ASSUME NEW c \in Wired(g)
               PROVE  Plus(g, c) \in DOMAIN g.kinds /\ Minus(g, c) \in DOMAIN g.kinds
    OBVIOUS
  <2>1. c \in Parsed(d) /\ DOMAIN g.ports[c] = {"positive", "negative"}
    BY <1>7 DEF Wired
  <2>2. g.ports[c]["positive"] \in DOMAIN kinds /\ g.ports[c]["negative"] \in DOMAIN kinds
    BY <1>8, <2>1
  <2> QED BY <1>1, <2>2 DEF Plus, Minus
<1> QED BY <1>1, <1>2, <1>4, <1>6, <1>7, <1>9 DEF IsWiring, g

\* Findings that say nothing of a loop or of an island.
Elsewhere(issues) ==
  \A issue \in issues : issue.code \notin {"voltage_source_loop", "disconnected_graph"}

\* What is said of the parts of any document.
LEMMA PartsAreElsewhere ==
  ASSUME NEW d, NEW g
  PROVE  Elsewhere(TopLevelIssues(d)) /\ Elsewhere(NetIssues(d))
<1>1. Elsewhere(TopLevelIssues(d))
  BY DEF TopLevelIssues, At, Elsewhere
<1>2. Elsewhere(NetIssues(d))
  BY DEF NetIssues, At, Elsewhere
<1> QED BY <1>1, <1>2

\* What is said of a port.
LEMMA PortsAreElsewhere ==
  ASSUME NEW d, Typed(d), NEW c \in Components(Graph(d))
  PROVE  Elsewhere(PortIssues(d, Graph(d), c))
<1> DEFINE g == Graph(d)
           ports == d.components[c].ports
           verdicts == g.verdicts[c]
           Seen == {ports[p].id : p \in {q \in DOMAIN verdicts : PortIsRead(ports[q])}}
           wrong == {At(verdicts[p], "ports", c, p) :
                       p \in {q \in DOMAIN verdicts : verdicts[q] # "bound"}}
           field == {At("schema_violation", "port field", c, p) :
                       p \in {q \in DOMAIN verdicts : ports[q].form = "field"}}
           form == When(d.components[c].form = "ports", At("schema_violation", "ports", c, 0))
           missing == When(/\ g.device[c] # "unknown"
                           /\ d.components[c].form # "ports"
                           /\ "unknown_port" \notin Fns!Range(verdicts)
                           /\ PortIds(g.device[c]) \ Seen # {},
                           At("missing_port", "ports", c, 0))
<1>1. PortIssues(d, g, c) = wrong \cup field \cup form \cup missing
  BY Zenon DEF PortIssues
<1>2. Elsewhere(wrong)
  <2> DEFINE kinds == KindsOfNets(d)
             all == [b \in Parsed(d) |-> PortVerdicts(d, kinds, b)]
  <2>1. g.verdicts = all /\ c \in Parsed(d)
    BY DEF Graph, Components
  <2>2. verdicts = [p \in PortIndices(d, c) |-> PortIssue(d, kinds, c, p)]
    BY <2>1 DEF PortVerdicts
  <2>3. \A p : PortIssue(d, kinds, c, p)
                 \in {"schema_violation", "duplicate_port_id", "unknown_port", "unknown_net",
                      "port_net_kind_mismatch", "bound"}
    BY DEF PortIssue
  <2> HIDE DEF verdicts, kinds
  <2>4. \A p \in DOMAIN verdicts :
          verdicts[p] \notin {"voltage_source_loop", "disconnected_graph"}
    BY <2>2, <2>3
  <2> SUFFICES ASSUME NEW issue \in wrong
               PROVE  issue.code \notin {"voltage_source_loop", "disconnected_graph"}
    BY DEF Elsewhere
  <2>5. PICK p \in DOMAIN verdicts : issue = At(verdicts[p], "ports", c, p)
    OBVIOUS
  <2> QED BY <2>4, <2>5 DEF At
<1>3. Elsewhere(field)
  <2> SUFFICES ASSUME NEW issue \in field
               PROVE  issue.code \notin {"voltage_source_loop", "disconnected_graph"}
    BY DEF Elsewhere
  <2>1. PICK p : issue = At("schema_violation", "port field", c, p)
    OBVIOUS
  <2> QED BY <2>1 DEF At
<1>4. Elsewhere(form)
  BY DEF At, Elsewhere, When
<1> HIDE DEF g
<1>5. Elsewhere(missing)
  BY DEF At, Elsewhere, When
<1> HIDE DEF wrong, field, form, missing
<1> QED BY <1>1, <1>2, <1>3, <1>4, <1>5 DEF Elsewhere, g

\* What is said of the parameters.
LEMMA ParametersAreElsewhere ==
  ASSUME NEW d, NEW g, NEW c
  PROVE  Elsewhere(ParameterIssues(d, g, c))
<1> DEFINE params == g.params[c]
           Rejected == {name \in DOMAIN params :
                          ParameterIssue(g.device[c], params, name) # "accepted"}
           wrong == {At(ParameterIssue(g.device[c], params, name), name, c, 0) :
                       name \in Rejected}
           missing == When(RequiredParameters(g.device[c]) \ DOMAIN params # {},
                           At("missing_parameter", "parameters", c, 0))
<1>1. ParameterIssues(d, g, c)
        = IF d.components[c].form = "parameters"
          THEN {At("schema_violation", "parameters", c, 0)} ELSE wrong \cup missing
  BY Zenon DEF ParameterIssues
<1>2. Elsewhere({At("schema_violation", "parameters", c, 0)})
  BY DEF At, Elsewhere
<1>3. Elsewhere(wrong)
  <2>1. \A name : ParameterIssue(g.device[c], params, name)
                    \in {"unknown_parameter", "accepted", "invalid_parameter_value"}
    BY DEF ParameterIssue
  <2> SUFFICES ASSUME NEW issue \in wrong
               PROVE  issue.code \notin {"voltage_source_loop", "disconnected_graph"}
    BY DEF Elsewhere
  <2> HIDE DEF params, Rejected
  <2>2. PICK name : issue = At(ParameterIssue(g.device[c], params, name), name, c, 0)
    OBVIOUS
  <2> QED BY <2>1, <2>2 DEF At
<1>4. Elsewhere(missing)
  BY DEF At, Elsewhere, When
<1> HIDE DEF wrong, missing
<1> QED BY <1>1, <1>2, <1>3, <1>4 DEF Elsewhere

\* What is said of the components.
LEMMA ComponentsAreElsewhere ==
  ASSUME NEW d, Typed(d)
  PROVE  Elsewhere(ComponentIssues(d, Graph(d)))
<1> DEFINE g == Graph(d)
           malformed == {At("schema_violation", "components", c, 0) :
                           c \in {b \in DOMAIN d.components :
                                    d.components[b].form \in {"not_object", "field", "id"}}}
           dup == {At("duplicate_component_id", "components", c, 0) :
                     c \in {b \in DOMAIN d.components : ComponentIsRead(d, b) /\ Repeated(d, b)}}
           odd == {At("unsupported_device_kind", "components", c, 1) :
                     c \in OfDevice(g, {"unknown"})}
           ports == UNION {PortIssues(d, g, c) : c \in Components(g)}
           params == UNION {ParameterIssues(d, g, c) :
                              c \in Components(g) \ OfDevice(g, {"unknown"})}
<1>1. ComponentIssues(d, g) = malformed \cup dup \cup odd \cup ports \cup params
  BY Zenon DEF ComponentIssues
<1>2. Elsewhere(malformed) /\ Elsewhere(dup)
  BY DEF At, Elsewhere
<1>3. \A c \in Components(g) : Elsewhere(PortIssues(d, g, c))
  BY PortsAreElsewhere
<1> HIDE DEF g
<1>4. Elsewhere(odd)
  BY DEF At, Elsewhere
<1>5. Elsewhere(ports)
  BY <1>3 DEF Elsewhere
<1>6. Elsewhere(params)
  BY ParametersAreElsewhere DEF Elsewhere
<1> HIDE DEF malformed, dup, odd, ports, params
<1> QED BY <1>1, <1>2, <1>4, <1>5, <1>6 DEF Elsewhere, g

\* What is said of the cards and of the gates.
LEMMA GatesAreElsewhere ==
  ASSUME NEW d, NEW g
  PROVE  Elsewhere(RenderabilityIssues(g)) /\ Elsewhere(ControlIssues(d, g))
<1> DEFINE nets == NetsOfKind(g, "control")
           gates == {net \in nets : ~Behavioural(g, net)}
           drivers == [net \in gates |-> Cardinality(Drivers(g, net))]
           idle == OfDevice(g, {"voltage_controlled_switch", "averaged_switch"}) = {}
           several == Cardinality(nets) > 1 /\ ~DeclarationFits(d.control, Cardinality(nets))
           unmanned == When(idle, At("actuator_missing", "components", 0, 0))
           many == When(several, At("multiple_control_nets", "nets", 0, 0))
           undriven == {At("control_net_undriven", "nets", g.place[net], 0) :
                          net \in {n \in gates : drivers[n] = 0}}
           contested == {At("control_net_multiple_drivers", "nets", g.place[net], 0) :
                           net \in {n \in gates : drivers[n] > 1}}
           levels == IF nets = {} THEN {} ELSE GateLevelIssues(g)
           lacking == \E c \in Components(g) : g.device[c] # "unknown" /\ ~Renderable(g.device[c])
           loose == OfDevice(g, {"resistor_load"}) = {}
           cards == When(lacking, At("not_compilable", "components", 0, 0))
           loads == When(loose, At("no_output_load", "components", 0, 0))
<1>1. ControlIssues(d, g) = unmanned \cup many \cup undriven \cup contested \cup levels
  BY Zenon DEF ControlIssues
<1>2. RenderabilityIssues(g) = cards \cup loads
  BY Zenon DEF RenderabilityIssues
<1> HIDE DEF nets, gates, drivers, idle, several, lacking, loose
<1>3. Elsewhere(unmanned) /\ Elsewhere(many) /\ Elsewhere(cards) /\ Elsewhere(loads)
  BY DEF When, At, Elsewhere
<1>4. Elsewhere(undriven) /\ Elsewhere(contested)
  BY DEF At, Elsewhere
<1>5. Elsewhere(levels)
  BY DEF GateLevelIssues, At, Elsewhere
<1> HIDE DEF unmanned, many, undriven, contested, levels, cards, loads
<1> QED BY <1>1, <1>2, <1>3, <1>4, <1>5 DEF Elsewhere

\* A verdict on a graph as a whole.
LEMMA WhenCode ==
  ASSUME NEW condition, NEW code, NEW group, NEW i, NEW j
  PROVE  /\ \A issue \in When(condition, At(code, group, i, j)) : issue.code = code
         /\ code \in Codes(When(condition, At(code, group, i, j))) <=> condition
<1> DEFINE issues == When(condition, At(code, group, i, j))
<1>1. CASE condition
  <2>1. issues = {At(code, group, i, j)}
    BY <1>1 DEF When
  <2>2. At(code, group, i, j).code = code
    BY DEF At
  <2> HIDE DEF issues
  <2>3. (\A issue \in issues : issue.code = code) /\ code \in Codes(issues)
    BY <2>1, <2>2 DEF Codes
  <2> QED BY <1>1, <2>3 DEF issues
<1>2. CASE ~condition
  <2>1. issues = {}
    BY <1>2 DEF When
  <2> HIDE DEF issues
  <2>2. (\A issue \in issues : issue.code = code) /\ code \notin Codes(issues)
    BY <2>1 DEF Codes
  <2> QED BY <1>2, <2>2 DEF issues
<1> QED BY <1>1, <1>2

\* What the checks of the connections say of islands and of loops.
LEMMA ConnectionsSay ==
  ASSUME NEW d, NEW g
  PROVE  /\ "disconnected_graph" \in Codes(ConnectivityIssues(g)) <=> Disconnected(g)
         /\ "voltage_source_loop" \notin Codes(ConnectivityIssues(g))
         /\ "voltage_source_loop" \in Codes(SourceIssues(d, g)) <=> SourceLoop(d, g) # 0
         /\ "disconnected_graph" \notin Codes(SourceIssues(d, g))
<1> DEFINE References == {g.place[net] : net \in NetsOfKind(g, "reference")}
           First == {n \in References : \A m \in References : n <= m}
           isolated == {At("isolated_net", "nets", g.place[net], 0) :
                          net \in {n \in DOMAIN g.kinds : Isolated(g, n)}}
           missing == When(References = {}, At("missing_reference_net", "nets", 0, 0))
           several == {At("multiple_reference_nets", "nets", n, 1) : n \in References \ First}
           apart == When(Disconnected(g), At("disconnected_graph", "nets", 0, 0))
           loop == When(SourceLoop(d, g) # 0,
                        At("voltage_source_loop", "components", SourceLoop(d, g), 0))
<1>1. ConnectivityIssues(g) = isolated \cup missing \cup several \cup apart
  BY Zenon DEF ConnectivityIssues
<1>2. SourceIssues(d, g) = loop
  BY Zenon DEF SourceIssues
<1> HIDE DEF References, First
<1>3. Elsewhere(isolated) /\ Elsewhere(several) /\ Elsewhere(missing)
  <2>1. Elsewhere(isolated)
    BY DEF At, Elsewhere
  <2>2. Elsewhere(several)
    BY DEF At, Elsewhere
  <2>3. Elsewhere(missing)
    BY DEF When, At, Elsewhere
  <2> QED BY <2>1, <2>2, <2>3
<1>4. /\ \A issue \in apart : issue.code = "disconnected_graph"
      /\ "disconnected_graph" \in Codes(apart) <=> Disconnected(g)
  BY WhenCode
<1>5. /\ \A issue \in loop : issue.code = "voltage_source_loop"
      /\ "voltage_source_loop" \in Codes(loop) <=> SourceLoop(d, g) # 0
  BY WhenCode
<1> HIDE DEF isolated, missing, several, apart, loop
<1>6. /\ "disconnected_graph" \in Codes(ConnectivityIssues(g)) <=> Disconnected(g)
      /\ "voltage_source_loop" \notin Codes(ConnectivityIssues(g))
  BY <1>1, <1>3, <1>4 DEF Codes, Elsewhere
<1>7. /\ "voltage_source_loop" \in Codes(SourceIssues(d, g)) <=> SourceLoop(d, g) # 0
      /\ "disconnected_graph" \notin Codes(SourceIssues(d, g))
  BY <1>2, <1>5 DEF Codes
<1> QED BY <1>6, <1>7

\* So the report names the two codes when the two checks found something.
LEMMA VerdictsOfGraph ==
  ASSUME NEW d, Typed(d), d.form = "ok", GraphIsChecked(Graph(d))
  PROVE  /\ "voltage_source_loop" \in Codes(Issues(d)) <=> SourceLoop(d, Graph(d)) # 0
         /\ "disconnected_graph" \in Codes(Issues(d)) <=> Disconnected(Graph(d))
<1> DEFINE g == Graph(d)
           found == TopLevelIssues(d) \cup NetIssues(d) \cup ComponentIssues(d, g)
                    \cup GraphIssues(d, g)
           more == FingerprintIssues(d, found)
<1>1. Issues(d) = found \cup more
  BY Zenon DEF Issues
<1>2. GraphIssues(d, g) = RenderabilityIssues(g) \cup ConnectivityIssues(g)
                          \cup ControlIssues(d, g) \cup SourceIssues(d, g)
  BY Zenon DEF GraphIssues
<1>3. Elsewhere(ComponentIssues(d, g))
  BY ComponentsAreElsewhere
<1>4. Elsewhere(more)
  <2> HIDE DEF found
  <2> QED BY DEF FingerprintIssues, When, At, Elsewhere
<1> HIDE DEF g, more
<1>5. \A issue \in Issues(d) : issue.code \in {"voltage_source_loop", "disconnected_graph"} =>
         issue \in ConnectivityIssues(g) \/ issue \in SourceIssues(d, g)
  BY <1>1, <1>2, <1>3, <1>4, PartsAreElsewhere, GatesAreElsewhere DEF Elsewhere
<1>6. ConnectivityIssues(g) \subseteq Issues(d) /\ SourceIssues(d, g) \subseteq Issues(d)
  BY <1>1, <1>2
<1>7. \A code \in {"voltage_source_loop", "disconnected_graph"} :
        code \in Codes(Issues(d))
          <=> code \in Codes(ConnectivityIssues(g)) \/ code \in Codes(SourceIssues(d, g))
  BY <1>5, <1>6 DEF Codes
<1> QED BY <1>7, ConnectionsSay DEF g

\* Whatever document is validated, the report names a loop of ideal sources exactly when some of
\* its sources form a cycle, and islands exactly when the nets fall apart
\* (topology_validation._check_sources and _disconnected_islands).
THEOREM GraphVerdictsHold == CircuitSpec => [](Typed(doc) => GraphVerdictsAreTrue)
<1>1. ASSUME ReportInv, Typed(doc) PROVE GraphVerdictsAreTrue
  <2> DEFINE g == Graph(doc)
  <2> SUFFICES ASSUME report # NotValidated, doc.form = "ok", GraphIsChecked(g)
               PROVE  /\ "voltage_source_loop" \in Codes(report) <=> HasCycle(g)
                      /\ "disconnected_graph" \in Codes(report) <=> FallsApart(g)
    BY DEF GraphVerdictsAreTrue
  <2>1. report = Issues(doc)
    BY <1>1 DEF ReportInv
  <2>2. SourceLoop(doc, g) # 0 <=> HasCycle(g)
    BY <1>1, GraphIsWiring, LoopsAreFound
  <2>3. Disconnected(g) <=> FallsApart(g)
    BY <1>1, GraphIsWiring, IslandsAreFound
  <2>4. /\ "voltage_source_loop" \in Codes(report) <=> SourceLoop(doc, g) # 0
        /\ "disconnected_graph" \in Codes(report) <=> Disconnected(g)
    BY <1>1, <2>1, VerdictsOfGraph
  <2> QED BY <2>2, <2>3, <2>4
<1> QED BY <1>1, ReportInvariant, PTL
=============================================================================
