---------------------------- MODULE SolvedPlant -----------------------------
(***************************************************************************)
(* A plant whose dynamics are solved outside the process, one zero-order-  *)
(* hold segment at a time: NgspiceBuckPlant (with its synchronous          *)
(* subclass) and CircuitPlant, over SimulatorProcess.  A segment is solved *)
(* to the end of the control window and kept; a later step inside it is    *)
(* read from the kept table.  Time is counted in ticks.  The circuit state *)
(* is the list of drives it has seen, one per tick, each with the phase of *)
(* the switching carrier: two states are equal only when the circuit was   *)
(* driven through the same ticks.                                          *)
(***************************************************************************)
EXTENDS SimulatorProcess, Integers, Sequences

CONSTANTS
  Kinds,            \* the plants to consider: buck, circuit
  Duties, Inputs,   \* actions, and values of the external inputs
  Durations,        \* ticks of one step
  ControlPeriod, SwitchingPeriod,
  MaxTime           \* bound: ticks of a run

VARIABLES
  kind,
  plant,        \* the plant object: time, duty, input, state, what observe shows
  cache,        \* _cache: a solved segment or NoCache
  request,      \* the step being executed, or NoRequest
  lastFailure,  \* _last_failure_evidence: keys and call, call 0 for None
  saved,        \* a snapshot, or NoSnapshot
  asked,        \* ghost: the external input the caller handed over last
  driven,       \* ghost: the drives the caller has asked for and had applied
  torn          \* ghost: an interrupt hit between the assignments of a step

plantVars == <<kind, plant, cache, request, lastFailure, saved, asked, driven, torn>>
vars == <<simulatorVars, plantVars>>

NoInput == "none"
NoCache == [end |-> -1]
NoRequest == [left |-> 0]
NoSnapshot == [time |-> -1]
NoFailure == [call |-> 0, keys |-> {}]
Drive == [duty : Duties, input : Inputs, phase : 0 .. SwitchingPeriod - 1, sound : BOOLEAN]
FirstInput == CHOOSE i \in Inputs : TRUE
FirstDuty == CHOOSE d \in Duties : TRUE

ASSUME PlantAssumption ==
  /\ Kinds \subseteq {"buck", "circuit"}
  /\ Duties # {} /\ Inputs # {} /\ NoInput \notin Inputs
  /\ Durations \subseteq Nat \ {0}
  /\ ControlPeriod \in Nat \ {0} /\ SwitchingPeriod \in Nat \ {0}
  /\ MaxTime \in Nat

\* What reset() leaves: the initial conditions, which can be observed, and the
\* input the object has.
Fresh(input) ==
  [time |-> 0, duty |-> FirstDuty, input |-> input, state |-> <<>>,
   seen |-> <<>>, reverse |-> FALSE]

TypeOK ==
  /\ SimulatorTypeOK
  /\ kind \in Kinds
  /\ plant.time \in 0 .. MaxTime
  /\ plant.duty \in Duties /\ plant.input \in Inputs /\ plant.reverse \in BOOLEAN
  /\ \A i \in DOMAIN plant.state : plant.state[i] \in Drive
  /\ cache # NoCache => cache.start < cache.end /\ Len(cache.table) >= cache.end - cache.start
  /\ request # NoRequest => plant.time + request.left <= MaxTime
  /\ lastFailure.call \in 0 .. calls /\ lastFailure.keys \subseteq EvidenceKeys
  /\ asked \in Inputs /\ torn \in BOOLEAN

Init ==
  /\ SimulatorInit
  /\ kind \in Kinds
  /\ plant = Fresh(FirstInput)
  /\ cache = NoCache
  /\ request = NoRequest
  /\ lastFailure = NoFailure
  /\ saved = NoSnapshot
  /\ asked = FirstInput
  /\ driven = <<>>
  /\ torn = FALSE

Idle == request = NoRequest /\ stage = "idle"

\* The ticks of a segment that starts at time t.
Segment(duty, input, t, ticks, good) ==
  [i \in 1 .. ticks |->
     [duty |-> duty, input |-> input, phase |-> (t + i - 1) % SwitchingPeriod,
      sound |-> good]]

\* The end of the control window that holds t.
WindowEnd(t) == (t \div ControlPeriod + 1) * ControlPeriod
Horizon(t, ticks) == IF t + ticks > WindowEnd(t) THEN ticks ELSE WindowEnd(t) - t

\* (Mutant: the cache is keyed by the action alone.)
MatchesDuty(c, duty, input) == c.duty = duty
Matches(c, duty, input) == c.duty = duty /\ c.input = input
Covers(c, t) == c.start <= t /\ t <= c.end

\* Interpolation at an absolute time inside the segment.
ValueAt(c, t) == SubSeq(c.table, 1, Len(c.table) - (c.end - t))

\* advance(): the external input is applied first and stays applied.  A cached
\* segment is used when it was solved for the same drive and reaches the target.
\* The netlists of the bucks refuse a negative inductor current.
Reusable(duty, input, target) ==
  cache # NoCache /\ Matches(cache, duty, input) /\ Covers(cache, target)
CanRender == kind = "circuit" \/ ~plant.reverse
Advance(duty, input, ticks) ==
  /\ Idle
  /\ plant.time + ticks <= MaxTime
  /\ LET applied == IF input = NoInput THEN plant.input ELSE input
         hit == Reusable(duty, applied, plant.time + ticks)
     IN /\ plant' = [plant EXCEPT !.input = applied]
        /\ request' = IF hit \/ CanRender
                      THEN [left |-> ticks, duty |-> duty, solving |-> ~hit]
                      ELSE NoRequest
        /\ IF ~hit /\ CanRender THEN Call ELSE UNCHANGED simulatorVars
  /\ asked' = IF input = NoInput THEN asked ELSE input
  /\ UNCHANGED <<kind, cache, lastFailure, saved, driven, torn>>

\* The simulator is done.  Its table becomes the cached segment, unless it ends
\* before the horizon; a table that is short by less than the tolerance passes.
\* The values of a child that failed are not the circuit's; it has failed when its
\* exit code or its log says so.
Sound(left) == left.exit /\ left.log \notin {"nonconvergence", "fatal"}
Solved ==
  [start |-> plant.time, end |-> plant.time + Horizon(plant.time, request.left),
   duty |-> request.duty, input |-> plant.input,
   edge |-> leaving.output = "edge",
   table |-> plant.state \o
     Segment(request.duty, plant.input, plant.time, Horizon(plant.time, request.left),
             Sound(leaving))]
Solving == request # NoRequest /\ request.solving /\ stage = "idle"
SolveSucceeds ==
  /\ Solving
  /\ outcome = "accepted"
  /\ IF leaving.output = "short"
     THEN request' = NoRequest /\ UNCHANGED cache
     ELSE cache' = Solved /\ request' = [request EXCEPT !.solving = FALSE]
  /\ UNCHANGED <<simulatorVars, kind, plant, lastFailure, saved, asked, driven, torn>>

\* _run_netlist keeps the evidence an exception carries, and raises it again.
SolveFails ==
  /\ Solving
  /\ outcome # "accepted"
  /\ request' = NoRequest
  /\ lastFailure' = IF outcome \in SimulationExecutionErrors
                    THEN [call |-> calls, keys |-> evidence] ELSE lastFailure
  /\ UNCHANGED <<simulatorVars, kind, plant, cache, saved, asked, driven, torn>>

\* The rest of advance(): the values are read, then assigned one by one.
Reading == request # NoRequest /\ ~request.solving
Target == plant.time + request.left
Drives == driven \o Segment(request.duty, asked, plant.time, request.left, TRUE)
Read ==
  /\ Reading
  /\ ~(cache.edge /\ Target = cache.end)
  /\ \E negative \in BOOLEAN :
       plant' = [plant EXCEPT !.time = Target, !.duty = request.duty,
                              !.state = ValueAt(cache, Target),
                              !.seen = ValueAt(cache, Target), !.reverse = negative]
  /\ driven' = Drives
  /\ request' = NoRequest
  /\ UNCHANGED <<simulatorVars, kind, cache, lastFailure, saved, asked, torn>>

\* The last printed time lies below the target by more than the tolerance of
\* the interpolation: it refuses, and the segment stays cached.
ReadRefused ==
  /\ Reading
  /\ cache.edge /\ Target = cache.end
  /\ request' = NoRequest
  /\ UNCHANGED <<simulatorVars, kind, plant, cache, lastFailure, saved, asked, driven, torn>>

\* KeyboardInterrupt, in the simulator call or between the assignments, of which
\* the time is the first.
InterruptSolve ==
  /\ request # NoRequest
  /\ Interrupt
  /\ UNCHANGED plantVars
InterruptRead ==
  /\ Reading
  /\ request' = NoRequest
  /\ \/ UNCHANGED <<plant, driven, torn>>
     \/ /\ plant' = [plant EXCEPT !.time = Target]
        /\ driven' = Drives
        /\ torn' = TRUE
  /\ UNCHANGED <<simulatorVars, kind, cache, lastFailure, saved, asked>>

Snapshot ==
  /\ Idle
  /\ saved' = [time |-> plant.time, duty |-> plant.duty, input |-> plant.input,
               state |-> plant.state, reverse |-> plant.reverse,
               asked |-> asked, driven |-> driven, torn |-> torn]
  /\ UNCHANGED <<simulatorVars, kind, plant, cache, request, lastFailure, asked, driven, torn>>

\* restore(): the bucks carry what observe() shows in the snapshot; CircuitPlant
\* takes the element states and leaves its observed values as they are.
Restore ==
  /\ Idle
  /\ saved # NoSnapshot
  /\ plant' = [time |-> saved.time, duty |-> saved.duty, input |-> saved.input,
               state |-> saved.state, reverse |-> saved.reverse,
               seen |-> IF kind = "buck" THEN saved.state ELSE plant.seen]
  /\ cache' = NoCache
  /\ asked' = saved.asked
  /\ driven' = saved.driven
  /\ torn' = saved.torn
  /\ UNCHANGED <<simulatorVars, kind, request, lastFailure, saved>>

\* reset() between runs of one object: the time, the state, the cache and the
\* evidence start again.  The object stays driven by the input it was given last.
StartsAgain ==
  /\ Idle
  /\ cache' = NoCache
  /\ lastFailure' = NoFailure
  /\ driven' = <<>>
  /\ torn' = FALSE
  /\ outcome' = "none"
  /\ UNCHANGED <<stage, leaving, dirs, calls, evidence, kind, request, saved>>
Reset ==
  /\ StartsAgain
  /\ plant' = Fresh(plant.input)
  /\ UNCHANGED asked

\* A new object, in the same process or in another one, has the declared input.
NewPlant ==
  /\ StartsAgain
  /\ plant' = Fresh(FirstInput)
  /\ asked' = FirstInput

InSimulator ==
  /\ SimulatorStep \/ ResolveFails \/ Leave
  /\ UNCHANGED plantVars
Ends == SolveSucceeds \/ SolveFails \/ Read \/ ReadRefused

Next ==
  \/ \E d \in Duties, i \in Inputs \cup {NoInput}, n \in Durations : Advance(d, i, n)
  \/ InSimulator \/ Ends \/ InterruptSolve \/ InterruptRead
  \/ Snapshot \/ Restore \/ Reset \/ NewPlant

Spec == Init /\ [][Next]_vars

-----------------------------------------------------------------------------
\* Whatever the steps, the change points, the failures, the resets and the resumes
\* before, the state is the one that the actions and the external inputs the caller
\* asked for lead to, from tables of sound children: no stale tail, no table of
\* another drive, no input lost or brought back, no waveform of a failed solve
\* (advance, _solve_window, snapshot, restore and reset together).  An interrupt
\* between the assignments of advance() voids it, for the object and its snapshots.
TrajectoryIsTrue == ~torn => plant.state = driven

\* When a step has failed in the simulator its work directory is gone, but the
\* evidence of that very call is kept: the netlist, the command when the child
\* was started, and the log when it left one (NgspiceProcess.run, except and
\* finally, with _run_netlist).
EvidenceOutlivesTheDirectory ==
  Idle /\ outcome \in SimulationExecutionErrors =>
    /\ dirs = {}
    /\ lastFailure.call = calls
    /\ "netlist" \in lastFailure.keys
    /\ leaving.log # "none" => {"command", "log"} \subseteq lastFailure.keys

\* A step ends, whatever the child does (the timeout of NgspiceProcess.run).
EveryStepEnds == request # NoRequest ~> request = NoRequest

\* The timeout is the only thing that ends a child that hangs: nothing is
\* assumed of ChildEnds and ChildLogs.
FairSpec ==
  /\ Spec
  /\ WF_vars(Ends)
  /\ WF_vars((MakeDirectory \/ Start \/ Examine \/ Leave \/ Timeout) /\ UNCHANGED plantVars)
=============================================================================
