--------------------------- MODULE WholeRunEngine ---------------------------
(***************************************************************************)
(* The reference whole-run engine (backends/whole_run_engine.py): the grid *)
(* of samples and control instants it chooses, and the reference voltage   *)
(* each of its control updates follows.  Times are in ticks and the        *)
(* engine's time tolerance is Eps ticks.  The RK4 steps between the        *)
(* instants and the PI law are numbers and are left out.                   *)
(***************************************************************************)
EXTENDS Integers, Sequences, FiniteSets, Functions

CONSTANT Eps

ASSUME EpsAssumption == Eps \in Nat

\* _parse_schedule: entries with a time that never goes back.
LegalSchedule(schedule) ==
  \A i \in 1 .. Len(schedule) :
    /\ schedule[i].time >= 0
    /\ i > 1 => schedule[i - 1].time <= schedule[i].time

\* _sample_times: the multiples of the cadence that are clearly below the end.
Multiples(duration, cadence) ==
  CHOOSE n \in 0 .. duration :
    /\ (n + 1) * cadence >= duration - Eps
    /\ \A k \in 1 .. n : k * cadence < duration - Eps

\* The start, these multiples and the exact end, so that the last gap is never
\* larger than the cadence plus Eps.
SampleTimes(duration, cadence) ==
  LET last == Multiples(duration, cadence) + 2
  IN [i \in 1 .. last |-> IF i = last THEN duration ELSE (i - 1) * cadence]
Samples(duration, cadence) == Range(SampleTimes(duration, cadence))

\* The samples and the schedule entries inside the run that lie on no sample; two
\* entries at one time stay two instants.
OffGrid(schedule, duration, cadence) ==
  {i \in 1 .. Len(schedule) :
     /\ 0 < schedule[i].time /\ schedule[i].time < duration
     /\ \A s \in Samples(duration, cadence) :
          schedule[i].time > s + Eps \/ schedule[i].time < s - Eps}
ControlTimes(schedule, duration, cadence) ==
  Samples(duration, cadence)
    \cup {schedule[i].time : i \in OffGrid(schedule, duration, cadence)}

\* The integrator refuses the empty span between two equal instants.
EmptySpan(schedule, duration, cadence) ==
  \E i, j \in OffGrid(schedule, duration, cadence) :
    i # j /\ schedule[i].time = schedule[j].time

\* The entry in force at a control instant: the last one at or before it, 0 for
\* the default reference.  (Mutant: an entry must lie strictly before.)
EntryBefore(schedule, t) ==
  Cardinality({i \in 1 .. Len(schedule) : schedule[i].time < t})
EntryAt(schedule, t) ==
  Cardinality({i \in 1 .. Len(schedule) : schedule[i].time <= t + Eps})

\* run_whole: the trace, with the entry that each sample followed.
Refusal == [typed |-> FALSE]
EngineTrace(schedule, duration, cadence) ==
  LET axis == SampleTimes(duration, cadence)
  IN [typed |-> TRUE, finite |-> TRUE, times |-> axis, lengths |-> {Len(axis)},
      followed |-> [i \in 1 .. Len(axis) |-> EntryAt(schedule, axis[i])]]
EngineRaises(schedule, duration, cadence) ==
  ~LegalSchedule(schedule) \/ EmptySpan(schedule, duration, cadence)
=============================================================================
