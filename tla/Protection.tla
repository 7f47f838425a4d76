----------------------------- MODULE Protection -----------------------------
(***************************************************************************)
(* ProtectedController (src/pe_sim/protection.py) in the run loop: every   *)
(* sample it either delegates to the inner controller or returns the trip  *)
(* action.  The run may be checkpointed at the end of any window, die, and *)
(* be resumed with a new wrapper that restores the snapshot.               *)
(*                                                                         *)
(* The converter is a caricature with the behaviour that matters here: the *)
(* output rises while the inner controller drives it, falls while the trip *)
(* action is applied, is pulled to zero by a short circuit (which also     *)
(* draws a fault current) and pushed up by a load dump.  Whether sample n  *)
(* meets a disturbance is fixed from the start, as it is in a simulation,  *)
(* and so is the policy of the wrapper.  Voltages and currents are levels, *)
(* times are ticks.                                                        *)
(***************************************************************************)
EXTENDS Integers, Sequences

CONSTANTS
  Period,        \* control_period_s, in ticks
  Policies,      \* the policies a wrapper may be given
  Nominal,       \* the level the inner controller drives the output to
  Rise, Fall,    \* the output in a driven and in a tripped window
  Disturbed,     \* samples that may meet a disturbance
  Samples        \* bound: samples of the run

Disturbances == {"none", "short", "dump"}
States == {"normal", "tripped", "latched"}

\* ProtectionPolicy; a threshold of 0 stands for None, hiccup_s counts ticks
Policy == [ovp_v: Nat, ocp_a: Nat, uvlo_v: Nat, hiccup_s: Nat,
           uvlo_startup_mask: BOOLEAN]
World == [policy: Policies, meets: [1..Samples -> Disturbances]]

ASSUME PolicyAssumption ==
  /\ Period \in Nat \ {0} /\ Policies \subseteq Policy
ASSUME ConverterAssumption ==
  /\ Nominal \in Nat /\ Rise \in Nat /\ Fall \in Nat /\ Samples \in Nat
  /\ Disturbed \subseteq 1..Samples

VARIABLES
  state,     \* _state
  elapsed,   \* _elapsed_s
  trips,     \* _trips
  started,   \* _started
  inner,     \* the inner controller: samples it has consumed
  vout,      \* the output level at the next sample
  n,         \* samples taken
  world,     \* the policy, and the disturbance each sample meets
  log,       \* what was done at each sample, by the run that got there first
  replayed,  \* what a resumed run did at a sample that is in the log already
  saved      \* the last checkpoint
protection == <<state, elapsed, trips, started>>
vars == <<state, elapsed, trips, started, inner, vout, n, world, log, replayed,
          saved>>

Snapshot == [state |-> state, elapsed |-> elapsed, trips |-> trips,
             started |-> started, inner |-> inner, vout |-> vout, n |-> n]
Snapshots == [state: States, elapsed: Nat, trips: Nat, started: BOOLEAN,
              inner: Nat, vout: Nat, n: 0..Samples]
NewWrapper == [state |-> "normal", elapsed |-> 0, trips |-> 0,
               started |-> FALSE, inner |-> 0, vout |-> 0, n |-> 0]
Kinds == {"run", "trip", "hold", "retry"}
Entry == [kind: Kinds, over: BOOLEAN, after: Snapshots]
NoEntry == [kind |-> "run", over |-> FALSE, after |-> NewWrapper]

Init ==
  /\ state = "normal" /\ elapsed = 0 /\ trips = 0 /\ started = FALSE
  /\ inner = 0 /\ vout = 0 /\ n = 0
  /\ \E policy \in Policies, some \in [Disturbed -> Disturbances] :
       world = [policy |-> policy,
                meets |-> [k \in 1..Samples |->
                             IF k \in Disturbed THEN some[k] ELSE "none"]]
  /\ log = <<>> /\ replayed = NoEntry
  /\ saved = NewWrapper

(***************************************************************************)
(* The converter.                                                          *)
(***************************************************************************)
Sample == n + 1
Voltage == IF world.meets[Sample] = "dump" THEN Nominal + 2 ELSE vout
Current == IF world.meets[Sample] = "short" THEN 2 ELSE 1

Converter(driven) ==
  vout' = IF world.meets[Sample] = "short" THEN 0
          ELSE IF driven THEN IF vout + Rise > Nominal THEN Nominal
                              ELSE vout + Rise
          ELSE IF vout > Fall THEN vout - Fall ELSE 0

(***************************************************************************)
(* observe                                                                 *)
(***************************************************************************)
Hiccup(w) == w.policy.hiccup_s
OVP(w) == w.policy.ovp_v
OCP(w) == w.policy.ocp_a
UVLO(w) == w.policy.uvlo_v
Masked(w) == w.policy.uvlo_startup_mask

OverLimit == \/ OVP(world) > 0 /\ Voltage >= OVP(world)
             \/ OCP(world) > 0 /\ Current >= OCP(world)

\* armed: _started after this sample has been looked at
Armed == started \/ (UVLO(world) > 0 /\ Voltage >= UVLO(world))

\* Mutant of Fault: the over-voltage and over-current limits are only watched
\* once the output has started.
FaultWhenStarted(armed) ==
  armed /\ (OverLimit \/ (UVLO(world) > 0 /\ Voltage <= UVLO(world)))

Fault(armed) ==
  \/ OverLimit
  \/ UVLO(world) > 0 /\ (armed \/ ~Masked(world)) /\ Voltage <= UVLO(world)

Done(kind) ==
  LET entry == [kind |-> kind, over |-> OverLimit, after |-> Snapshot']
  IN /\ n' = Sample
     /\ Converter(kind \in {"run", "retry"})
     /\ IF Sample > Len(log)
        THEN log' = Append(log, entry) /\ UNCHANGED replayed
        ELSE replayed' = entry /\ UNCHANGED log
     /\ UNCHANGED <<world, saved>>

Latched ==
  /\ n < Samples /\ state = "latched"
  /\ UNCHANGED <<state, elapsed, trips, started, inner>>
  /\ Done("hold")

Hold ==
  /\ n < Samples /\ state = "tripped" /\ elapsed + Period < Hiccup(world)
  /\ elapsed' = elapsed + Period
  /\ UNCHANGED <<state, trips, started, inner>>
  /\ Done("hold")

\* Mutant of Retry: the hold ends one period early.
RetryEarly ==
  /\ n < Samples /\ state = "tripped" /\ elapsed + 2 * Period >= Hiccup(world)
  /\ state' = "normal" /\ elapsed' = 0
  /\ inner' = inner + 1
  /\ UNCHANGED <<trips, started>>
  /\ Done("retry")

\* the timer has run out: the inner controller is tried on this same sample,
\* whose measurement is not checked
Retry ==
  /\ n < Samples /\ state = "tripped" /\ elapsed + Period >= Hiccup(world)
  /\ state' = "normal" /\ elapsed' = 0
  /\ inner' = inner + 1
  /\ UNCHANGED <<trips, started>>
  /\ Done("retry")

\* Mutant of Trip: it always latches.
TripLatches ==
  /\ n < Samples /\ state = "normal" /\ Fault(Armed)
  /\ started' = Armed
  /\ trips' = trips + 1 /\ elapsed' = 0
  /\ state' = "latched"
  /\ UNCHANGED inner
  /\ Done("trip")

Trip ==
  /\ n < Samples /\ state = "normal" /\ Fault(Armed)
  /\ started' = Armed
  /\ trips' = trips + 1 /\ elapsed' = 0
  /\ state' = IF Hiccup(world) = 0 THEN "latched" ELSE "tripped"
  /\ UNCHANGED inner
  /\ Done("trip")

Delegate ==
  /\ n < Samples /\ state = "normal" /\ ~Fault(Armed)
  /\ started' = Armed
  /\ inner' = inner + 1
  /\ UNCHANGED <<state, elapsed, trips>>
  /\ Done("run")

(***************************************************************************)
(* The run loop takes a checkpoint; later the process dies and a new one   *)
(* resumes.  The plant and the inner controller are restored as well.      *)
(***************************************************************************)
TakeSnapshot ==
  /\ saved # Snapshot
  /\ saved' = Snapshot
  /\ UNCHANGED <<state, elapsed, trips, started, inner, vout, n, world, log,
                 replayed>>

\* Mutant of Restore: the hold starts again.
RestoreWithoutTimer ==
  /\ n # saved.n
  /\ state' = saved.state /\ elapsed' = 0 /\ trips' = saved.trips
  /\ started' = saved.started /\ inner' = saved.inner /\ vout' = saved.vout
  /\ n' = saved.n
  /\ UNCHANGED <<world, log, replayed, saved>>

Restore ==
  /\ n # saved.n
  /\ state' = saved.state /\ elapsed' = saved.elapsed /\ trips' = saved.trips
  /\ started' = saved.started /\ inner' = saved.inner /\ vout' = saved.vout
  /\ n' = saved.n
  /\ UNCHANGED <<world, log, replayed, saved>>

Next == Latched \/ Hold \/ Retry \/ Trip \/ Delegate \/ TakeSnapshot \/ Restore

Spec == Init /\ [][Next]_vars
-----------------------------------------------------------------------------
\* The variables hold the values the code gives them; the hold timer runs
\* only in a hold, and never up to its end.
TypeOK ==
  /\ elapsed # 0 => state = "tripped" /\ elapsed < Hiccup(world)
  /\ state \in States /\ elapsed \in Nat /\ trips \in Nat
  /\ started \in BOOLEAN /\ inner \in Nat /\ vout \in Nat /\ n \in 0..Samples
  /\ world \in World
  /\ log \in Seq(Entry) /\ replayed \in Entry
  /\ saved \in Snapshots

\* A snapshot in the middle of a hold continues the run as if nothing had
\* happened: a resumed run does at every sample what the first one did
\* (test_protection: "a mid-hiccup snapshot continues bit-identically").
ReplayAgrees ==
  [][n' = n + 1 /\ n' <= Len(log) => replayed' = log[n']]_vars

Driven(k) == log[k].kind \in {"run", "retry"}

\* The latency ceiling: a limit that is exceeded at two samples running is
\* never met by two driven windows, and by a driven window at all only when
\* that is a retry.
FaultIsDrivenForOneWindowAtMost ==
  \A k \in 1..Len(log) : log[k].over /\ Driven(k) =>
    /\ log[k].kind = "retry"
    /\ k < Len(log) /\ log[k + 1].over => log[k + 1].kind = "trip"

\* "the trip action is held for at least that many seconds of control time,
\* then the inner controller is retried once": a retry ends a hold of at
\* least hiccup_s, and of less than a period more.
HoldIsNeverCut ==
  \A j, k \in 1..Len(log) :
    /\ j < k /\ log[j].kind = "trip"
    /\ \A i \in j + 1..k - 1 : log[i].kind = "hold"
    => /\ log[k].kind = "retry" =>
            (k - j) * Period >= Hiccup(world) /\ (k - j - 1) * Period < Hiccup(world)
       /\ log[k].kind # "run"

\* Without hiccup_s "the controller never recovers", a resumed run included.
LatchIsForever ==
  Hiccup(world) = 0 => \A j, k \in 1..Len(log) :
                  j < k /\ log[j].kind = "trip" => log[k].kind = "hold"

\* "tripped ... then retries the inner controller": once the disturbances
\* are over, the output is back at its nominal level at the end of the run.  A
\* retry starts from the discharged output with the under-voltage threshold
\* armed: this holds of a converter that rises above it in one period (one
\* that does not trips again at every retry).
RecoversInTime ==
  n = Samples /\ Hiccup(world) > 0 /\ UVLO(world) < Rise =>
    state = "normal" /\ vout = Nominal
=============================================================================
