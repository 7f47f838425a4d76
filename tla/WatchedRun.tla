------------------------------ MODULE WatchedRun ------------------------------
(* A protected run with the envelope of its plant watched: before the run, at  *)
(* the first observation, at every sample and for every action the plugin is   *)
(* asked, and when it objects the run ends before the plant is driven.  The    *)
(* disturbances are steps of the load, which the input schedule announces.  A  *)
(* resumed run has a new plugin: its findings are in no checkpoint.            *)
EXTENDS Protection, Envelope

CONSTANTS Watches,     \* [policy, mode, claim, provenance, bounds]
          Loads,       \* the load at a sample, by its disturbance
          Vin, Duty,   \* the input voltage, and the duty of the inner controller
          CheckpointInterval \* checkpoint_interval_steps

ASSUME WatchAssumption ==
    /\ Loads \in [Disturbances -> Nat]
    /\ Vin \in Nat /\ Duty \in 0 .. DutyScale
    /\ CheckpointInterval \in Nat \ {0}
    /\ \A w \in Watches : /\ w.policy \in EnvelopePolicies
                          /\ w.provenance.records \in Seq(ParameterRecords)

VARIABLES watch,    \* the declarations of the plant and the policy in force
          plugin,   \* the envelope plugin of this process
          first,    \* the sample before the first one it saw
          stopped   \* where the run was ended: "no", "preflight", "start" (the
                    \* first observation), "observation", "action"

watchVars == <<watch, plugin, first, stopped>>
allVars == <<vars, watchVars>>

Point(k) == [vin |-> Vin, load |-> Loads[world.meets[k]]]

(* The schedule has an item for every sample.                                  *)
Schedule(w) == [k \in 1 .. Samples |-> [vin |-> Vin, load |-> Loads[w.meets[k]]]]

DutyOf(kind) == IF kind \in {"run", "retry"} THEN Duty ELSE 0

(* The duty the plant shows at sample k: the one it was last driven with.      *)
DutyBefore(k) == IF k = 1 THEN 0 ELSE DutyOf(log[k - 1].kind)

(* A process starts after a number of samples; only a run that starts afresh   *)
(* takes an observation before the first window.                               *)
Preflight(w) == CheckPreflight(w, Schedule(world), Period)

(* The plugin, and where the run has ended already.                            *)
Start(w, from) ==
    LET preflight == Preflight(w)
        observed == CheckObservation(Reported(preflight), w, Point(1), 0, 0)
    IN  CASE Rejects_(preflight) -> <<preflight, "preflight">>
          [] ~Rejects_(preflight) /\ from > 0 -> <<preflight, "no">>
          [] OTHER -> <<observed, IF Rejects_(observed) THEN "start" ELSE "no">>

WatchedInit ==
    /\ Init
    /\ \E w \in Watches :
        watch = [policy |-> Resolve(w.policy, w.mode), claim |-> w.claim,
                 status |-> ClaimStatus(w.claim), provenance |-> w.provenance,
                 bounds |-> w.bounds]
    /\ \E start \in {Start(watch, 0)} : plugin = Reported(start[1]) /\ stopped = start[2]
    /\ first = 0

(* What the controller is about to answer.                                     *)
NextKind ==
    CASE state = "latched" -> "hold"
      [] state = "tripped" -> IF elapsed + Period < Hiccup(world) THEN "hold" ELSE "retry"
      [] OTHER -> IF Fault(Armed) THEN "trip" ELSE "run"

Observed == CheckObservation(plugin, watch, Point(Sample), DutyBefore(Sample), Sample)
Acted(observed) == CheckAction(Reported(observed), watch, DutyOf(NextKind), Sample)

(* The run fails, at the observation or at the action before it is applied;    *)
(* the wrapper is thrown away with it.                                         *)
Refuse(p, phase) ==
    /\ stopped' = phase
    /\ plugin' = Reported(p)
    /\ UNCHANGED <<vars, watch, first>>

Drive(p) ==
    /\ Latched \/ Hold \/ Retry \/ Trip \/ Delegate
    /\ plugin' = Reported(p)
    /\ UNCHANGED <<watch, first, stopped>>

Window ==
    /\ stopped = "no" /\ n < Samples
    /\ \E observed \in {Observed} :
        \/ Rejects_(observed) /\ Refuse(observed, "observation")
        \/ /\ ~Rejects_(observed)
           /\ \E acted \in {Acted(observed)} :
                \/ Rejects_(acted) /\ Refuse(acted, "action")
                \/ ~Rejects_(acted) /\ Drive(acted)

Checkpoint ==
    /\ stopped = "no" /\ n % CheckpointInterval = 0
    /\ TakeSnapshot
    /\ UNCHANGED watchVars

Resume ==
    /\ Restore
    /\ UNCHANGED watch
    /\ \E start \in {Start(watch, saved.n)} :
        plugin' = Reported(start[1]) /\ stopped' = start[2]
    /\ first' = saved.n

WatchedNext == Window \/ Checkpoint \/ Resume

WatchedSpec == WatchedInit /\ [][WatchedNext]_allVars
-------------------------------------------------------------------------------
(* The plugin watches what it is given, and a policy is never "default".       *)
WatchTypeOK ==
    /\ watch.policy.mode \in {"off", "record", "warn", "enforce"}
    /\ plugin.pending = << >>
    /\ first \in 0 .. n
    /\ stopped \in {"no", "preflight", "start", "observation", "action"}

(* The samples this process has looked at, the refused one included.           *)
Watched == first + 1 .. IF stopped \in {"observation", "action"} THEN Sample ELSE n

Outside(name, v) ==
    /\ name \in DOMAIN watch.claim.ranges
    /\ ~Contains_(watch.claim.ranges[name], v, watch.policy.tolerance)

LoadOutside(k) == Outside("load_resistance_ohm", Loads[world.meets[k]])

Declared == watch.status = "declared"
Judging == Declared /\ watch.policy.mode # "off" /\ watch.policy.steps

(* However often the load has been where it is now, each time it comes there   *)
(* from elsewhere and the model does not cover it, that is found anew: the     *)
(* findings before the step do not stand for it (the dedup keys dropped by     *)
(* check_observation).  Only the start is covered by what the preflight says.  *)
EveryPointIsJudged ==
    (Judging /\ watch.policy.external /\ stopped # "preflight") =>
        \A k \in Watched : LoadOutside(k) =>
            \E f \in {plugin.all[i] : i \in DOMAIN plugin.all} :
                /\ f.rule = "load.domain" /\ f.at <= k
                /\ \A j \in first + 2 .. k : f.at < j => Point(j) = Point(j - 1)

(* The count of a rule is the number of times it was broken, found or only     *)
(* counted: by the items of the schedule, the first observation, the samples.  *)
CountsAreComplete ==
    (Judging /\ stopped # "preflight") =>
        LET items == IF watch.policy.preflight THEN Schedule(world) ELSE << >>
            planned == {i \in DOMAIN items : Outside("load_resistance_ohm", items[i].load)}
            seen == {k \in Watched : LoadOutside(k)}
        IN  Times(plugin, "load.domain") =
                Cardinality(planned) + Cardinality(seen)
                + (IF first = 0 /\ LoadOutside(1) THEN 1 ELSE 0)

(* Under an enforced policy the plant is never driven where its model does not *)
(* apply: neither with a load nor with a duty that it excludes, the trip       *)
(* action of the protection included.  And a run that is said to be within the *)
(* envelope was, at every sample that this process saw.                        *)
EnforcedRunsStayInside ==
    /\ (Judging /\ watch.policy.mode = "enforce" /\ "hard" \in watch.policy.blocking) =>
            \A k \in first + 1 .. n : ~LoadOutside(k) /\ ~Outside("duty", DutyOf(log[k].kind))
    /\ SummaryStatus(plugin, watch) = "within" /\ watch.policy.steps =>
            \A k \in first + 1 .. n : /\ ~LoadOutside(k)
                                      /\ ~Outside("duty", DutyOf(log[k].kind))
    /\ SummaryStatus(plugin, watch) = "violated" <=> stopped # "no" /\ Declared

EnvelopeIsHonest == EveryPointIsJudged /\ CountsAreComplete /\ EnforcedRunsStayInside
===============================================================================
