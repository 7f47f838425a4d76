------------------------------- MODULE Envelope -------------------------------
(* What a plant declares of itself, and the plugin that watches a run for it   *)
(* (model_claim.py, applicability.py).  A declaration is                       *)
(*   form       "absent", "none", "raises" or "ok"                             *)
(*   topology   "buck", "boost" or another                                     *)
(*   ranges     of the quantities it bounds                                    *)
(*   limits     of its numerical limits, [value, strength]                     *)
(*   static     the static parameters, by name                                 *)
(* and a range is [lower, upper, open]: the bounds as sets of at most one      *)
(* value, and the sides ("lower", "upper") that are exclusive.  Quantities are *)
(* levels, and the tolerance of a comparison, if there is one, is below one    *)
(* level.  A duty of DutyScale is a duty of one.                               *)
EXTENDS Integers, Sequences, FiniteSets
Seqs == INSTANCE SequencesExt

CONSTANT DutyScale

ASSUME DutyScaleAssumption == DutyScale \in Nat \ {0}

-------------------------------------------------------------------------------
(* Declarations.                                                               *)

RangeIsSound(range) ==
    /\ \A low \in range.lower, high \in range.upper : low <= high
    /\ "lower" \in range.open => range.lower # {}
    /\ "upper" \in range.open => range.upper # {}

LimitIsSound(limit) == limit.strength \in {"hard", "advisory"}

ClaimIsReadable(claim) ==
    /\ claim.form # "raises"
    /\ \A name \in DOMAIN claim.ranges : RangeIsSound(claim.ranges[name])
    /\ \A name \in DOMAIN claim.limits : LimitIsSound(claim.limits[name])

(* A declaration that cannot be read is not one that is missing.               *)
ClaimStatus(claim) ==
    CASE claim.form \in {"absent", "none"} -> "unknown"
      [] claim.form \notin {"absent", "none"} /\ ClaimIsReadable(claim) -> "declared"
      [] OTHER -> "declaration_invalid"

(* With a tolerance, a bound that is exclusive admits the bound itself.        *)
Contains_(range, v, tolerance) ==
    LET Strict(side) == side \in range.open /\ ~tolerance
    IN  /\ \A low \in range.lower : v > low \/ (v = low /\ ~Strict("lower"))
        /\ \A high \in range.upper : v < high \/ (v = high /\ ~Strict("upper"))

(* Where the numbers come from: [form, status, records], and of every record   *)
(* whether its value is there, its source and whether it was reviewed.         *)
Sources == {"datasheet", "measurement", "assumption", "default", "reviewed_reference",
            "undeclared"}

ParameterRecords ==
    [name : STRING, valued : BOOLEAN, source : STRING, reviewed : BOOLEAN]

Inferred(records) ==
    IF \A r \in Seqs!ToSet(records) : r.source = "undeclared" THEN "unknown"
    ELSE IF \E r \in Seqs!ToSet(records) : ~r.valued \/ r.source = "undeclared" THEN "partial"
    ELSE "declared"

(* A status is taken at its word; only a missing one is inferred.              *)
NormalisedProvenance(status, records) ==
    IF \/ status \notin {"", "declared", "partial", "unknown"}
       \/ \E r \in Seqs!ToSet(records) : r.source \notin Sources
    THEN "declaration_invalid"
    ELSE IF records = << >> THEN "unknown"
    ELSE IF status # "" THEN status
    ELSE Inferred(records)

ProvenanceStatus(provenance) ==
    CASE provenance.form \in {"absent", "none"} -> "unknown"
      [] provenance.form = "raises" -> "declaration_invalid"
      [] OTHER -> NormalisedProvenance(provenance.status, provenance.records)

IsUnreviewed(record) == ~record.reviewed \/ record.source \in {"assumption", "default"}

-------------------------------------------------------------------------------
(* The plugin: the findings so far, those not yet reported, the rules that     *)
(* were found broken, how often each was broken, and the last external point.  *)

NewPlugin == [all |-> << >>, pending |-> << >>, seen |-> {}, counts |-> << >>,
              last |-> << >>]

EnvelopePolicies ==
    [mode : {"default", "off", "record", "warn", "enforce"},
     blocking : SUBSET {"hard", "advisory"}, preflight : BOOLEAN, steps : BOOLEAN,
     external : BOOLEAN, requireEnvelope : BOOLEAN, requireProvenance : BOOLEAN,
     dedup : BOOLEAN, tolerance : BOOLEAN]

Resolve(policy, mode) ==
    IF policy.mode # "default" THEN policy
    ELSE [policy EXCEPT !.mode = IF mode = "formal_comparison" THEN "enforce" ELSE "record"]

Offence(rule, variable, strength) ==
    [rule |-> rule, variable |-> variable, strength |-> strength]

Times(plugin, rule) == IF rule \in DOMAIN plugin.counts THEN plugin.counts[rule] ELSE 0
Counted(plugin, rule) ==
    [r \in DOMAIN plugin.counts \cup {rule} |->
        Times(plugin, r) + (IF r = rule THEN 1 ELSE 0)]

Severity(policy, blocking) ==
    IF blocking THEN "error" ELSE IF policy.mode = "warn" THEN "warning" ELSE "info"

FindingOf(policy, offence, at) ==
    LET blocking == policy.mode = "enforce" /\ offence.strength \in policy.blocking
    IN  [rule |-> offence.rule, variable |-> offence.variable, blocking |-> blocking,
         severity |-> Severity(policy, blocking), at |-> at]

(* The same rule and variable is found once, and counted from then on.         *)
Record(plugin, policy, offence, at) ==
    LET key == <<offence.rule, offence.variable>>
        finding == FindingOf(policy, offence, at)
        counted == [plugin EXCEPT !.counts = Counted(plugin, offence.rule)]
    IN  CASE policy.mode = "off" -> plugin
          [] policy.mode # "off" /\ policy.dedup /\ key \in plugin.seen -> counted
          [] OTHER -> [counted EXCEPT !.seen = @ \cup {key},
                                      !.all = Append(@, finding),
                                      !.pending = Append(@, finding)]

RecordAll(plugin, policy, offences, at) ==
    LET after[k \in 0 .. Len(offences)] ==
            IF k = 0 THEN plugin ELSE Record(after[k - 1], policy, offences[k], at)
    IN  after[Len(offences)]

Blocks(findings) == \E f \in Seqs!ToSet(findings) : f.blocking

(* The report of a phase takes what is pending with it.                        *)
Reported(plugin) == [plugin EXCEPT !.pending = << >>]
Rejects_(plugin) == Blocks(plugin.pending)

-------------------------------------------------------------------------------
(* The checks.  Each is the sequence of the offences it finds.                 *)

When(condition, offence) == IF condition THEN <<offence>> ELSE << >>

RangeOffence(claim, policy, name, v, rule) ==
    When(name \in DOMAIN claim.ranges /\ ~Contains_(claim.ranges[name], v, policy.tolerance),
         Offence(rule, name, "hard"))

VinOffence(claim, policy, v) == RangeOffence(claim, policy, "input_voltage_v", v, "vin.domain")
LoadOffence(claim, policy, v) ==
    RangeOffence(claim, policy, "load_resistance_ohm", v, "load.domain")
DutyOffence(claim, policy, v) == RangeOffence(claim, policy, "duty", v, "duty.domain")

(* The bounds of the action policy, when it declares them.                     *)
ActuatorOffence(claim, policy, bounds) ==
    CASE bounds = {} -> << >>
      [] bounds # {} /\ "duty" \notin DOMAIN claim.ranges ->
            <<Offence("actuator.undeclared", "duty", "advisory")>>
      [] OTHER -> When(\E v \in bounds : ~Contains_(claim.ranges["duty"], v, policy.tolerance),
                       Offence("actuator.subset", "duty", "hard"))

ScheduleOffences(claim, policy, schedule) ==
    Seqs!FlattenSeq([k \in DOMAIN schedule |->
        VinOffence(claim, policy, schedule[k].vin) \o LoadOffence(claim, policy, schedule[k].load)])

(* The numerical limits, each with the parameter it bounds, from below or not. *)
LimitRules == <<
    [limit |-> "control_period.min_switching_periods", of |-> "switching_periods_per_control_period",
     rule |-> "control_period.switching_periods", variable |-> "control_period", least |-> TRUE],
    [limit |-> "samples_per_switching_period.min", of |-> "samples_per_switching_period",
     rule |-> "samples_per_switching_period", variable |-> "sample_resolution", least |-> TRUE],
    [limit |-> "integration_step_s.max", of |-> "integration_step_s",
     rule |-> "timestep.dynamics", variable |-> "integration_step", least |-> FALSE],
    [limit |-> "control_period.min_integration_substeps", of |-> "integration_step_s",
     rule |-> "control_period.substeps", variable |-> "control_period", least |-> TRUE],
    [limit |-> "load.min_off_resistance_ratio", of |-> "load_off_resistance_ratio",
     rule |-> "load.off_resistance_ratio", variable |-> "load_ratio", least |-> TRUE] >>

LimitIsBroken(claim, r, period) ==
    LET value == IF r.rule = "control_period.substeps" THEN period \div claim.static[r.of]
                 ELSE claim.static[r.of]
    IN  IF r.least THEN value < claim.limits[r.limit].value
        ELSE value > claim.limits[r.limit].value

LimitOffence(claim, period, r) ==
    IF r.of \in DOMAIN claim.static /\ r.limit \in DOMAIN claim.limits
    THEN When(LimitIsBroken(claim, r, period),
              Offence(r.rule, r.variable, claim.limits[r.limit].strength))
    ELSE << >>

LimitOffences(claim, period) ==
    Seqs!FlattenSeq([k \in DOMAIN LimitRules |-> LimitOffence(claim, period, LimitRules[k])])

Required(condition) == IF condition THEN "hard" ELSE "advisory"

ProvenanceOffences(provenance, policy) ==
    LET status == ProvenanceStatus(provenance)
        records == provenance.records
    IN  CASE status = "declaration_invalid" ->
                <<Offence("provenance.invalid", "provenance", Required(policy.requireProvenance))>>
          [] status = "unknown" ->
                <<Offence("provenance.unknown", "provenance", Required(policy.requireProvenance))>>
          [] OTHER -> Seqs!FlattenSeq([k \in DOMAIN records |->
                        When(IsUnreviewed(records[k]),
                             Offence("provenance.unreviewed", records[k].name, "advisory"))])

(* A watch is what the plugin is made of: [policy, claim, status, provenance,  *)
(* bounds], with the status of the claim as it was collected.                  *)

(* check_preflight: what was declared is looked at only when it can be read.   *)
PreflightOffences(watch, schedule, period) ==
    LET claim == watch.claim
        policy == watch.policy
    IN  IF watch.status # "declared"
        THEN <<Offence(watch.status, "claim", Required(policy.requireEnvelope))>>
        ELSE ActuatorOffence(claim, policy, watch.bounds)
             \o ScheduleOffences(claim, policy, schedule)
             \o LimitOffences(claim, period)
             \o ProvenanceOffences(watch.provenance, policy)

CheckPreflight(watch, schedule, period) ==
    IF watch.policy.preflight
    THEN RecordAll(NewPlugin, watch.policy, PreflightOffences(watch, schedule, period), 0)
    ELSE NewPlugin

(* Continuous conduction, in the two topologies where it can be estimated.     *)
ConductionIsLost(claim, vin, load, duty) ==
    LET lf == 2 * claim.static["inductance_h"] * claim.static["switching_frequency_hz"]
        off == DutyScale - duty
    IN  /\ {"inductance_h", "switching_frequency_hz"} \subseteq DOMAIN claim.static
        /\ load > 0
        /\ CASE claim.topology = "buck" -> vin * duty * lf * DutyScale < vin * duty * off * load
             [] claim.topology = "boost" /\ duty < DutyScale ->
                    vin * lf * DutyScale * DutyScale * DutyScale < vin * duty * off * off * load
             [] OTHER -> FALSE

(* A new external point is judged afresh.                                      *)
PointKeys == {<<"vin.domain", "input_voltage_v">>, <<"load.domain", "load_resistance_ohm">>,
              <<"ccm.boundary", "duty">>}

(* (Mutant: what was found at the point before is not found again.)            *)
MovedButSeen(plugin, policy, at) ==
    RecordAll(plugin, policy, <<Offence("external_input.changed", "external", "advisory")>>, at)
Moved(plugin, policy, at) ==
    LET told == RecordAll(plugin, policy,
                    <<Offence("external_input.changed", "external", "advisory")>>, at)
    IN  [told EXCEPT !.seen = @ \ PointKeys]

Stepped(watch) == watch.policy.steps /\ watch.status = "declared"

CheckObservation(plugin, watch, point, duty, at) ==
    LET policy == watch.policy
        claim == watch.claim
        moved == policy.external /\ plugin.last # << >> /\ plugin.last # <<point>>
        placed == [(IF moved THEN Moved(plugin, policy, at) ELSE plugin)
                        EXCEPT !.last = IF policy.external THEN <<point>> ELSE @]
    IN  IF ~Stepped(watch) THEN plugin
        ELSE RecordAll(placed, policy,
                VinOffence(claim, policy, point.vin) \o LoadOffence(claim, policy, point.load)
                \o When(ConductionIsLost(claim, point.vin, point.load, duty),
                        Offence("ccm.boundary", "duty", "advisory")), at)

(* A pulse that is shorter than its two edges cannot be drawn.                 *)
PulseIsLost(claim, duty) ==
    /\ {"switching_period_s", "pulse_edge_s"} \subseteq DOMAIN claim.static
    /\ duty > 0 /\ duty < DutyScale
    /\ duty * claim.static["switching_period_s"] < 2 * claim.static["pulse_edge_s"] * DutyScale

CheckAction(plugin, watch, duty, at) ==
    IF ~Stepped(watch) THEN plugin
    ELSE RecordAll(plugin, watch.policy,
            DutyOffence(watch.claim, watch.policy, duty)
            \o When(PulseIsLost(watch.claim, duty),
                    Offence("duty.resolution", "duty_resolution", "advisory")), at)

(* What the manifest says in the end; without a plugin there is no statement.  *)
SummaryStatus(plugin, watch) ==
    IF watch.policy.mode = "off" THEN "disabled"
    ELSE IF watch.status # "declared" THEN watch.status
    ELSE IF Blocks(plugin.all) THEN "violated"
    ELSE IF plugin.all # << >> THEN "limited"
    ELSE "within"
===============================================================================
