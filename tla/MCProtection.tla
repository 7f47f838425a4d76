---------------------------- MODULE MCProtection ----------------------------
EXTENDS WatchedRun, TLC

Limits == [ovp_v |-> 5, ocp_a |-> 2, uvlo_v |-> 0, hiccup_s |-> 5,
           uvlo_startup_mask |-> TRUE]
FourPolicies ==
  {Limits,                                  \* hiccup
   [Limits EXCEPT !.hiccup_s = 0],          \* latch
   [Limits EXCEPT !.uvlo_v = 2],            \* under-voltage, masked at startup
   [Limits EXCEPT !.uvlo_v = 2, !.uvlo_startup_mask = FALSE]}
Early == {1, 2, 4, 5}

(* A load dump leaves a light load, a short circuit none that is declared.     *)
MCLoads == [none |-> 3, dump |-> 6, short |-> 0]

From(low) == [lower |-> {low}, upper |-> {}, open |-> {"lower"}]
Between(low, high) == [lower |-> {low}, upper |-> {high}, open |-> {}]
Limit(value, strength) == [value |-> value, strength |-> strength]

Converter_ ==
  [form |-> "ok", topology |-> "buck",
   ranges |-> [input_voltage_v |-> From(0), load_resistance_ohm |-> From(0),
               duty |-> Between(0, 4)],
   limits |-> << >>,
   static |-> [inductance_h |-> 2, switching_frequency_hz |-> 1,
               switching_period_s |-> 2, pulse_edge_s |-> 1, integration_step_s |-> 1]]
\* a load range that a short and a dump leave, and a duty range that a trip leaves
Narrow == [Converter_ EXCEPT !.ranges.load_resistance_ohm = Between(1, 5),
             !.limits = "integration_step_s.max" :> Limit(1, "hard")
                        @@ "control_period.min_integration_substeps" :> Limit(3, "advisory")]
Pulsed == [Converter_ EXCEPT !.ranges.duty = Between(1, 4), !.topology = "boost"]
Unordered == [Converter_ EXCEPT !.ranges.duty = Between(4, 1)]

Known == [name |-> "l", valued |-> TRUE, source |-> "datasheet", reviewed |-> TRUE]
Given == [form |-> "ok", status |-> "", records |-> <<Known>>]
Assumed == [Given EXCEPT !.records = <<Known, [Known EXCEPT !.name = "c", !.source = "default"]>>]
Unsaid == [Given EXCEPT !.form = "absent", !.records = << >>]

Policy_ ==
  [mode |-> "default", blocking |-> {"hard"}, preflight |-> TRUE, steps |-> TRUE,
   external |-> TRUE, requireEnvelope |-> FALSE, requireProvenance |-> FALSE,
   dedup |-> TRUE, tolerance |-> TRUE]
Watch(policy, mode, claim, provenance) ==
  [policy |-> policy, mode |-> mode, claim |-> claim, provenance |-> provenance,
   bounds |-> {0, 4}]

MCWatches ==
  {Watch(Policy_, "exploratory", Narrow, Given),
   Watch(Policy_, "formal_comparison", Narrow, Assumed),
   Watch([Policy_ EXCEPT !.preflight = FALSE], "formal_comparison", Narrow, Given),
   Watch([Policy_ EXCEPT !.preflight = FALSE], "formal_comparison", Pulsed, Given),
   Watch([Policy_ EXCEPT !.mode = "warn", !.tolerance = FALSE], "exploratory", Converter_, Unsaid),
   Watch([Policy_ EXCEPT !.requireEnvelope = TRUE], "formal_comparison", Unordered, Given)}
=============================================================================
