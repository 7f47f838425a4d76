----------------------------- MODULE MCRecords -----------------------------
(* Two directories of one run and one of another, two contents with the    *)
(* same parameters, four earlier ones with others, and an attester for     *)
(* each run.                                                               *)
EXTENDS Records

DirRuns == [d1 |-> "r1", d2 |-> "r1", d3 |-> "r2"]
MCDirs == DOMAIN DirRuns
MCRunOf(d) == DirRuns[d]
MCServes(a) == IF a = "first" THEN {"r1"} ELSE {"r2"}

(* The manifests: v2 is v1 run again; the earlier ones differ from them in *)
(* types, units, the configuration, the timebase, the limits, the solver's *)
(* settings, or what they record at all.                                   *)
Whole(x) == [kind |-> "int", is |-> x]
Decimal(x) == [kind |-> "float", is |-> x]
Base ==
  [plant |-> [id |-> "buck", topology |-> "buck",
              parameters |-> [resistance |-> Whole("1"), ideal |-> Whole("1")]],
   controller |-> [id |-> "pi", parameters |-> [gain |-> Whole("2")],
                   run_configuration |-> [gain |-> Whole("3")],
                   identity_configuration |-> <<>>],
   timebase |-> [values |-> [step |-> Decimal("1"), mode |-> [kind |-> "text", is |-> "fixed"]],
                 unit |-> "s"],
   policy |-> [name |-> "duty", values |-> [minimum |-> Decimal("0"), maximum |-> Decimal("1")]],
   backends |-> {[name |-> "python", settings |-> [integrator |-> [kind |-> "text", is |-> "rk4"]]],
                 [name |-> "silent", settings |-> <<>>]},
   findings |-> << [parameter |-> "resistance", unit |-> "Ohm"],
                   [parameter |-> "resistance", unit |-> "mOhm"] >>]
MCManifestOf(c) ==
  CASE c \in {"v1", "v2"} -> Base
    [] c = "retyped" -> [Base EXCEPT !.plant = [id |-> Absent, topology |-> "buck", parameters |->
                           [resistance |-> Decimal("1"), ideal |-> [kind |-> "bool", is |-> "1"]]],
                         !.findings = Tail(@),
                         !.controller.identity_configuration = [gain |-> Whole("5")],
                         !.policy.values = [maximum |-> Decimal("1")]]
    [] c = "retuned" -> [Base EXCEPT
                           !.controller.run_configuration =
                             [gain |-> Whole("3"), window |-> [kind |-> "null", is |-> "null"]],
                           !.timebase = [values |-> [step |-> Decimal("1"), phase |-> Whole("0")],
                                         unit |-> "ms"],
                           !.policy = [name |-> "pwm", values |->
                                         [minimum |-> Decimal("0"), maximum |-> Decimal("2")]],
                           !.backends = {[name |-> "python", settings |->
                                            [integrator |-> [kind |-> "text", is |-> "euler"]]]}]
    [] c = "bare" -> [Base EXCEPT !.plant.parameters = <<>>, !.timebase.values = <<>>,
                                  !.controller.parameters = <<>>, !.policy.values = <<>>,
                                  !.controller.run_configuration = <<>>, !.backends = {}]
    [] c = "array" -> [Base EXCEPT !.plant.parameters.resistance.kind = "array"]
=============================================================================
