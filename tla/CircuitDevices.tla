---------------------------- MODULE CircuitDevices ----------------------------
(* The closed vocabulary of circuit devices: which kinds exist, which ports    *)
(* each one has, which nets a port may bind, and which parameters it renders.  *)
(* A number of a document is a record: its class says whether it is absent, a  *)
(* finite number, a null, or something else (a string, a boolean).             *)
EXTENDS Integers, Sequences, FiniteSets

Num(n) == [class |-> "number", v |-> n]
Absent == [class |-> "absent", v |-> 0]
Null == [class |-> "null", v |-> 0]
Junk == [class |-> "other", v |-> 0]

CompilableNetKinds == {"electrical", "control", "reference"}

Electrical == {"electrical"}
ElectricalOrReference == {"electrical", "reference"}
Control == {"control"}

Port(id, nets, direction) == [id |-> id, nets |-> nets, direction |-> direction]

TwoTerminals(first, second) ==
    << Port(first, ElectricalOrReference, "passive"),
       Port(second, ElectricalOrReference, "passive") >>

(* The ordered ports of every kind, in the order the element card needs.       *)
Devices == [
    voltage_source |-> << Port("positive", Electrical, "output"),
                          Port("negative", ElectricalOrReference, "passive") >>,
    pulse_source |-> << Port("positive", Control, "output"),
                        Port("negative", ElectricalOrReference, "passive") >>,
    inductor |-> TwoTerminals("input", "output"),
    capacitor |-> TwoTerminals("positive", "negative"),
    resistor_load |-> TwoTerminals("positive", "negative"),
    voltage_controlled_switch |->
        << Port("input", ElectricalOrReference, "input"),
           Port("output", ElectricalOrReference, "output"),
           Port("control", Control, "control") >>,
    freewheeling_diode |-> TwoTerminals("anode", "cathode"),
    averaged_switch |-> << Port("input", Electrical, "input"),
                           Port("output", ElectricalOrReference, "output"),
                           Port("control", Control, "control") >> ]

(* The element letter of a kind; the averaged switch has none.                 *)
SpiceType == [
    voltage_source |-> "V", pulse_source |-> "V", inductor |-> "L",
    capacitor |-> "C", resistor_load |-> "R",
    voltage_controlled_switch |-> "S", freewheeling_diode |-> "D",
    averaged_switch |-> "" ]

Renderable(kind) == SpiceType[kind] # ""

KnownKind(kind) == kind \in DOMAIN Devices \cup {"diode"}

Canonical(kind) == IF kind = "diode" THEN "freewheeling_diode" ELSE kind

PortIds(kind) == {Devices[kind][i].id : i \in DOMAIN Devices[kind]}

PortSpec(kind, id) ==
    Devices[kind][CHOOSE i \in DOMAIN Devices[kind] : Devices[kind][i].id = id]

(* A parameter: its default (Absent when the document must supply it), its     *)
(* lower bound, and whether a null stands for "not stated".                    *)
Param(default, bound, nullable) ==
    [default |-> default, bound |-> bound, nullable |-> nullable]

Required == Param(Absent, "positive", FALSE)
Positive(n) == Param(Num(n), "positive", FALSE)
NonNegative(default, nullable) == Param(default, "nonnegative", nullable)

(* Volts are counted in halves, so that the default threshold is 1 and the     *)
(* default amplitude 2; the other defaults are only known to be positive.      *)
Parameters == [
    voltage_source |-> [voltage_v |-> Required],
    pulse_source |-> [switching_frequency_hz |-> Required,
                      amplitude_v |-> Positive(2),
                      rise_time_s |-> Positive(1),
                      fall_time_s |-> Positive(1),
                      dead_time_s |-> NonNegative(Absent, TRUE)],
    inductor |-> [inductance_h |-> Required,
                  initial_current_a |-> NonNegative(Num(0), FALSE)],
    capacitor |-> [capacitance_f |-> Required,
                   initial_voltage_v |-> NonNegative(Num(0), FALSE)],
    resistor_load |-> [resistance_ohm |-> Required],
    voltage_controlled_switch |->
        [on_resistance_ohm |-> Positive(1), off_resistance_ohm |-> Positive(1),
         threshold_v |-> Param(Num(1), "none", FALSE),
         hysteresis_v |-> NonNegative(Num(0), FALSE)],
    freewheeling_diode |-> [saturation_current_a |-> Positive(1),
                            emission_coefficient |-> Positive(1)],
    averaged_switch |-> << >> ]

ParameterNames(kind) == DOMAIN Parameters[kind]

AcceptedKeys(kind) == ParameterNames(kind) \cup {"phase_index"}

RequiredParameters(kind) ==
    {p \in ParameterNames(kind) :
        Parameters[kind][p].default = Absent /\ ~Parameters[kind][p].nullable}

WithinBound(spec, n) ==
    CASE spec.bound = "positive" -> n > 0
      [] spec.bound = "nonnegative" -> n >= 0
      [] OTHER -> TRUE
===============================================================================
