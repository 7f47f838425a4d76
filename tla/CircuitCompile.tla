---------------------------- MODULE CircuitCompile ----------------------------
(* The compiler: one descriptor and one commanded duty become one netlist, or  *)
(* a refusal with a code.  Time is counted in ticks, and a carrier's           *)
(* switching_frequency_hz is written as its period in ticks.  A duty is a      *)
(* number of DutyScale-ths of the period.                                      *)
(*                                                                             *)
(* A command is [duty, phase, initial, overrides]: where the carrier stands at *)
(* the start of the window, the components that resume a state, and the        *)
(* parameters replaced for this window.                                        *)
EXTENDS TopologyDescriptor, TLC
Sets == INSTANCE FiniteSetsExt
Maps == INSTANCE Functions

CONSTANTS DutyScale,    \* the duty that stands for 1
          Names         \* the ids of nets, in the order sorted() gives them

ASSUME CompileAssumption ==
    /\ DutyScale \in Nat \ {0}
    /\ Names \in Seq(STRING)
    /\ \A i, j \in DOMAIN Names : Names[i] = Names[j] => i = j

(* A refusal has a code; what is not refused has none.                         *)
Accepted == ""

a ?? b == IF a = Accepted THEN b ELSE a

RefuseIf(condition, code) == IF condition THEN code ELSE Accepted

(* The refusal of the first of a set of positions that has one; the positions  *)
(* after it are not looked at.                                                 *)
FirstRefused(positions, Why(_)) ==
    IF \A p \in positions : Why(p) = Accepted THEN Accepted
    ELSE Why(CHOOSE p \in positions :
                Why(p) # Accepted /\ \A q \in positions : q < p => Why(q) = Accepted)

-------------------------------------------------------------------------------
(* Reading a component.                                                        *)

KindOf(doc, c) == Canonical(doc.components[c].kind)
OfKind(doc, kind) == {c \in DOMAIN doc.components : KindOf(doc, c) = kind}
Actuators(doc) == OfKind(doc, "voltage_controlled_switch")
Carriers(doc) == OfKind(doc, "pulse_source")

PortsNamed(doc, c, id) ==
    {p \in DOMAIN doc.components[c].ports : doc.components[c].ports[p].id = id}

Net(doc, c, id) == doc.components[c].ports[CHOOSE p \in PortsNamed(doc, c, id) : TRUE].net

NoPort(doc, c, id) == RefuseIf(PortsNamed(doc, c, id) = {}, "not_compilable")

NoPortOf(doc, c, ids) ==
    FirstRefused(DOMAIN ids, LAMBDA i : NoPort(doc, c, ids[i]))

KindOfNet(doc, id) ==
    doc.nets[CHOOSE n \in DOMAIN doc.nets : doc.nets[n].id = id].kind

ReferenceNets(doc) ==
    {doc.nets[n].id : n \in {m \in DOMAIN doc.nets : doc.nets[m].kind = "reference"}}

ReferenceNet(doc) == CHOOSE net \in ReferenceNets(doc) : TRUE

(* The parameters of a component in one window.                                *)
View(doc, command, c) ==
    LET component == doc.components[c]
        replaced == IF component.id \in DOMAIN command.overrides
                    THEN command.overrides[component.id] ELSE << >>
    IN  [name \in DOMAIN replaced \cup DOMAIN component.params |->
            IF name \in DOMAIN replaced THEN replaced[name] ELSE component.params[name]]

Stated(doc, command, c, name) ==
    LET params == View(doc, command, c)
    IN  IF name \in DOMAIN params THEN params[name]
                                  ELSE Parameters[KindOf(doc, c)][name].default

Value(doc, command, c, name) == Stated(doc, command, c, name).v

BadParameter(doc, command, c, name) ==
    LET value == Stated(doc, command, c, name)
        spec == Parameters[KindOf(doc, c)][name]
    IN  CASE value.class = "absent" -> RefuseIf(~spec.nullable, "missing_parameter")
          [] value.class \in {"null", "other"} -> "invalid_parameter"
          [] OTHER -> RefuseIf(~WithinBound(spec, value.v), "invalid_parameter")

BadParameterOf(doc, command, c, names) ==
    FirstRefused(DOMAIN names, LAMBDA i : BadParameter(doc, command, c, names[i]))

-------------------------------------------------------------------------------
(* The descriptor, before any gate: the one structural rule it repeats is that *)
(* a port binds a net of a kind it accepts.                                    *)

(* Mutant: the kind of the net is not looked at.                               *)
PortWithoutNet(doc, c) ==
    \E p \in DOMAIN doc.components[c].ports :
        \A n \in DOMAIN doc.nets : doc.nets[n].id # doc.components[c].ports[p].net

WrongPort(doc, c) ==
    \E p \in DOMAIN doc.components[c].ports :
        LET port == doc.components[c].ports[p]
        IN  /\ port.id \in PortIds(KindOf(doc, c))
            /\ KindOfNet(doc, port.net) \notin PortSpec(KindOf(doc, c), port.id).nets

ComponentNamed(doc, id) == {c \in DOMAIN doc.components : doc.components[c].id = id}

BadCommand(doc, command) ==
    \/ \E id \in command.initial :
            \A c \in ComponentNamed(doc, id) : KindOf(doc, c) \notin {"inductor", "capacitor"}
    \/ \E id \in DOMAIN command.overrides :
            \A c \in ComponentNamed(doc, id) :
                ~(DOMAIN command.overrides[id] \subseteq ParameterNames(KindOf(doc, c)))

DescriptorRefusal(doc, command) ==
    RefuseIf(\E n \in DOMAIN doc.nets : doc.nets[n].kind \notin CompilableNetKinds,
           "unsupported_net_kind")
    ?? RefuseIf(Cardinality(ReferenceNets(doc)) # 1, "ambiguous_reference_net")
    ?? FirstRefused(DOMAIN doc.components, LAMBDA c :
            RefuseIf(~KnownKind(doc.components[c].kind) \/ ~Renderable(KindOf(doc, c)),
                   "not_compilable"))
    ?? FirstRefused(DOMAIN doc.components, LAMBDA c :
            RefuseIf(WrongPort(doc, c), "unsupported_net_kind"))
    ?? RefuseIf(BadCommand(doc, command), "invalid_parameter")

-------------------------------------------------------------------------------
(* metadata.control.                                                           *)

NoneOrNonNegative(number) ==
    number.class = "absent" \/ (number.class = "number" /\ number.v >= 0)

ControlKeys(control) ==
    (IF control.dead = Absent THEN {} ELSE {"dead_time_s"})
    \cup (IF control.shift = Absent THEN {} ELSE {"leg_phase_shift_s"})
    \cup (IF control.phases = Absent THEN {} ELSE {"phases"})
    \cup (IF control.pairsForm = "absent" THEN {} ELSE {"pairs"})
    \cup (IF control.orderForm = "absent" THEN {} ELSE {"gate_order"})
    \cup (IF control.extra THEN {"extra"} ELSE {})

AllowedKeys == [single_duty_complementary |-> {"dead_time_s"},
                single_duty_interleaved |-> {"phases", "gate_order"},
                paired_complementary |-> {"pairs", "dead_time_s", "leg_phase_shift_s"}]

Members(pairs) == (DOMAIN pairs) \X {1, 2}

PairsAreRead(control) ==
    /\ control.pairsForm = "ok"
    /\ control.pairs # << >>
    /\ \A a, b \in Members(control.pairs) :
            control.pairs[a[1]][a[2]] = control.pairs[b[1]][b[2]] => a = b

PhasesAreRead(control) == control.phases.class = "number" /\ control.phases.v >= 2

OrderIsRead(control) ==
    \/ control.orderForm = "absent"
    \/ /\ control.orderForm = "ok"
       /\ \A i, j \in DOMAIN control.order : control.order[i] = control.order[j] => i = j

DeclarationIsRead(control) ==
    /\ control.form = "ok"
    /\ control.mode \in DOMAIN AllowedKeys
    /\ ControlKeys(control) \subseteq AllowedKeys[control.mode]
    /\ control.mode # "single_duty_interleaved" => NoneOrNonNegative(control.dead)
    /\ control.mode = "paired_complementary" =>
            PairsAreRead(control) /\ NoneOrNonNegative(control.shift)
    /\ control.mode = "single_duty_interleaved" =>
            PhasesAreRead(control) /\ OrderIsRead(control)

-------------------------------------------------------------------------------
(* One carrier per control net.                                                *)

CarrierNet(doc, k) == Net(doc, k, "positive")

CarriersOn(doc, net) == {k \in Carriers(doc) : CarrierNet(doc, k) = net}
CarrierOn(doc, net) == CHOOSE k \in CarriersOn(doc, net) : TRUE
CarrierNets(doc) == {CarrierNet(doc, k) : k \in Carriers(doc)}

CarrierRefusal(doc) ==
    FirstRefused(Carriers(doc), LAMBDA k :
        NoPort(doc, k, "positive")
        ?? RefuseIf(\E j \in Carriers(doc) : j < k /\ CarrierNet(doc, j) = CarrierNet(doc, k),
                  "multiple_carriers"))

Period(doc, command, net) ==
    Value(doc, command, CarrierOn(doc, net), "switching_frequency_hz")

FrequencyRefusal(doc, command, net) ==
    BadParameter(doc, command, CarrierOn(doc, net), "switching_frequency_hz")

(* A carrier may record a dead time of its own, but only the declared one.     *)
DeadTimeRefusal(doc, command, net, dead) ==
    LET carrier == CarrierOn(doc, net)
        stated == Stated(doc, command, carrier, "dead_time_s")
    IN  BadParameter(doc, command, carrier, "dead_time_s")
        ?? RefuseIf(stated.class = "number" /\ stated.v # dead, "invalid_control_declaration")

ReachesReference(doc, c) ==
    ReferenceNet(doc) \in {Net(doc, c, "input"), Net(doc, c, "output")}

SwitchNamed(doc, id) == CHOOSE c \in Actuators(doc) : doc.components[c].id = id

-------------------------------------------------------------------------------
(* No declaration: one switch, one carrier.                                    *)
SingleRefusal(doc, command) ==
    LET switch == CHOOSE c \in Actuators(doc) : TRUE
    IN  RefuseIf(Cardinality(Actuators(doc)) # 1, "multiple_actuators")
        ?? RefuseIf(Carriers(doc) = {}, "no_carrier")
        ?? RefuseIf(Cardinality(Carriers(doc)) > 1, "multiple_carriers")
        ?? NoPort(doc, switch, "control")
        ?? RefuseIf(Net(doc, switch, "control") \notin CarrierNets(doc), "no_carrier")
        ?? FrequencyRefusal(doc, command, Net(doc, switch, "control"))

(* The legs of a declaration, as <<high gate, low gate>>: of the two switches  *)
(* of a leg, the low one is the one whose path reaches the reference net.      *)
LegOf(doc, switches) ==
    LET low == CHOOSE c \in switches : ReachesReference(doc, c)
        high == CHOOSE c \in switches : c # low
    IN  <<Net(doc, high, "control"), Net(doc, low, "control")>>

LegSwitches(doc, pair) == {SwitchNamed(doc, pair[1]), SwitchNamed(doc, pair[2])}

Legs(doc) ==
    IF doc.control.mode = "single_duty_complementary"
    THEN << LegOf(doc, Actuators(doc)) >>
    ELSE [k \in DOMAIN doc.control.pairs |-> LegOf(doc, LegSwitches(doc, doc.control.pairs[k]))]

(* The two switches of a leg: one is low, one is high, each with a gate.       *)
SwitchesRefusal(doc, switches) ==
    FirstRefused(switches, LAMBDA c : NoPortOf(doc, c, <<"input", "output">>))
    ?? RefuseIf(Cardinality({c \in switches : ReachesReference(doc, c)}) # 1,
              "ambiguous_complementary_control")
    ?? FirstRefused(switches, LAMBDA c : NoPort(doc, c, "control"))
    ?? RefuseIf(LegOf(doc, switches)[1] = LegOf(doc, switches)[2],
              "ambiguous_complementary_control")

(* What every complementary declaration is held to once its legs are known.    *)
TimingRefusal(doc, command, nets) ==
    LET period == Period(doc, command, nets[1])
        dead == doc.control.dead.v
    IN  RefuseIf(\E i \in DOMAIN nets : Period(doc, command, nets[i]) # period,
               "invalid_control_declaration")
        ?? RefuseIf(2 * dead >= period, "invalid_control_declaration")
        ?? RefuseIf(doc.control.shift.v >= period, "invalid_control_declaration")
        ?? FirstRefused(DOMAIN nets, LAMBDA i : DeadTimeRefusal(doc, command, nets[i], dead))

ComplementaryRefusal(doc, command) ==
    LET leg == LegOf(doc, Actuators(doc))
    IN  RefuseIf(Cardinality(Actuators(doc)) # 2, "ambiguous_complementary_control")
        ?? SwitchesRefusal(doc, Actuators(doc))
        ?? RefuseIf(CarrierNets(doc) # {leg[1], leg[2]}, "ambiguous_complementary_control")
        ?? FirstRefused({1, 2}, LAMBDA i : FrequencyRefusal(doc, command, leg[i]))
        ?? TimingRefusal(doc, command, leg)

LegRefusal(doc, command, k) ==
    LET pairs == doc.control.pairs
        GatesOf(j) == Maps!Range(LegOf(doc, LegSwitches(doc, pairs[j])))
        leg == LegOf(doc, LegSwitches(doc, pairs[k]))
    IN  SwitchesRefusal(doc, LegSwitches(doc, pairs[k]))
        ?? RefuseIf(\E j \in 1 .. k - 1 : GatesOf(j) \cap GatesOf(k) # {},
                  "ambiguous_complementary_control")
        ?? FirstRefused({1, 2}, LAMBDA i :
                RefuseIf(leg[i] \notin CarrierNets(doc), "no_carrier")
                ?? FrequencyRefusal(doc, command, leg[i]))

PairedRefusal(doc, command) ==
    LET pairs == doc.control.pairs
        Named == {pairs[m[1]][m[2]] : m \in Members(pairs)}
        legs == Legs(doc)
    IN  RefuseIf(Named # {doc.components[c].id : c \in Actuators(doc)},
               "invalid_control_declaration")
        ?? FirstRefused(DOMAIN pairs, LAMBDA k : LegRefusal(doc, command, k))
        ?? TimingRefusal(doc, command,
                [i \in 1 .. 2 * Len(legs) |-> legs[(i + 1) \div 2][2 - (i % 2)]])

(* The gates of interleaved phases, in the declared or the sorted order.       *)
PhaseNets(doc) == {Net(doc, c, "control") : c \in Actuators(doc)}

SortedNets(nets) ==
    LET places == {n \in DOMAIN Names : Names[n] \in nets}
        Place(i) == CHOOSE n \in places : Cardinality({m \in places : m <= n}) = i
    IN  [i \in 1 .. Cardinality(places) |-> Names[Place(i)]]

PhaseOrder(doc) ==
    IF doc.control.orderForm = "ok" THEN doc.control.order ELSE SortedNets(PhaseNets(doc))

InterleavedRefusal(doc, command) ==
    LET order == PhaseOrder(doc)
        Ordered == {order[i] : i \in DOMAIN order}
    IN  FirstRefused(Actuators(doc), LAMBDA c : NoPort(doc, c, "control"))
        ?? RefuseIf(Cardinality(PhaseNets(doc)) # doc.control.phases.v,
                  "invalid_control_declaration")
        ?? RefuseIf(Ordered # PhaseNets(doc), "invalid_control_declaration")
        ?? RefuseIf(~(Ordered \subseteq CarrierNets(doc)), "no_carrier")
        ?? RefuseIf(~(CarrierNets(doc) \subseteq Ordered), "invalid_control_declaration")
        ?? FirstRefused(DOMAIN order, LAMBDA i : FrequencyRefusal(doc, command, order[i]))
        ?? RefuseIf(\E i \in DOMAIN order :
                    Period(doc, command, order[i]) # Period(doc, command, order[1]),
                  "invalid_control_declaration")

Mode(doc) == IF doc.control.form = "absent" THEN "single_duty" ELSE doc.control.mode

GatesRefusal(doc, command) ==
    CASE Mode(doc) = "single_duty" -> SingleRefusal(doc, command)
      [] Mode(doc) = "single_duty_complementary" -> ComplementaryRefusal(doc, command)
      [] Mode(doc) = "single_duty_interleaved" -> InterleavedRefusal(doc, command)
      [] Mode(doc) = "paired_complementary" -> PairedRefusal(doc, command)

-------------------------------------------------------------------------------
(* The gates: of every gate net, the on-interval <<start, stop>> in the cycle  *)
(* and how far into it the net's cycle is delayed.                             *)

Width(period, duty) == (duty * period) \div DutyScale

HighWidth(doc, command, period) ==
    Sets!Max({0, Width(period, command.duty) - doc.control.dead.v})

LegInterval(doc, command, period, side) ==
    IF side = 1 THEN <<0, HighWidth(doc, command, period)>>
    ELSE <<HighWidth(doc, command, period) + doc.control.dead.v,
           period - doc.control.dead.v>>

GateNets(doc) ==
    CASE Mode(doc) = "single_duty" -> PhaseNets(doc)
      [] Mode(doc) = "single_duty_interleaved" -> PhaseNets(doc)
      [] OTHER -> UNION {Maps!Range(leg) : leg \in Maps!Range(Legs(doc))}

CyclePeriod(doc, command) == Period(doc, command, CHOOSE net \in GateNets(doc) : TRUE)

PlaceOf(doc, net) ==
    LET legs == Legs(doc)
    IN  CHOOSE m \in Members(legs) : legs[m[1]][m[2]] = net

Interval(doc, command, period, net) ==
    IF Mode(doc) \in {"single_duty", "single_duty_interleaved"}
    THEN <<0, Width(period, command.duty)>>
    ELSE LegInterval(doc, command, period, PlaceOf(doc, net)[2])

Delay(doc, period, net) ==
    LET order == PhaseOrder(doc)
    IN  CASE Mode(doc) = "single_duty_interleaved" ->
                (((CHOOSE i \in DOMAIN order : order[i] = net) - 1) * period) \div Len(order)
          [] Mode(doc) = "paired_complementary" ->
                (PlaceOf(doc, net)[1] - 1) * doc.control.shift.v
          [] OTHER -> 0

(* Mutant: the rest of a pulse that began before the window is lost.           *)
RenderedGateWithoutTail(start, stop, phase, period) ==
    [ off |-> stop <= start, first |-> (start - phase) % period,
      width |-> stop - start, tail |-> 0 ]

(* One gate as it is rendered: the periodic source, whose first edge is at     *)
(* first, and the rest of a pulse that began before the window.                *)
RenderedGate(start, stop, phase, period) ==
    [ off |-> stop <= start,
      first |-> (start - phase) % period,
      width |-> stop - start,
      tail |-> IF start < phase /\ phase < stop THEN stop - phase ELSE 0 ]

Gate(doc, command, period, net) ==
    LET interval == Interval(doc, command, period, net)
    IN  RenderedGate(interval[1], interval[2],
                     (command.phase - Delay(doc, period, net)) % period, period)

Gates(doc, command) ==
    LET period == CyclePeriod(doc, command)
    IN  [net \in GateNets(doc) |-> Gate(doc, command, period, net)]

HasTail(gate) == ~gate.off /\ gate.tail > 0

(* The gate signal of a window, u ticks after its start.                       *)
IsOn(gate, period, u) ==
    /\ ~gate.off
    /\ \/ u >= gate.first /\ (u - gate.first) % period < gate.width
       \/ u < gate.tail

-------------------------------------------------------------------------------
(* The cards, a component at a time.                                           *)

ReadParameters == [
    voltage_source |-> <<"voltage_v">>,
    pulse_source |-> <<"amplitude_v", "rise_time_s", "fall_time_s">>,
    inductor |-> <<"initial_current_a", "inductance_h">>,
    capacitor |-> <<"initial_voltage_v", "capacitance_f">>,
    resistor_load |-> <<"resistance_ohm">>,
    voltage_controlled_switch |->
        <<"on_resistance_ohm", "off_resistance_ohm", "threshold_v", "hysteresis_v">>,
    freewheeling_diode |-> <<"saturation_current_a", "emission_coefficient">> ]

CardRefusal(doc, command, c) ==
    LET kind == KindOf(doc, c)
    IN  NoPortOf(doc, c, [i \in DOMAIN Devices[kind] |-> Devices[kind][i].id])
        ?? RefuseIf(c \in Carriers(doc) /\ CarrierNet(doc, c) \notin GateNets(doc),
                  "ambiguous_complementary_control")
        ?? BadParameterOf(doc, command, c, ReadParameters[kind])

Refusal(doc, command) ==
    DescriptorRefusal(doc, command)
    ?? RefuseIf(doc.control.form # "absent" /\ ~DeclarationIsRead(doc.control),
              "invalid_control_declaration")
    ?? CarrierRefusal(doc)
    ?? GatesRefusal(doc, command)
    ?? FirstRefused(DOMAIN doc.components, LAMBDA c : CardRefusal(doc, command, c))

Node(doc, net) == IF net = ReferenceNet(doc) THEN "0" ELSE net

(* A name no node has, made longer until it is free.                           *)
SyntheticNode(base, taken) ==
    LET Longer[n \in 0 .. Cardinality(taken)] ==
            IF n = 0 THEN base ELSE Longer[n - 1] \o "_"
    IN  Longer[Sets!Min({n \in DOMAIN Longer : Longer[n] \notin taken})]

Letters == {"V", "L", "C", "R", "S", "D", "B"}

Count(used, letter) == [used EXCEPT ![letter] = @ + 1]

Card(letter, used, role, of, nodes) ==
    [letter |-> letter, number |-> used[letter], role |-> role, of |-> of, nodes |-> nodes]

(* A gate with a tail is three elements: the pulse, the tail, and their sum.   *)
WithTail(before, c, control, return) ==
    LET pulse == SyntheticNode(control \o "_pulse", before.taken)
        tail == SyntheticNode(control \o "_tail", before.taken)
        first == Count(before.used, "V")
        used == Count(Count(first, "V"), "B")
    IN  [ used |-> used,
          taken |-> before.taken \cup {pulse, tail},
          synthetic |-> before.synthetic \o <<pulse, tail>>,
          elements |-> before.elements \o
              << Card("V", first, "pulse", c, <<pulse, return>>),
                 Card("V", used, "tail", c, <<tail, return>>),
                 Card("B", used, "sum", c, <<control, return>>) >> ]

(* A switch measures its control from where the carrier of the gate returns.   *)
ControlReference(doc, c) ==
    LET net == Net(doc, c, "control")
    IN  IF CarriersOn(doc, net) = {} THEN "0"
        ELSE Node(doc, Net(doc, CarrierOn(doc, net), "negative"))

CardNodes(doc, c) ==
    LET ports == Devices[KindOf(doc, c)]
    IN  [p \in DOMAIN ports |-> Node(doc, Net(doc, c, ports[p].id))]
        \o IF c \in Actuators(doc) THEN << ControlReference(doc, c) >> ELSE << >>

WithCard(doc, gates, before, c) ==
    LET letter == SpiceType[KindOf(doc, c)]
        used == Count(before.used, letter)
        gate == gates[CarrierNet(doc, c)]
        role == IF c \notin Carriers(doc) THEN "component"
                ELSE IF gate.off THEN "off" ELSE "pulse"
    IN  IF c \in Carriers(doc) /\ HasTail(gate)
        THEN WithTail(before, c, CardNodes(doc, c)[1], CardNodes(doc, c)[2])
        ELSE [before EXCEPT !.used = used,
                            !.elements = Append(@, Card(letter, used, role, c, CardNodes(doc, c)))]

Netlist(doc, gates) ==
    LET Cards[c \in 0 .. Len(doc.components)] ==
            IF c = 0
            THEN [ used |-> [letter \in Letters |-> 0],
                   taken |-> {doc.nets[n].id : n \in DOMAIN doc.nets},
                   synthetic |-> << >>, elements |-> << >> ]
            ELSE WithCard(doc, gates, Cards[c - 1], c)
    IN  Cards[Len(doc.components)]

OutputNet(doc) ==
    LET loads == OfKind(doc, "resistor_load")
    IN  IF Cardinality(loads) = 1
        THEN Net(doc, CHOOSE c \in loads : TRUE, "positive") ELSE "none"

Phases(doc) ==
    CASE Mode(doc) = "single_duty_interleaved" -> Cardinality(GateNets(doc))
      [] Mode(doc) = "paired_complementary" -> Len(doc.control.pairs)
      [] OTHER -> 1

(* The record of a compiled window.                                            *)
Compiled(doc, command) ==
    LET gates == Gates(doc, command)
        netlist == Netlist(doc, gates)
    IN  [ period |-> CyclePeriod(doc, command),
          gates |-> gates,
          nodes |-> [n \in {doc.nets[m].id : m \in DOMAIN doc.nets} |-> Node(doc, n)],
          synthetic |-> netlist.synthetic,
          elements |-> netlist.elements,
          output |-> OutputNet(doc),
          phases |-> Phases(doc) ]
===============================================================================
