------------------------------- MODULE MCCircuit -------------------------------
(* Small converters: a buck with a diode, a synchronous buck, two interleaved  *)
(* phases and two paired legs; a buck as a netlist, with its gate on the ground *)
(* or floating, and two switches; and the edits that an author's mistakes make.*)
EXTENDS Circuit

N(id, kind) == [id |-> id, kind |-> kind, form |-> "ok"]
P(id, net) == [id |-> id, net |-> net, form |-> "ok"]
C(id, kind, ports, params) ==
    [id |-> id, kind |-> kind, form |-> "ok", ports |-> ports, params |-> params]

Source == C("v", "voltage_source", <<P("positive", "vin"), P("negative", "gnd")>>,
            [voltage_v |-> Num(12)])
Carrier(id, net) ==
    C(id, "pulse_source", <<P("positive", net), P("negative", "gnd")>>,
      [switching_frequency_hz |-> Num(8)])
Switch(id, from, to, gate) ==
    C(id, "voltage_controlled_switch",
      <<P("input", from), P("output", to), P("control", gate)>>, << >>)
Diode(id, net) == C(id, "diode", <<P("anode", "gnd"), P("cathode", net)>>, << >>)
Inductor(id, net) ==
    C(id, "inductor", <<P("input", net), P("output", "vout")>>, [inductance_h |-> Num(1)])
Load == C("r", "resistor_load", <<P("positive", "vout"), P("negative", "gnd")>>,
          [resistance_ohm |-> Num(1)])

NoControl == Undeclared
Declared(mode) == [NoControl EXCEPT !.form = "ok", !.mode = mode]
Complementary(dead) == [Declared("single_duty_complementary") EXCEPT !.dead = Num(dead)]
Interleaved(n) == [Declared("single_duty_interleaved") EXCEPT !.phases = Num(n)]
Paired(pairs, dead, shift) ==
    [Declared("paired_complementary") EXCEPT !.pairsForm = "ok", !.pairs = pairs,
                                             !.dead = Num(dead), !.shift = Num(shift)]

Document(nets, components, control) ==
    [form |-> "ok", top |-> {}, drawing |-> TRUE, nets |-> nets,
     components |-> components, control |-> control, fingerprint |-> "absent"]

Rails == <<N("vin", "electrical"), N("vout", "electrical"), N("gnd", "reference")>>

Buck == Document(Rails \o <<N("sw", "electrical"), N("g", "control")>>,
    <<Source, Carrier("p", "g"), Switch("s", "vin", "sw", "g"), Diode("d", "sw"),
      Inductor("l", "sw"), Load>>, NoControl)

SyncBuck == Document(
    Rails \o <<N("sw", "electrical"), N("g", "control"), N("g_pulse", "control")>>,
    <<Source, Carrier("p", "g"), Carrier("q", "g_pulse"),
      Switch("s", "vin", "sw", "g"), Switch("t", "sw", "gnd", "g_pulse"),
      Inductor("l", "sw"), Load>>, Complementary(1))

TwoPhase == Document(
    Rails \o <<N("sw", "electrical"), N("sw2", "electrical"),
               N("g", "control"), N("g2", "control")>>,
    <<Source, Carrier("p", "g"), Carrier("q", "g2"), Switch("s", "vin", "sw", "g"),
      Diode("d", "sw"), Inductor("l", "sw"), Switch("t", "vin", "sw2", "g2"),
      Diode("e", "sw2"), Inductor("m", "sw2"), Load>>, Interleaved(2))

TwoLegs == Document(
    Rails \o <<N("sw", "electrical"), N("sw2", "electrical"), N("g", "control"),
               N("h", "control"), N("g2", "control"), N("h2", "control")>>,
    <<Source, Carrier("p", "g"), Carrier("q", "h"), Carrier("p2", "g2"), Carrier("q2", "h2"),
      Switch("s", "vin", "sw", "g"), Switch("t", "sw", "gnd", "h"), Inductor("l", "sw"),
      Switch("s2", "vin", "sw2", "g2"), Switch("t2", "sw2", "gnd", "h2"),
      Inductor("m", "sw2"), Load>>,
    Paired(<< <<"s", "t">>, <<"t2", "s2">> >>, 1, 4))

(* A source on its own terminals, in parallel, or across another rail.         *)
Battery(id, from, to) ==
    C(id, "voltage_source", <<P("positive", from), P("negative", to)>>,
      [voltage_v |-> Num(5)])

Batteries == [Buck EXCEPT !.components =
    @ \o <<Battery("b", "sw", "gnd"), Battery("c", "vin", "vout")>>]

MCTemplates == {Buck, SyncBuck, TwoPhase, TwoLegs, Batteries}

(* A buck whose switch node is called "0".                                     *)
ZeroNode == [Buck EXCEPT
    !.nets[4].id = "0",
    !.components[3].ports[2].net = "0",
    !.components[4].ports[2].net = "0",
    !.components[5].ports[1].net = "0"]

MCZeroTemplates == {ZeroNode}
MCNoEdits(d) == {}

(* One mistake, or one change of mind.                                         *)
Rebound(d) ==
    UNION {UNION {{[d EXCEPT !.components[c].ports[p].net = d.nets[n].id] :
            n \in DOMAIN d.nets} : p \in DOMAIN d.components[c].ports} :
            c \in DOMAIN d.components}

Without(s, i) == SubSeq(s, 1, i - 1) \o SubSeq(s, i + 1, Len(s))

Removed(d) == {[d EXCEPT !.components = Without(@, c)] : c \in DOMAIN d.components}

PortsChanged(d) ==
    {[d EXCEPT !.components[c].ports = Tail(@)] : c \in DOMAIN d.components}
    \cup {[d EXCEPT !.components[c].ports = Append(@, @[1])] : c \in DOMAIN d.components}
    \cup {[d EXCEPT !.components[c].ports[1].id = "pin"] : c \in DOMAIN d.components}
    \cup {[d EXCEPT !.components[c].ports[1].net = "nowhere"] : c \in DOMAIN d.components}
    \cup {[d EXCEPT !.components[c].ports[1].form = f] :
            c \in {2}, f \in {"not_object", "port_id", "field"}}

KindsChanged(d) ==
    {[d EXCEPT !.components[c].kind = k] :
        c \in DOMAIN d.components, k \in {"averaged_switch", "widget", "capacitor"}}
    \cup {[d EXCEPT !.components[c].form = f] :
            c \in {1, 2}, f \in {"not_object", "field", "id", "ports", "parameters"}}
    \cup {[d EXCEPT !.components[c].id = "v"] : c \in DOMAIN d.components}

Set(params, name, value) ==
    [n \in DOMAIN params \cup {name} |-> IF n = name THEN value ELSE params[n]]

ParametersChanged(d) ==
    {[d EXCEPT !.components[c].params = << >>] : c \in DOMAIN d.components}
    \cup {[d EXCEPT !.components[c].params = Set(@, n, v)] :
            c \in {2, 3}, v \in {Num(0), Num(1), Num(4), Null, Junk},
            n \in {"dead_time_s", "switching_frequency_hz", "amplitude_v", "threshold_v",
                   "phase_index"}}

NetsChanged(d) ==
    {[d EXCEPT !.nets[n].kind = k] :
        n \in DOMAIN d.nets, k \in {"electrical", "control", "reference", "thermal"}}
    \cup {[d EXCEPT !.nets = Append(@, N(id, k))] :
            id \in {"spare", "g"}, k \in {"control", "reference", "electrical"}}
    \cup {[d EXCEPT !.nets[n].form = f] : n \in {1}, f \in {"not_object", "field", "id"}}
    \cup {[d EXCEPT !.nets = Without(@, n)] : n \in DOMAIN d.nets}

ControlChanged(d) ==
    {[d EXCEPT !.control = c] :
        c \in {NoControl, Complementary(0), Complementary(4), Interleaved(1), Interleaved(2),
               Interleaved(3), Declared("unheard_of"), Paired(<< <<"s", "t">> >>, 0, 0),
               [NoControl EXCEPT !.form = "not_object"],
               [Interleaved(2) EXCEPT !.dead = Num(1)],
               [Interleaved(2) EXCEPT !.orderForm = "ok", !.order = <<"g2", "g">>],
               [Interleaved(2) EXCEPT !.phases = Junk],
               Paired(<< <<"s", "t">>, <<"s2", "t2">> >>, 0, 8),
               Paired(<< <<"s", "s2">>, <<"t", "t2">> >>, 1, 2),
               [Paired(<< >>, 1, 2) EXCEPT !.pairsForm = "malformed"],
               [Complementary(1) EXCEPT !.extra = TRUE]}}

PaperChanged(d) ==
    {[d EXCEPT !.form = f] : f \in {"not_object", "other_schema"}}
    \cup {[d EXCEPT !.top = {t}] : t \in {"field", "topology_id", "version", "metadata"}}
    \cup {[d EXCEPT !.fingerprint = f] : f \in {"true", "false", "malformed"}}
    \cup {[d EXCEPT !.drawing = FALSE]}

MCEdits(d) ==
    Rebound(d) \cup Removed(d) \cup PortsChanged(d) \cup KindsChanged(d)
    \cup ParametersChanged(d) \cup NetsChanged(d) \cup ControlChanged(d) \cup PaperChanged(d)

MCNames == <<"0", "g", "g2", "g_pulse", "gnd", "h", "h2", "spare", "sw", "sw2", "vin", "vout">>

MCOverrides == {<< >>, [r |-> [resistance_ohm |-> Num(2)]], [r |-> [voltage_v |-> Num(2)]]}

MCMaxTicks == [e \in 0 .. 1 |-> IF e = 0 THEN 19 ELSE 3]

-------------------------------------------------------------------------------
(* Netlists.                                                                   *)
E(key, letter, words) == CardOf("element", key, letter, words)
W(nodes) == [n \in DOMAIN nodes |-> Word(nodes[n])]
M(key, type, words) == CardOf("model", key, type, words)
Param_(words) == CardOf("param", "", "", words)

Chopped == Wave("pulse", <<Lit(0), Lit(2), Lit(1), Lit(1), Lit(0), Lit(4), Lit(8)>>)
Gate_(key, from, to) == E(key, "V", W(<<from, to>>) \o <<Chopped>>)

BuckNetlist == <<
    Param_(<<Setting("supply", Lit(12))>>),
    E("v1", "V", W(<<"vin", "0", "dc">>) \o <<Brace("supply")>>),
    Gate_("vp", "g", "0"),
    E("s1", "S", W(<<"vin", "sw", "g", "0", "swmod">>)),
    E("d1", "D", W(<<"0", "sw", "dmod">>)),
    E("l1", "L", W(<<"sw", "vout">>) \o <<Lit(1), Setting("ic", Lit(0))>>),
    E("r1", "R", W(<<"vout", "0">>) \o <<Brace("load")>>),
    M("swmod", "SW", <<Setting("ron", Lit(1)), Setting("vt", Lit(1))>>),
    M("dmod", "D", <<Setting("is", Lit(1))>>),
    Param_(<<Setting("load", Lit(1))>>) >>

FloatingNetlist ==
    [BuckNetlist EXCEPT ![3] = Gate_("vp", "g", "sw"),
                        ![4] = E("s1", "S", W(<<"vin", "sw", "g", "sw", "swmod">>))]

SyncNetlist ==
    [BuckNetlist EXCEPT ![5] = E("s2", "S", W(<<"sw", "0", "h", "0", "swmod">>)),
                        ![9] = Gate_("vq", "h", "0")]

Written(cards) == [title |-> TRUE, cards |-> cards]

Inserted(cards, n, card) == SubSeq(cards, 1, n) \o <<card>> \o SubSeq(cards, n + 1, Len(cards))

(* The nodes are called something else throughout.                             *)
MCSanitised == "in/out" :> "in_out"
RenamedNodes(cards, to) ==
    [c \in DOMAIN cards |-> [cards[c] EXCEPT !.words =
        [w \in DOMAIN @ |-> IF @[w].t = "word" /\ @[w].name \in DOMAIN to
                            THEN Word(to[@[w].name]) ELSE @[w]]]]

Renamings == {[sw |-> "gnd"], [vin |-> "in/out", sw |-> "in_out"],
              [vin |-> "in_out", vout |-> "in/out", sw |-> "in_out_2"], [g |-> "gnd", vin |-> "gnd_2"],
              "0" :> "earth"}

OddWords == {Word("sw"), Word("0"), Lit(0), Lit(5), Brace("load"), Brace("nothing"), Expression,
             Setting("ic", Lit(1)), Setting("tol", Lit(1)), Setting("vt", Expression),
             Word("ac"), Torn, Wave("sin", << >>), Wave("pulse", <<Lit(0), Lit(2)>>)}

Placed(cards, c, w, word) ==
    IF w \in DOMAIN cards[c].words THEN [cards EXCEPT ![c].words[w] = word]
    ELSE [cards EXCEPT ![c].words = Append(@, word)]

WordsChanged(cards) ==
    {Placed(cards, c, w, word) : c \in DOMAIN cards, w \in {1, 2, 3, 4, 6}, word \in OddWords}
    \cup {[cards EXCEPT ![c].words = Tail(@)] : c \in DOMAIN cards}

PulsesChanged(cards) ==
    {[cards EXCEPT ![3].words[3].args[i] = Lit(n)] : i \in {1, 2, 4, 5, 6, 7}, n \in {-1, 0, 3, 9}}

Directives == {Directive(d) : d \in {"ignored", "refused", "subckt", "ends", "control", "endc", "end"}}

CardsChanged(cards) ==
    {Inserted(cards, n, card) : n \in 0 .. Len(cards), card \in Directives}
    \cup {Inserted(Inserted(cards, n, Directive("endc")), m, Directive("control")) :
            <<n, m>> \in {x \in (0 .. Len(cards)) \X (0 .. Len(cards)) : x[2] < x[1]}}
    \cup {Without(cards, c) : c \in DOMAIN cards}
    \cup {Append(cards, cards[c]) : c \in DOMAIN cards}
    \cup {[cards EXCEPT ![c].letter = l] : c \in DOMAIN cards, l \in {"Q", "D", "SW", "V", ""}}

Renamed(cards) == {RenamedNodes(cards, to) : to \in Renamings}

MCNetlists ==
    {[title |-> FALSE, cards |-> BuckNetlist], Written(<< >>), Written(<<BuckNetlist[8]>>)}
    \cup {Written(cards) :
        cards \in {BuckNetlist, FloatingNetlist, SyncNetlist} \cup PulsesChanged(BuckNetlist)
            \cup (UNION {WordsChanged(base) \cup CardsChanged(base) \cup Renamed(base) :
                        base \in {BuckNetlist, FloatingNetlist}})
            \cup Renamed(SyncNetlist)}

(* Every document of the model is one.                                         *)
ASSUME DocumentsAreTyped ==
    /\ \A d \in MCTemplates : Typed(d) /\ \A e \in MCEdits(d) : Typed(e)
    /\ \A n \in MCNetlists : Failed(ImportIssues(n)) \/ Typed(ImportedDocument(n))
===============================================================================
