-------------------------------- MODULE Circuit --------------------------------
(* The life of a circuit document: an author writes it, or imports it from a  *)
(* netlist, and edits it, the validator reports on it, and a stepped executor *)
(* compiles it one window at a time, each window with the duty in force and   *)
(* with the carrier where the last window left it. The compiler may be called *)
(* without the validator.                                                     *)
EXTENDS SpiceImport, CircuitCompile

CONSTANTS Templates,     \* the documents an author may start from
          Netlists,      \* the netlists an author may import instead
          Edits(_),      \* the documents one edit away from a document
          CommandedDuties, \* the commanded duties, of DutyScale
          Spans,         \* the lengths of a window, in ticks
          Overrides,     \* the parameters a window may replace
          MaxEdits,      \* bound: the edits of one document
          MaxTicks       \* bound: the ticks solved of a document, by its edits

(* A window replaces a voltage or a load, never a carrier's frequency.          *)
ASSUME CircuitAssumption ==
    /\ CommandedDuties \subseteq 0 .. DutyScale
    /\ Spans \subseteq Nat \ {0}
    /\ MaxEdits \in Nat
    /\ MaxTicks \in [0 .. MaxEdits -> Nat]
    /\ \A overrides \in Overrides : \A id \in DOMAIN overrides :
            "switching_frequency_hz" \notin DOMAIN overrides[id]

VARIABLES doc,       \* the document, or NoDocument
          imported,  \* the netlist it was imported from, with the issues, or none
          edits,     \* how many edits made it
          report,    \* what the validator answered, or NotValidated
          window,    \* the last window: Unsolved, Refused(code) or its record
          time       \* where the next window starts

circuitVars == <<doc, imported, edits, report, window, time>>

NotValidated == {At("not validated", "", 0, 0)}

Unsolved == [outcome |-> "unsolved", code |-> Accepted]
Refused(code) == [outcome |-> "refused", code |-> code]
SolvedWindow(from, span, command, circuit) ==
    [outcome |-> "solved", code |-> Accepted, from |-> from, span |-> span,
     command |-> command, circuit |-> circuit]

WasSolved == window.outcome = "solved"

(* Nothing yet: what stands for it is not a document.                          *)
NoDocument == [form |-> "not_object", top |-> {}, drawing |-> TRUE, nets |-> << >>,
               components |-> << >>, control |-> Undeclared, fingerprint |-> "absent"]

NotImported == [outcome |-> "none"]
ImportRecord(netlist, issues) ==
    [outcome |-> IF Failed(issues) THEN "refused" ELSE "imported",
     netlist |-> netlist, issues |-> issues]

CircuitInit ==
    /\ doc \in Templates \cup {NoDocument}
    /\ imported = NotImported
    /\ edits = 0
    /\ report = NotValidated
    /\ window = Unsolved
    /\ time = 0

(* The netlist becomes the document, which is validated at once; a refused     *)
(* netlist leaves nothing.  What was imported is not edited further.           *)
Import(netlist) ==
    LET issues == ImportIssues(netlist)
    IN  /\ doc = NoDocument /\ imported = NotImported /\ report = NotValidated
        /\ imported' = ImportRecord(netlist, issues)
        /\ IF Failed(issues) THEN UNCHANGED <<doc, report>>
           ELSE /\ doc' = ImportedDocument(netlist)
                /\ report' = Issues(doc')
        /\ edits' = MaxEdits
        /\ UNCHANGED <<window, time>>

Edit == /\ edits < MaxEdits
        /\ doc # NoDocument
        /\ time = 0 /\ report = NotValidated
        /\ doc' \in Edits(doc)
        /\ edits' = edits + 1
        /\ window' = Unsolved
        /\ UNCHANGED <<imported, report, time>>

Validate == /\ report = NotValidated /\ time = 0 /\ imported = NotImported
            /\ report' = Issues(doc)
            /\ UNCHANGED <<doc, imported, edits, window, time>>

(* The executor resumes every element that has a state.                        *)
Stateful(document) ==
    {document.components[c].id :
        c \in OfKind(document, "inductor") \cup OfKind(document, "capacitor")}

(* Where the carriers, which all have one period, stand at a time.             *)
PhaseAt(document, t) ==
    IF t = 0 THEN 0
    ELSE t % document.components[Sets!Min(Carriers(document))].params.switching_frequency_hz.v

Solve(duty, span, overrides) ==
    LET command == [ duty |-> duty,
                     phase |-> PhaseAt(doc, time),
                     initial |-> IF time = 0 THEN {} ELSE Stateful(doc),
                     overrides |-> overrides ]
        code == Refusal(doc, command)
    IN  /\ Buildable(doc)
        /\ time + span <= MaxTicks[edits]
        /\ IF code # Accepted
           THEN /\ window.outcome # "refused"
                /\ window' = Refused(code)
                /\ UNCHANGED time
           ELSE /\ window' = SolvedWindow(time, span, command, Compiled(doc, command))
                /\ time' = time + span
        /\ UNCHANGED <<doc, imported, edits, report>>

CircuitNext ==
    \/ \E netlist \in Netlists : Import(netlist)
    \/ Edit
    \/ Validate
    \/ \E duty \in CommandedDuties, span \in Spans, overrides \in Overrides :
            Solve(duty, span, overrides)

CircuitSpec == CircuitInit /\ [][CircuitNext]_circuitVars

-------------------------------------------------------------------------------
(* A document as a record: its lists are lists and its numbers are integers;   *)
(* what is not stated counts as zero.                                          *)
Listed(s) == s \in Seq({s[i] : i \in DOMAIN s})

Typed(document) ==
    /\ Listed(document.nets) /\ Listed(document.components)
    /\ \A c \in DOMAIN document.components : Listed(document.components[c].ports)
    /\ Listed(document.control.pairs) /\ Listed(document.control.order)
    /\ \A c \in DOMAIN document.components :
            \A name \in DOMAIN document.components[c].params :
                document.components[c].params[name].v \in Int
    /\ document.control.dead.v \in Int /\ document.control.shift.v \in Int
    /\ document.control.dead.class = "absent" => document.control.dead.v = 0

(* The type invariant: a window starts where the last one ended, and only a    *)
(* document that the constructors accept is ever compiled.                     *)
CircuitTypeOK ==
    /\ edits \in 0 .. MaxEdits
    /\ time \in 0 .. MaxTicks[edits]
    /\ window.outcome \in {"unsolved", "refused", "solved"}
    /\ window.outcome # "unsolved" => Buildable(doc)
    /\ WasSolved => window.from + window.span = time

(* A set of ideal sources short-circuits when it holds a cycle: some of its    *)
(* sources meet every net an even number of times.                             *)
Wired(g) == {c \in OfDevice(g, {"voltage_source"}) :
                DOMAIN g.ports[c] = {"positive", "negative"}}

Meeting(g, sources, net) ==
    {c \in sources : /\ g.ports[c]["positive"] # g.ports[c]["negative"]
                     /\ net \in {g.ports[c]["positive"], g.ports[c]["negative"]}}

HasCycle(g) ==
    \E sources \in (SUBSET Wired(g)) \ {{}} :
        \A net \in DOMAIN g.kinds : Cardinality(Meeting(g, sources, net)) % 2 = 0

(* A graph falls apart when its nets split in two with no component between.   *)
FallsApart(g) ==
    \E part \in (SUBSET BoundNets(g)) \ {{}, BoundNets(g)} :
        \A c \in Components(g) : NetsOf(g, c) \subseteq part \/ NetsOf(g, c) \cap part = {}

(* The validator reports a loop of ideal sources, or separate islands, exactly *)
(* when the graph has them, in whatever order the components are listed.       *)
GraphVerdictsAreTrue ==
    (report # NotValidated /\ doc.form = "ok" /\ GraphIsChecked(Graph(doc))) =>
        LET g == Graph(doc)
        IN  /\ "voltage_source_loop" \in Codes(report) <=> HasCycle(g)
            /\ "disconnected_graph" \in Codes(report) <=> FallsApart(g)

(* The validator and the compiler, which each read the declaration and the     *)
(* devices for themselves, agree on a document the compiler renders.           *)
(* - One the validator accepted was not warned about as one whose gates or     *)
(*   devices the compiler cannot honour.                                       *)
(* - One compiled without the validator has no error that changes which        *)
(*   circuit is solved.  Left to the validator are the names the compiler does *)
(*   not read, the graphs it can render but not solve, and a parameter that    *)
(*   the window itself supplies.                                               *)
LeftToTheValidator ==
    {"schema_violation", "unknown_parameter", "unknown_port", "isolated_net",
     "disconnected_graph", "voltage_source_loop", "control_net_undriven",
     "invalid_parameter_value", "fingerprint_mismatch"}
    \cup (IF window.command.overrides = << >> THEN {} ELSE {"missing_parameter"})

ValidatorAndCompilerAgree ==
    (WasSolved /\ report # NotValidated) =>
        /\ Codes(report) \ Warnings \subseteq LeftToTheValidator
        /\ ~HasError(report) => "multiple_control_nets" \notin Codes(report)
        /\ ~HasError(report) => "not_compilable" \notin Codes(report)
        /\ ~HasError(report) => "actuator_missing" \notin Codes(report)

(* What the declaration says of a gate at an instant of the run.               *)
DeclaredOn(net, duty, t) ==
    LET period == window.circuit.period
        on == (duty * period) \div DutyScale
        dead == doc.control.dead.v
        cycle == (t - Delay(doc, period, net)) % period
    IN  IF Mode(doc) \in {"single_duty", "single_duty_interleaved"} THEN cycle < on
        ELSE IF PlaceOf(doc, net)[2] = 1 THEN cycle < on - dead
        ELSE cycle >= Sets!Max({on, dead}) /\ cycle < period - dead

(* However a run is cut into windows, and whatever the duty of each, every     *)
(* rendered gate is on when the declaration says so: no pulse is lost, started *)
(* again or stretched where one window ends and the next begins.               *)
GateFollowsTheCycle ==
    WasSolved =>
        \A net \in DOMAIN window.circuit.gates, u \in 0 .. window.span - 1 :
            IsOn(window.circuit.gates[net], window.circuit.period, u)
                <=> DeclaredOn(net, window.command.duty, window.from + u)

(* The text of a compiled window, as cards: the directives, the elements, the  *)
(* models, and a control block that runs it.                                   *)
CardOf(card, key, letter, words) == [card |-> card, key |-> key, letter |-> letter, words |-> words]
Directive(card) == CardOf(card, "", "", << >>)

NameOf(element) == element.letter \o ToString(element.number)

ValueWords(element) ==
    LET c == element.of
        Read(name) == Lit(Value(doc, window.command, c, name))
        kind == KindOf(doc, c)
        gate == window.circuit.gates[CarrierNet(doc, c)]
    IN  IF element.role = "tail" THEN <<Wave("pwl", << >>)>>
        ELSE IF element.role = "sum" THEN <<Expression>>
        ELSE IF element.role = "off" THEN <<Word("dc"), Lit(0)>>
        ELSE IF element.role = "pulse" THEN
            <<Wave("pulse", <<Lit(0), Read("amplitude_v"), Lit(gate.first), Read("rise_time_s"),
                              Read("fall_time_s"), Lit(gate.width), Lit(window.circuit.period)>>)>>
        ELSE IF kind = "voltage_source" THEN <<Word("dc"), Read("voltage_v")>>
        ELSE IF kind \in DOMAIN InitialState THEN
            <<Read(Quantity[kind]), Setting("ic", Read(InitialState[kind]))>>
        ELSE IF kind = "resistor_load" THEN <<Read("resistance_ohm")>>
        ELSE <<Word(NameOf(element))>>

ElementCard(element) ==
    CardOf("element", NameOf(element), element.letter,
           [n \in DOMAIN element.nodes |-> Word(element.nodes[n])] \o ValueWords(element))

ModelCard(element) ==
    LET kind == KindOf(doc, element.of)
        names == Seqs!SetToSeq(DOMAIN ModelParameters[kind])
    IN  CardOf("model", NameOf(element), IF element.letter = "D" THEN "D" ELSE "SW",
               [n \in DOMAIN names |->
                    Setting(names[n], Lit(Value(doc, window.command, element.of,
                                                ModelParameters[kind][names[n]])))])

Text(elements) ==
    LET modelled == SelectSeq(elements, LAMBDA e : e.letter \in {"S", "D"})
        Cards(Card_(_), s) == [e \in DOMAIN s |-> Card_(s[e])]
    IN  [ title |-> TRUE,
          cards |-> <<Directive("ignored")>>
                    \o Cards(ElementCard, elements) \o Cards(ModelCard, modelled)
                    \o <<Directive("control"), CardOf("element", "set", "S", <<Word("filetype")>>),
                         Directive("endc"), Directive("end")>> ]

(* Two drawings are of one circuit when they have the same letters in one      *)
(* order, with as many pins, and two pins share a node in one when they do in  *)
(* the other.  Values and initial conditions are not compared, nor are they in *)
(* _signature of tests/test_spice_import.py.                                   *)
Pins(drawing) == Seqs!FlattenSeq([e \in DOMAIN drawing |-> drawing[e].nodes])

SameCircuit(a, b) ==
    /\ [e \in DOMAIN a |-> <<a[e].letter, Len(a[e].nodes)>>]
            = [e \in DOMAIN b |-> <<b[e].letter, Len(b[e].nodes)>>]
    /\ LET p == Pins(a) q == Pins(b)
       IN  \A i, j \in DOMAIN p : (p[i] = p[j]) = (q[i] = q[j]) /\ (p[i] = "0") = (q[i] = "0")

Drawn(document, Nodes_(_)) ==
    [c \in DOMAIN document.components |->
        [letter |-> SpiceType[KindOf(document, c)], nodes |-> Nodes_(c)]]

(* What a simulator reads in a netlist: its elements, down to .end, without    *)
(* the commands of a control block.                                            *)
InControl(cards, i) ==
    \E j \in 1 .. i : cards[j].card = "control" /\ \A k \in j .. i : cards[k].card # "endc"

Meant(netlist, PinsOf(_)) ==
    LET cards == netlist.cards
        Ended(i) == \E j \in 1 .. i : cards[j].card = "end" /\ ~InControl(cards, j)
        lines == SelectSeq([i \in DOMAIN cards |-> i],
                    LAMBDA i : cards[i].card = "element" /\ ~InControl(cards, i) /\ ~Ended(i))
    IN  [k \in DOMAIN lines |-> [letter |-> cards[lines[k]].letter,
                                 nodes |-> PinsOf(cards[lines[k]])]]

(* An imported document has the elements of the netlist, joined where the      *)
(* netlist joins them, however its nodes are called; what is compiled of it    *)
(* measures the gate of a switch where the netlist measures it.  And a netlist *)
(* is accepted in whatever order its cards are written.                        *)
PortsOnly(card) == SubSeq(NodesOf(card), 1, Len(Devices[ElementLetters[card.letter]]))

ImportIsTheNetlist ==
    imported.outcome = "imported" =>
        /\ SameCircuit(Meant(imported.netlist, PortsOnly),
                       Drawn(doc, LAMBDA c : [p \in DOMAIN doc.components[c].ports |->
                                                Node(doc, doc.components[c].ports[p].net)]))
        /\ WasSolved => SameCircuit(Meant(imported.netlist, NodesOf), window.circuit.elements)
        /\ ~HasError(report) => Buildable(doc)

OrderDoesNotMatter ==
    (/\ imported # NotImported
     /\ \A i \in DOMAIN imported.netlist.cards :
            imported.netlist.cards[i].card \in {"element", "model", "param", "ignored"}) =>
        \A reversed \in {[imported.netlist EXCEPT !.cards = Seqs!Reverse(@)]} :
            Codes(ImportIssues(reversed)) = Codes(imported.issues)

(* A rendered window can be imported, and the import compiles to the same      *)
(* cards.  It is refused only with a pulse that began before the window, with  *)
(* a floating gate that is off, or when the document has an error.             *)
RoundTrip ==
    WasSolved =>
        LET elements == window.circuit.elements
            FloatingOff(e) == e.role = "off" /\ e.nodes[2] # "0"
        IN  \A text \in {Text(elements)} :
                IF Failed(ImportIssues(text))
                THEN \/ report = NotValidated \/ HasError(report)
                     \/ \E e \in Seqs!ToSet(elements) : e.role \in {"tail", "sum"} \/ FloatingOff(e)
                ELSE \A again \in {ImportedDocument(text)} :
                        SameCircuit(elements, Drawn(again, LAMBDA c : CardNodes(again, c)))

(* The circuit that comes out of the importer is the circuit that went in, as  *)
(* far as SameCircuit looks: elements, their order, and what joins them.       *)
ImportKeepsTheCircuit == ImportIsTheNetlist /\ OrderDoesNotMatter /\ RoundTrip
===============================================================================
