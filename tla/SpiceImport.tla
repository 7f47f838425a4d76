------------------------------ MODULE SpiceImport ------------------------------
(* The importer: the cards of a netlist become a topology document, or a list  *)
(* of issues.  A netlist is [title, cards]: whether its first line is a title, *)
(* and the cards below it.  A card is a record                                 *)
(*   card    "element", "model", "param", "ignored" or "refused" (directives), *)
(*           "subckt", "ends", "control", "endc" or "end"                      *)
(*   key     the name, in small letters: names are case-insensitive            *)
(*   letter  the letter of an element; the type of a model, "" when torn       *)
(*   words   what follows the name                                             *)
(* and a word is [t, name, v, args]: a node or a model name ("word"), a number,*)
(* a {name}, any other {...}, a name=value, a waveform, or something else.     *)
EXTENDS TopologyValidation, TLC
Seqs == INSTANCE SequencesExt

CONSTANT Sanitised      \* of a name with unsafe characters, its safe form

ASSUME SanitisedAssumption ==
    \A name \in DOMAIN Sanitised : Sanitised[name] \notin DOMAIN Sanitised

Token(t, name, v, args) == [t |-> t, name |-> name, v |-> v, args |-> args]
Word(name) == Token("word", name, 0, << >>)
Lit(n) == Token("number", "", n, << >>)
Brace(name) == Token("brace", name, 0, << >>)
Expression == Token("expression", "", 0, << >>)
Setting(key, word) == Token("setting", key, 0, <<word>>)
Wave(name, args) == Token("wave", name, 0, args)
Torn == Token("torn wave", "", 0, << >>)

Line(code, line) == At(code, "line", line, 0)
Lines(codes, line) == {Line(code, line) : code \in codes}

ImportWarnings == {"unused_model", "pulse_width_not_imported",
                   "complementary_control_undeclared"}

Failed(issues) == Codes(issues) \ ImportWarnings # {}

-------------------------------------------------------------------------------
(* Which cards are read: none in a control block or a subcircuit, and none     *)
(* below .end.                                                                 *)
Passed(at, card) ==
    IF at.span = "ended" THEN at
    ELSE IF at.span = "control" THEN IF card = "endc" THEN [at EXCEPT !.span = "circuit"] ELSE at
    ELSE IF at.depth > 0 THEN [at EXCEPT !.depth = @ + (IF card = "subckt" THEN 1 ELSE 0)
                                                     - (IF card = "ends" THEN 1 ELSE 0)]
    ELSE CASE card = "subckt" -> [at EXCEPT !.depth = 1]
           [] card = "control" -> [at EXCEPT !.span = "control"]
           [] card = "end" -> [at EXCEPT !.span = "ended"]
           [] OTHER -> at

Top == [span |-> "circuit", depth |-> 0]

After(cards) ==
    LET at[i \in 0 .. Len(cards)] ==
            IF i = 0 THEN Top ELSE Passed(at[i - 1], cards[i].card)
    IN  at

ReadCards(cards) ==
    LET at == After(cards) IN {i \in DOMAIN cards : at[i - 1] = Top}

OfCard(cards, kind) ==
    LET read == ReadCards(cards)
    IN  SelectSeq([i \in DOMAIN cards |-> i], LAMBDA i : i \in read /\ cards[i].card = kind)

-------------------------------------------------------------------------------
(* .param: collected before any other card is read.                            *)

(* The numeric declarations of the whole file, as <<line, word>> in order.     *)
Declarations(cards) ==
    Seqs!FlattenSeq([k \in DOMAIN OfCard(cards, "param") |->
        LET line == OfCard(cards, "param")[k]
        IN  [w \in DOMAIN cards[line].words |-> <<line, cards[line].words[w]>>]])

IsNumeric(word) == word.t = "setting" /\ word.args[1].t = "number"

Given(cards) ==
    LET all == Declarations(cards)
        numeric == {k \in DOMAIN all : IsNumeric(all[k][2])}
    IN  [name \in {all[k][2].name : k \in numeric} |->
            LET first == CHOOSE k \in numeric : /\ all[k][2].name = name
                                                /\ \A j \in numeric :
                                                    all[j][2].name = name => k <= j
            IN  all[first][2].args[1].v]

DeclarationCodes(all, k) ==
    LET word == all[k][2]
    IN  IF word.t # "setting" THEN {"malformed_card"}
        ELSE IF word.args[1].t # "number" THEN
            IF word.args[1].t \in {"brace", "expression"} THEN {"unsupported_expression"}
                                                          ELSE {"invalid_value"}
        ELSE IF \E j \in 1 .. k - 1 : IsNumeric(all[j][2]) /\ all[j][2].name = word.name
        THEN {"malformed_card"}
        ELSE {}

DeclarationIssues(cards) ==
    LET all == Declarations(cards)
    IN  UNION {Lines(DeclarationCodes(all, k), all[k][1]) : k \in DOMAIN all}

(* A value is a number, or {name} of a numeric .param.                         *)
ValueCodes(word, given) ==
    CASE word.t = "number" -> {}
      [] word.t = "brace" -> IF word.name \in DOMAIN given THEN {} ELSE {"unsupported_expression"}
      [] word.t = "expression" -> {"unsupported_expression"}
      [] OTHER -> {"invalid_value"}

Resolved(word, given) == IF word.t = "brace" THEN given[word.name] ELSE word.v

-------------------------------------------------------------------------------
(* Element cards.                                                              *)

ElementLetters == [V |-> "voltage_source", L |-> "inductor", C |-> "capacitor",
                   R |-> "resistor_load", S |-> "voltage_controlled_switch",
                   D |-> "freewheeling_diode"]

Quantity == [inductor |-> "inductance_h", capacitor |-> "capacitance_f",
             resistor_load |-> "resistance_ohm"]

InitialState == [inductor |-> "initial_current_a", capacitor |-> "initial_voltage_v"]

(* The nodes of a card: its ports, and the reference a switch measures from.   *)
NodeCount(letter) ==
    Len(Devices[ElementLetters[letter]]) + (IF letter = "S" THEN 1 ELSE 0)

NodesOf(card) == [n \in 1 .. NodeCount(card.letter) |-> card.words[n].name]
Rest(card) == SubSeq(card.words, NodeCount(card.letter) + 1, Len(card.words))

PulseArguments == <<"initial", "pulsed", "delay", "rise", "fall", "width", "period">>

Pulse(wave, given) ==
    [name \in Seqs!ToSet(PulseArguments) |->
        Resolved(wave.args[CHOOSE i \in 1 .. 7 : PulseArguments[i] = name], given)]

PulseCodes(wave, given) ==
    LET unresolved == UNION {ValueCodes(wave.args[i], given) : i \in DOMAIN wave.args}
        pulse == Pulse(wave, given)
    IN  IF wave.name # "pulse" THEN {"unsupported_source_function"}
        ELSE IF Len(wave.args) # 7 THEN {"malformed_card"}
        ELSE IF unresolved # {} THEN unresolved
        ELSE IF pulse.initial # 0 THEN {"unsupported_source_function"}
        ELSE IF \/ pulse.pulsed <= 0 \/ pulse.period <= 0
                \/ pulse.width \notin 0 .. pulse.period THEN {"invalid_value"}
        ELSE {}

(* The delay is not looked at, and a zero edge is left to its default.         *)
PulseParameters(wave, given) ==
    LET pulse == Pulse(wave, given)
    IN  [switching_frequency_hz |-> Num(pulse.period), amplitude_v |-> Num(pulse.pulsed)]
        @@ (IF pulse.rise > 0 THEN [rise_time_s |-> Num(pulse.rise)] ELSE << >>)
        @@ (IF pulse.fall > 0 THEN [fall_time_s |-> Num(pulse.fall)] ELSE << >>)

DcValues(rest) == IF rest[1] = Word("dc") THEN Tail(rest) ELSE rest

SourceCodes(rest, given) ==
    IF rest[1].t = "torn wave" THEN {"malformed_card"}
    ELSE IF rest[1].t = "wave" THEN PulseCodes(rest[1], given)
    ELSE IF rest[1] = Word("ac") THEN {"unsupported_source_function"}
    ELSE IF Len(DcValues(rest)) # 1 THEN {"malformed_card"}
    ELSE ValueCodes(DcValues(rest)[1], given)

IsInitial(word, kind) ==
    word.t = "setting" /\ word.name = "ic" /\ kind \in DOMAIN InitialState

PassiveCodes(kind, rest, given) ==
    IF ValueCodes(rest[1], given) # {} THEN ValueCodes(rest[1], given)
    ELSE UNION {IF IsInitial(rest[w], kind) THEN ValueCodes(rest[w].args[1], given)
                ELSE {"unsupported_parameter"} : w \in 2 .. Len(rest)}

(* Of several IC= the last one counts.                                         *)
PassiveParameters(kind, rest, given) ==
    (Quantity[kind] :> Num(Resolved(rest[1], given)))
    @@ IF Len(rest) = 1 THEN << >>
       ELSE InitialState[kind] :> Num(Resolved(Seqs!Last(rest).args[1], given))

ElementCodes(card, given) ==
    IF card.letter \notin DOMAIN ElementLetters THEN {"unsupported_element"}
    ELSE IF Len(card.words) <= NodeCount(card.letter) THEN {"malformed_card"}
    ELSE CASE card.letter = "V" -> SourceCodes(Rest(card), given)
           [] card.letter \in {"S", "D"} ->
                IF Len(Rest(card)) # 1 THEN {"malformed_card"} ELSE {}
           [] OTHER -> PassiveCodes(ElementLetters[card.letter], Rest(card), given)

IsPulse(card) == card.letter = "V" /\ Rest(card)[1].t = "wave"

(* What a card without issues says: its kind, its nodes, its own parameters,   *)
(* and its model.                                                              *)
Element(cards, line, given) ==
    LET card == cards[line]
        rest == Rest(card)
        kind == IF IsPulse(card) THEN "pulse_source" ELSE ElementLetters[card.letter]
    IN  [ line |-> line, key |-> card.key, kind |-> kind, nodes |-> NodesOf(card),
          model |-> IF card.letter \in {"S", "D"} THEN rest[1].name ELSE "",
          params |-> CASE kind = "pulse_source" -> PulseParameters(rest[1], given)
                       [] kind = "voltage_source" ->
                            [voltage_v |-> Num(Resolved(DcValues(rest)[1], given))]
                       [] kind \in DOMAIN Quantity -> PassiveParameters(kind, rest, given)
                       [] OTHER -> << >> ]

-------------------------------------------------------------------------------
(* Model cards.                                                                *)

ModelTypes == [D |-> "freewheeling_diode", SW |-> "voltage_controlled_switch"]

ModelParameters ==
    [freewheeling_diode |-> [is |-> "saturation_current_a", n |-> "emission_coefficient"],
     voltage_controlled_switch |-> [ron |-> "on_resistance_ohm", roff |-> "off_resistance_ohm",
                                    vt |-> "threshold_v", vh |-> "hysteresis_v"]]

ModelIsParsed(card) ==
    card.letter \in DOMAIN ModelTypes /\ \A w \in DOMAIN card.words : card.words[w].t = "setting"

(* Of two settings of one name the last one counts.                            *)
Settings(card) ==
    {w \in DOMAIN card.words :
        \A x \in w + 1 .. Len(card.words) : card.words[x].name # card.words[w].name}

ModelCodes(card, given) ==
    IF card.letter = "" THEN {"malformed_card"}
    ELSE IF card.letter \notin DOMAIN ModelTypes THEN {"unsupported_model_type"}
    ELSE IF ~ModelIsParsed(card) THEN {"unsupported_parameter"}
    ELSE UNION {IF card.words[w].name \in DOMAIN ModelParameters[ModelTypes[card.letter]]
                THEN ValueCodes(card.words[w].args[1], given)
                ELSE {"unsupported_parameter"} : w \in Settings(card)}

ModelValues(card, given) ==
    LET names == ModelParameters[ModelTypes[card.letter]]
        Of(target) == CHOOSE w \in Settings(card) : names[card.words[w].name] = target
    IN  [target \in {names[card.words[w].name] : w \in Settings(card)} |->
            Num(Resolved(card.words[Of(target)].args[1], given))]

DuplicateModel(cards, line) ==
    \E k \in ReadCards(cards) : /\ k < line /\ cards[k].card = "model"
                                /\ ModelIsParsed(cards[k]) /\ cards[k].key = cards[line].key

-------------------------------------------------------------------------------
(* The first pass: every card for itself.                                      *)

CardCodes(cards, line, given) ==
    LET card == cards[line]
    IN  CASE card.card = "element" -> ElementCodes(card, given)
          [] card.card = "model" ->
                ModelCodes(card, given)
                \cup (IF ModelIsParsed(card) /\ DuplicateModel(cards, line)
                      THEN {"duplicate_model"} ELSE {})
          [] card.card \in {"refused", "subckt", "ends"} -> {"unsupported_directive"}
          [] card.card = "endc" -> {"malformed_card"}
          [] OTHER -> {}

CardIssues(cards) ==
    LET given == Given(cards)
    IN  DeclarationIssues(cards)
        \cup (UNION {Lines(CardCodes(cards, line, given), line) : line \in ReadCards(cards)})
        \cup IF After(cards)[Len(cards)].span = "control"
             THEN {Line("malformed_card", Len(cards))} ELSE {}

ElementsOf(cards) ==
    LET given == Given(cards)
        lines == OfCard(cards, "element")
    IN  [k \in DOMAIN lines |-> Element(cards, lines[k], given)]

(* The models by name; they are all different once the first pass succeeded.   *)
ModelsOf(cards) ==
    LET lines == Seqs!ToSet(OfCard(cards, "model"))
    IN  [key \in {cards[k].key : k \in lines} |->
            CHOOSE k \in lines : cards[k].key = key]

-------------------------------------------------------------------------------
(* The second pass: the elements together.                                     *)

ModelIssues(cards, elements) ==
    LET models == ModelsOf(cards)
        Kind(key) == ModelTypes[cards[models[key]].letter]
        named == {k \in DOMAIN elements : elements[k].model # ""}
        used == {k \in named : /\ elements[k].model \in DOMAIN models
                               /\ Kind(elements[k].model) = elements[k].kind}
    IN  {Line(IF elements[k].model \in DOMAIN models THEN "unsupported_model_type"
            ELSE "unknown_model", elements[k].line) : k \in named \ used}
        \cup {Line("unused_model", models[key]) :
                key \in DOMAIN models \ {elements[k].model : k \in used}}

Nodes(elements) == UNION {Seqs!ToSet(elements[k].nodes) : k \in DOMAIN elements}

ElementsOfKind(elements, kind) == {k \in DOMAIN elements : elements[k].kind = kind}

(* The nodes that carriers which drive a node return to.                       *)
Returns(elements, node) ==
    {elements[k].nodes[2] :
        k \in {j \in ElementsOfKind(elements, "pulse_source") : elements[j].nodes[1] = node}}

(* A switch must measure its control from where the carrier of the gate        *)
(* returns to, because the document does not say from where it measures.       *)
ReferenceIsKept(elements, k) ==
    LET gate == elements[k].nodes[3]
        from == elements[k].nodes[4]
        returns == Returns(elements, gate)
    IN  gate # "0" /\ IF returns = {} THEN from = "0" ELSE from \in returns

ReferenceIssues(elements) ==
    {Line("unsupported_control_reference", elements[k].line) :
        k \in {j \in ElementsOfKind(elements, "pulse_source") : elements[j].nodes[1] = "0"}
              \cup {j \in ElementsOfKind(elements, "voltage_controlled_switch") :
                        ~ReferenceIsKept(elements, j)}}

ConnectionIssues(cards, elements) ==
    ModelIssues(cards, elements)
    \cup IF elements = << >> THEN {Line("empty_netlist", 1)}
         ELSE IF "0" \notin Nodes(elements) THEN {Line("missing_ground", 1)}
         ELSE ReferenceIssues(elements)

Duplicates(elements) ==
    {k \in DOMAIN elements : \E j \in 1 .. k - 1 : elements[j].key = elements[k].key}

DuplicateIssues(elements) ==
    {Line("duplicate_element", elements[k].line) : k \in Duplicates(elements)}

DrivenNodes(elements) ==
    {elements[k].nodes[1] : k \in ElementsOfKind(elements, "pulse_source")}

LossIssues(elements) ==
    {Line("pulse_width_not_imported", elements[k].line) : k \in ElementsOfKind(elements, "pulse_source")}
    \cup IF /\ Cardinality(DrivenNodes(elements)) >= 2
            /\ Cardinality(ElementsOfKind(elements, "voltage_controlled_switch")) >= 2
         THEN {Line("complementary_control_undeclared", 1)} ELSE {}

-------------------------------------------------------------------------------
(* The document.                                                               *)

Safe(name) == IF name \in DOMAIN Sanitised THEN Sanitised[name] ELSE name

(* Mutant: the identifier is taken as it is.                                   *)
SameIdentifier(base, taken) == base

(* base, base_2, base_3, ...: the first that is free.                          *)
UniqueIdentifier(base, taken) ==
    LET Candidate(n) == IF n = 1 THEN base ELSE base \o "_" \o ToString(n)
    IN  Candidate(CHOOSE n \in 1 .. Cardinality(taken) + 1 :
            /\ Candidate(n) \notin taken
            /\ \A m \in 1 .. n - 1 : Candidate(m) \in taken)

(* An identifier for each name, in order; what is taken beforehand stays.      *)
Named(names, taken) ==
    Seqs!FoldLeft(LAMBDA ids, name :
                IF name \in DOMAIN ids THEN ids
                ELSE ids @@ (name :> UniqueIdentifier(Safe(name), {ids[n] : n \in DOMAIN ids})),
             taken, names)

NodesInOrder(elements) ==
    Seqs!FoldLeft(LAMBDA seen, node :
                    IF Seqs!Contains(seen, node) THEN seen ELSE Append(seen, node),
                  << >>, Seqs!FlattenSeq([k \in DOMAIN elements |-> elements[k].nodes]))

NetIds(elements) == Named(NodesInOrder(elements), "0" :> "gnd")

ControlNodes(elements) ==
    (DrivenNodes(elements)
     \cup {elements[k].nodes[3] : k \in ElementsOfKind(elements, "voltage_controlled_switch")}) \ {"0"}

NetKind(elements, node) ==
    CASE node = "0" -> "reference"
      [] node \in ControlNodes(elements) -> "control"
      [] OTHER -> "electrical"

Undeclared == [form |-> "absent", mode |-> "", dead |-> Absent, shift |-> Absent,
               phases |-> Absent, pairsForm |-> "absent", pairs |-> << >>,
               orderForm |-> "absent", order |-> << >>, extra |-> FALSE]

ComponentOf(cards, element, ids, nets) ==
    [ id |-> ids[element.key], kind |-> element.kind, form |-> "ok",
      ports |-> [p \in DOMAIN Devices[element.kind] |->
                    [id |-> Devices[element.kind][p].id, net |-> nets[element.nodes[p]],
                     form |-> "ok"]],
      params |-> element.params
                 @@ IF element.model = "" THEN << >>
                    ELSE ModelValues(cards[ModelsOf(cards)[element.model]], Given(cards)) ]

DocumentOf(cards, elements) ==
    LET nodes == NodesInOrder(elements)
        nets == NetIds(elements)
        ids == Named([k \in DOMAIN elements |-> elements[k].key], << >>)
    IN  [ form |-> "ok", top |-> {}, drawing |-> TRUE,
          nets |-> [n \in DOMAIN nodes |->
                        [id |-> nets[nodes[n]], kind |-> NetKind(elements, nodes[n]),
                         form |-> "ok"]],
          components |-> [k \in DOMAIN elements |->
                            ComponentOf(cards, elements[k], ids, nets)],
          control |-> Undeclared, fingerprint |-> "absent" ]

(* The whole import: the issues, a pass after the other until one fails, and    *)
(* the document when there is no error.                                        *)
LastPass(issues, elements) ==
    issues \cup IF Duplicates(elements) # {} THEN DuplicateIssues(elements)
                ELSE LossIssues(elements)

SecondPass(issues, elements) ==
    IF Failed(issues) THEN issues ELSE LastPass(issues, elements)

Joined(cards, elements) == SecondPass(ConnectionIssues(cards, elements), elements)

FirstPass(issues, cards) == IF Failed(issues) THEN issues ELSE Joined(cards, ElementsOf(cards))

ImportIssues(netlist) ==
    IF ~netlist.title THEN {Line("missing_title", 0)}
    ELSE FirstPass(CardIssues(netlist.cards), netlist.cards)

ImportedDocument(netlist) == DocumentOf(netlist.cards, ElementsOf(netlist.cards))
===============================================================================
