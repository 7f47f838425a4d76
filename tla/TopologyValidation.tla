-------------------------- MODULE TopologyValidation --------------------------
(* What the validator reports of a topology document.  A finding is a code and *)
(* the part of the document it points at; severity follows from the code.      *)
EXTENDS TopologyDescriptor
Fns == INSTANCE Functions

At(code, group, i, j) == [code |-> code, group |-> group, item |-> i, part |-> j]
When(condition, issue) == IF condition THEN {issue} ELSE {}

Warnings == {"actuator_missing", "multiple_control_nets", "no_output_load",
             "not_compilable", "switch_threshold_above_carrier_amplitude"}

Codes(issues) == {issue.code : issue \in issues}
HasError(issues) == Codes(issues) \ Warnings # {}

TopLevelIssues(doc) ==
    {At("schema_violation", "/" \o part, 0, 0) : part \in doc.top}

-------------------------------------------------------------------------------
(* The nets: the first compilable net of an id is the one that counts.         *)

NetIsRead(doc, n) == doc.nets[n].form \in {"ok", "field"}

Compilable(doc, n) == NetIsRead(doc, n) /\ doc.nets[n].kind \in CompilableNetKinds

Shadowed(doc, n) ==
    \E m \in 1 .. n - 1 : Compilable(doc, m) /\ doc.nets[m].id = doc.nets[n].id

ReadNets(doc) == {n \in DOMAIN doc.nets : Compilable(doc, n) /\ ~Shadowed(doc, n)}

NetIssues(doc) ==
    {At("schema_violation", "nets", n, 0) :
        n \in {m \in DOMAIN doc.nets : doc.nets[m].form # "ok"}}
    \cup {At("duplicate_net_id", "nets", n, 0) :
        n \in {m \in DOMAIN doc.nets : NetIsRead(doc, m) /\ Shadowed(doc, m)}}
    \cup {At("unsupported_net_kind", "nets", n, 1) :
        n \in {m \in DOMAIN doc.nets :
                NetIsRead(doc, m) /\ ~Shadowed(doc, m) /\ ~Compilable(doc, m)}}

-------------------------------------------------------------------------------
(* The components.                                                             *)

ComponentIsRead(doc, c) == doc.components[c].form \notin {"not_object", "id"}

Repeated(doc, c) ==
    \E b \in 1 .. c - 1 : /\ ComponentIsRead(doc, b)
                          /\ doc.components[b].id = doc.components[c].id

Parsed(doc) == {c \in DOMAIN doc.components :
                    ComponentIsRead(doc, c) /\ ~Repeated(doc, c)}

DeviceOf(doc, c) ==
    LET kind == doc.components[c].kind
    IN  IF KnownKind(kind) THEN Canonical(kind) ELSE "unknown"

PortIsRead(port) == port.form \in {"ok", "field"}

(* Port p of component c is examined up to the first thing wrong with it;      *)
(* kinds gives the kind of every net that was read.                            *)
PortIssue(doc, kinds, c, p) ==
    LET ports == doc.components[c].ports
        device == DeviceOf(doc, c)
    IN  IF ~PortIsRead(ports[p]) THEN "schema_violation"
        ELSE IF \E q \in 1 .. p - 1 : PortIsRead(ports[q]) /\ ports[q].id = ports[p].id
        THEN "duplicate_port_id"
        ELSE IF device # "unknown" /\ ports[p].id \notin PortIds(device) THEN "unknown_port"
        ELSE IF ports[p].net \notin DOMAIN kinds THEN "unknown_net"
        ELSE IF /\ device # "unknown"
                /\ kinds[ports[p].net] \notin PortSpec(device, ports[p].id).nets
        THEN "port_net_kind_mismatch"
        ELSE "bound"

PortIndices(doc, c) ==
    IF doc.components[c].form = "ports" THEN {} ELSE DOMAIN doc.components[c].ports

PortVerdicts(doc, kinds, c) ==
    [p \in PortIndices(doc, c) |-> PortIssue(doc, kinds, c, p)]

(* Where a net that was read stands, by its id, and its kind.                  *)
NetIndex(doc) ==
    [id \in {doc.nets[n].id : n \in ReadNets(doc)} |->
        CHOOSE n \in ReadNets(doc) : doc.nets[n].id = id]

KindsOfNets(doc) == LET index == NetIndex(doc)
                    IN  [id \in DOMAIN index |-> doc.nets[index[id]].kind]

(* The net behind each port of a component that could be bound, by its id.     *)
PortNets(doc, verdicts, c) ==
    LET ports == doc.components[c].ports
        Bound == {p \in DOMAIN verdicts : verdicts[p] = "bound"}
    IN  [id \in {ports[p].id : p \in Bound} |->
            ports[CHOOSE p \in Bound : ports[p].id = id].net]

(* What the rest of the checks work on: the nets, by id, each with its place   *)
(* among the nets that were read, and for every parsed component its device,   *)
(* the net behind each port that could be bound, and its parameters, none when *)
(* they are no object.                                                         *)
Graph(doc) ==
    LET index == NetIndex(doc)
        kinds == KindsOfNets(doc)
        verdicts == [c \in Parsed(doc) |-> PortVerdicts(doc, kinds, c)]
    IN  [ place |-> [id \in DOMAIN index |->
                        Cardinality({n \in ReadNets(doc) : n <= index[id]})],
          kinds |-> kinds,
          device |-> [c \in Parsed(doc) |-> DeviceOf(doc, c)],
          verdicts |-> verdicts,
          ports |-> [c \in Parsed(doc) |-> PortNets(doc, verdicts[c], c)],
          params |-> [c \in Parsed(doc) |-> IF doc.components[c].form = "parameters" THEN << >>
                                            ELSE doc.components[c].params] ]

Components(g) == DOMAIN g.device
OfDevice(g, devices) == {c \in Components(g) : g.device[c] \in devices}
NetsOfKind(g, kind) == {net \in DOMAIN g.kinds : g.kinds[net] = kind}

PortIssues(doc, g, c) ==
    LET ports == doc.components[c].ports
        verdicts == g.verdicts[c]
        Seen == {ports[p].id : p \in {q \in DOMAIN verdicts : PortIsRead(ports[q])}}
    IN  {At(verdicts[p], "ports", c, p) : p \in {q \in DOMAIN verdicts : verdicts[q] # "bound"}}
        \cup {At("schema_violation", "port field", c, p) :
                p \in {q \in DOMAIN verdicts : ports[q].form = "field"}}
        \cup When(doc.components[c].form = "ports", At("schema_violation", "ports", c, 0))
        \cup When(/\ g.device[c] # "unknown"
                  /\ doc.components[c].form # "ports"
                  /\ "unknown_port" \notin Fns!Range(verdicts)
                  /\ PortIds(g.device[c]) \ Seen # {},
                  At("missing_port", "ports", c, 0))

ParameterIssue(device, params, name) ==
    IF name \notin AcceptedKeys(device) THEN "unknown_parameter"
    ELSE IF name = "phase_index" THEN "accepted"
    ELSE IF \/ params[name].class = "null" /\ Parameters[device][name].nullable
            \/ /\ params[name].class = "number"
               /\ WithinBound(Parameters[device][name], params[name].v)
    THEN "accepted" ELSE "invalid_parameter_value"

ParameterIssues(doc, g, c) ==
    LET params == g.params[c]
        Rejected == {name \in DOMAIN params :
                        ParameterIssue(g.device[c], params, name) # "accepted"}
    IN  IF doc.components[c].form = "parameters"
        THEN {At("schema_violation", "parameters", c, 0)}
        ELSE {At(ParameterIssue(g.device[c], params, name), name, c, 0) : name \in Rejected}
             \cup When(RequiredParameters(g.device[c]) \ DOMAIN params # {},
                       At("missing_parameter", "parameters", c, 0))

ComponentIssues(doc, g) ==
    {At("schema_violation", "components", c, 0) :
        c \in {b \in DOMAIN doc.components :
                doc.components[b].form \in {"not_object", "field", "id"}}}
    \cup {At("duplicate_component_id", "components", c, 0) :
        c \in {b \in DOMAIN doc.components : ComponentIsRead(doc, b) /\ Repeated(doc, b)}}
    \cup {At("unsupported_device_kind", "components", c, 1) : c \in OfDevice(g, {"unknown"})}
    \cup (UNION {PortIssues(doc, g, c) : c \in Components(g)})
    \cup (UNION {ParameterIssues(doc, g, c) : c \in Components(g) \ OfDevice(g, {"unknown"})})

-------------------------------------------------------------------------------
(* The graph: which nets are behavioural, isolated, or on an island.           *)

NetsOf(g, c) == Fns!Range(g.ports[c])

Users(g, net) == {c \in Components(g) : net \in NetsOf(g, c)}

BoundNets(g) == UNION {NetsOf(g, c) : c \in Components(g)}

(* A net that only blocks without an element card are bound to.                *)
Behavioural(g, net) ==
    /\ Users(g, net) # {}
    /\ \A c \in Users(g, net) : g.device[c] # "unknown" /\ ~Renderable(g.device[c])

PortCount(g, net) ==
    Cardinality(UNION {{<<c, id>> : id \in {i \in DOMAIN g.ports[c] : g.ports[c][i] = net}} :
                        c \in Components(g)})

Isolated(g, net) ==
    g.kinds[net] # "control" /\ ~Behavioural(g, net) /\ PortCount(g, net) < 2

(* The nets a walk from one net reaches, a component at a time.                *)
Spread(g, reached) ==
    reached \cup UNION {NetsOf(g, c) : c \in {b \in Components(g) :
                                            NetsOf(g, b) \cap reached # {}}}

ReachedFrom(g, net) ==
    LET Walk[k \in 0 .. Cardinality(Components(g))] ==
            IF k = 0 THEN {net} ELSE Spread(g, Walk[k - 1])
    IN  Walk[Cardinality(Components(g))]

Disconnected(g) == \E net \in BoundNets(g) : BoundNets(g) \ ReachedFrom(g, net) # {}

ConnectivityIssues(g) ==
    LET References == {g.place[net] : net \in NetsOfKind(g, "reference")}
        First == {n \in References : \A m \in References : n <= m}
    IN  {At("isolated_net", "nets", g.place[net], 0) :
            net \in {n \in DOMAIN g.kinds : Isolated(g, n)}}
        \cup When(References = {}, At("missing_reference_net", "nets", 0, 0))
        \cup {At("multiple_reference_nets", "nets", n, 1) : n \in References \ First}
        \cup When(Disconnected(g), At("disconnected_graph", "nets", 0, 0))

RenderabilityIssues(g) ==
    When(\E c \in Components(g) : g.device[c] # "unknown" /\ ~Renderable(g.device[c]),
         At("not_compilable", "components", 0, 0))
    \cup When(OfDevice(g, {"resistor_load"}) = {}, At("no_output_load", "components", 0, 0))

-------------------------------------------------------------------------------
(* The declaration of how the gates derive from one duty, and the gates.       *)

ControlModes == {"single_duty_complementary", "single_duty_interleaved",
                 "paired_complementary"}

(* A declaration counts for the validator when its shape fits the graph.       *)
DeclarationFits(control, netCount) ==
    /\ control.form = "ok"
    /\ control.mode \in ControlModes
    /\ control.mode = "single_duty_interleaved" =>
            /\ control.phases.class = "number"
            /\ control.phases.v >= 2
            /\ control.phases.v = netCount
    /\ control.mode = "paired_complementary" =>
            /\ control.pairsForm = "ok"
            /\ control.pairs # << >>
            /\ netCount = 2 * Len(control.pairs)

(* The components with an output port on the net.                              *)
Drivers(g, net) ==
    {c \in Components(g) \ OfDevice(g, {"unknown"}) :
        \E id \in DOMAIN g.ports[c] :
            g.ports[c][id] = net /\ PortSpec(g.device[c], id).direction = "output"}

(* A number of a component, or its default when it is not a finite number.     *)
Number(g, c, name) ==
    IF name \in DOMAIN g.params[c] /\ g.params[c][name].class = "number"
    THEN g.params[c][name].v ELSE Parameters[g.device[c]][name].default.v

(* A switch that the first carrier on its control net can never turn on.       *)
NeverConducts(g, c) ==
    /\ "control" \in DOMAIN g.ports[c]
    /\ LET carriers == Drivers(g, g.ports[c]["control"]) \cap OfDevice(g, {"pulse_source"})
       IN  \E k \in carriers :
            /\ \A j \in carriers : k <= j
            /\ Number(g, c, "threshold_v") + Number(g, c, "hysteresis_v")
                    >= Number(g, k, "amplitude_v")

GateLevelIssues(g) ==
    {At("switch_threshold_above_carrier_amplitude", "components", c, 0) :
        c \in {b \in OfDevice(g, {"voltage_controlled_switch"}) : NeverConducts(g, b)}}

ControlIssues(doc, g) ==
    LET ControlNets == NetsOfKind(g, "control")
        Gates == {net \in ControlNets : ~Behavioural(g, net)}
        drivers == [net \in Gates |-> Cardinality(Drivers(g, net))]
    IN  When(OfDevice(g, {"voltage_controlled_switch", "averaged_switch"}) = {},
             At("actuator_missing", "components", 0, 0))
        \cup When(/\ Cardinality(ControlNets) > 1
                  /\ ~DeclarationFits(doc.control, Cardinality(ControlNets)),
                  At("multiple_control_nets", "nets", 0, 0))
        \cup {At("control_net_undriven", "nets", g.place[net], 0) :
                net \in {n \in Gates : drivers[n] = 0}}
        \cup {At("control_net_multiple_drivers", "nets", g.place[net], 0) :
                net \in {n \in Gates : drivers[n] > 1}}
        \cup (IF ControlNets = {} THEN {} ELSE GateLevelIssues(g))

-------------------------------------------------------------------------------
(* Mutant: only the one net is relabelled, and not the group it stands in.     *)
JoinOne(g, before, c) ==
    IF \/ before.loop # 0
       \/ c \notin OfDevice(g, {"voltage_source"})
       \/ DOMAIN g.ports[c] # {"positive", "negative"}
    THEN before
    ELSE LET left == before.group[g.ports[c]["positive"]]
         IN  IF left = before.group[g.ports[c]["negative"]]
             THEN [before EXCEPT !.loop = c]
             ELSE [before EXCEPT !.group[g.ports[c]["negative"]] = left]

(* The ideal voltage sources are joined one after the other, each net standing *)
(* in the group of the nets it is joined to, up to one that closes a loop.     *)
Join(g, before, c) ==
    IF \/ before.loop # 0
       \/ c \notin OfDevice(g, {"voltage_source"})
       \/ DOMAIN g.ports[c] # {"positive", "negative"}
    THEN before
    ELSE LET left == before.group[g.ports[c]["positive"]]
             right == before.group[g.ports[c]["negative"]]
         IN  IF left = right THEN [before EXCEPT !.loop = c]
             ELSE [before EXCEPT !.group = [net \in DOMAIN @ |->
                                    IF @[net] = right THEN left ELSE @[net]]]

SourceLoop(doc, g) ==
    LET Joined[k \in 0 .. Len(doc.components)] ==
            IF k = 0 THEN [loop |-> 0, group |-> [net \in DOMAIN g.kinds |-> net]]
                     ELSE Join(g, Joined[k - 1], k)
    IN  Joined[Len(doc.components)].loop

SourceIssues(doc, g) ==
    LET loop == SourceLoop(doc, g)
    IN  When(loop # 0, At("voltage_source_loop", "components", loop, 0))

-------------------------------------------------------------------------------
(* The whole validation: the graph is examined only when there are nets and    *)
(* components to examine, and the fingerprint only when nothing else is wrong. *)

GraphIsChecked(g) == DOMAIN g.kinds # {} /\ Components(g) # {}

GraphIssues(doc, g) ==
    IF GraphIsChecked(g)
    THEN RenderabilityIssues(g) \cup ConnectivityIssues(g)
         \cup ControlIssues(doc, g) \cup SourceIssues(doc, g)
    ELSE {}

FingerprintIssues(doc, found) ==
    When(/\ doc.fingerprint \in {"false", "malformed"}
         /\ ~HasError(found)
         /\ Buildable(doc),
         At("fingerprint_mismatch", "/fingerprint", 0, 0))

Issues(doc) ==
    IF doc.form = "not_object" THEN {At("invalid_document", "/", 0, 0)}
    ELSE IF doc.form = "other_schema" THEN {At("schema_violation", "/schema", 0, 0)}
    ELSE LET g == Graph(doc)
             found == TopLevelIssues(doc) \cup NetIssues(doc)
                      \cup ComponentIssues(doc, g) \cup GraphIssues(doc, g)
         IN  found \cup FingerprintIssues(doc, found)
===============================================================================
