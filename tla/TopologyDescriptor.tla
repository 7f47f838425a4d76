-------------------------- MODULE TopologyDescriptor --------------------------
(* A topology document, as an author writes it, and the descriptor that the    *)
(* constructors of topology.py accept.                                         *)
(*                                                                             *)
(* A document is a record                                                      *)
(*   form         "ok", "not_object" or "other_schema"                         *)
(*   top          its malformed top-level parts: a subset of                   *)
(*                {"field", "topology_id", "version", "metadata"}              *)
(*   drawing      FALSE when a label, a port direction, a symbol id or a model *)
(*                id is one that the constructors refuse                       *)
(*   nets         a sequence of [id, kind, form]                               *)
(*   components   a sequence of [id, kind, form, ports, params]                *)
(*   control      the declaration under metadata.control                       *)
(*   fingerprint  "absent", "true", "false" or "malformed"                     *)
(* An item's form is "ok", or names the part of it that is malformed.          *)
EXTENDS CircuitDevices

NetKinds == CompilableNetKinds \cup {"thermal", "other"}

Distinct(items) ==
    \A i, j \in DOMAIN items : items[i].id = items[j].id => i = j

NetIsBuilt(net) == net.form \in {"ok", "field"} /\ net.kind \in NetKinds

PortIsBuilt(doc, port) ==
    /\ port.form \in {"ok", "field"}
    /\ \E n \in DOMAIN doc.nets : doc.nets[n].id = port.net

ComponentIsBuilt(doc, component) ==
    /\ component.form \in {"ok", "field"}
    /\ component.ports # << >>
    /\ \A p \in DOMAIN component.ports : PortIsBuilt(doc, component.ports[p])
    /\ Distinct(component.ports)

(* The document that becomes a descriptor: every constructor accepts its part. *)
Buildable(doc) ==
    /\ doc.form # "not_object"
    /\ doc.top \subseteq {"field"}
    /\ doc.drawing
    /\ \A n \in DOMAIN doc.nets : NetIsBuilt(doc.nets[n])
    /\ \A c \in DOMAIN doc.components : ComponentIsBuilt(doc, doc.components[c])
    /\ Distinct(doc.nets)
    /\ Distinct(doc.components)
===============================================================================
