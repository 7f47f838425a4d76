--------------------------- MODULE ParameterView ---------------------------
(***************************************************************************)
(* The parameters that a published package records, as a reviewer sees     *)
(* them (parameter_view.py): the groups of rows with their units, the      *)
(* bounds, the digest of the set, and the list of differences between two  *)
(* sets (parameter_confirmation.py).                                       *)
(*                                                                         *)
(* A value is [kind, is]: a JSON scalar (a null among them) with its       *)
(* spelling, or an array; a field that is not there is Absent.             *)
(* Texts of provenance (source, review status) are left out: no digest and *)
(* no comparison reads them.  Groups and rows are sets: the code sorts     *)
(* both, and no name occurs twice in a group.                              *)
(***************************************************************************)
EXTENDS Integers, Sequences, FiniteSets, Functions, TLC

CONSTANT Absent  \* a field the manifest does not record

NumberKinds == {"int", "float"}
ScalarKinds == NumberKinds \cup {"bool", "text", "null"}
IsNumber(v) == v # Absent /\ v.kind \in NumberKinds

-----------------------------------------------------------------------------
(* The view of one manifest: [plant, controller, timebase, policy,         *)
(* backends, findings]; a group's values are a function of their names.    *)

\* _parameter_annotations: the first finding about a parameter gives its unit,
\* whatever the group the parameter is in.
AnnotatedUnit(manifest, name) ==
  LET about == {i \in DOMAIN manifest.findings : manifest.findings[i].parameter = name}
  IN IF about = {} THEN Absent
     ELSE manifest.findings[CHOOSE i \in about : \A j \in about : i <= j].unit

UnitOf(manifest, name, value, default, defaultFor) ==
  LET unit == AnnotatedUnit(manifest, name)
  IN IF unit = Absent /\ (defaultFor = "numbers" => IsNumber(value)) THEN default ELSE unit

\* _make_rows
Rows(manifest, values, default, defaultFor) ==
  {[name |-> n, value |-> values[n],
    unit |-> UnitOf(manifest, n, values[n], default, defaultFor)] : n \in DOMAIN values}

\* _plant_group ... _solver_groups: a group without values is left out.
\* Mutant: the defaults of the controller hide its configuration of this run.
ControllerDefaults(controller) ==
  controller.parameters @@ controller.identity_configuration @@ controller.run_configuration
ControllerValues(controller) ==
  LET identity == controller.identity_configuration
      run == controller.run_configuration
      defaults == controller.parameters
  IN [n \in DOMAIN identity \cup DOMAIN run \cup DOMAIN defaults |->
        IF n \in DOMAIN identity THEN identity[n]
        ELSE IF n \in DOMAIN run THEN run[n] ELSE defaults[n]]

PlantGroup(m) ==
  IF DOMAIN m.plant.parameters = {} THEN {}
  ELSE {[id |-> "plant", rows |-> Rows(m, m.plant.parameters, Absent, "values"),
         component |-> IF m.plant.id # Absent THEN m.plant.id ELSE m.plant.topology]}

ControllerGroup(m) ==
  IF DOMAIN ControllerValues(m.controller) = {} THEN {}
  ELSE {[id |-> "controller", component |-> m.controller.id,
         rows |-> Rows(m, ControllerValues(m.controller), Absent, "values")]}

TimebaseGroup(m) ==
  IF DOMAIN m.timebase.values = {} THEN {}
  ELSE {[id |-> "timebase", component |-> Absent,
         rows |-> Rows(m, m.timebase.values, m.timebase.unit, "numbers")]}

PolicyLimits(m) == Restrict(m.policy.values, {"minimum", "maximum"} \cap DOMAIN m.policy.values)
PolicyGroup(m) ==
  IF DOMAIN PolicyLimits(m) = {} THEN {}
  ELSE {[id |-> "action_policy", component |-> m.policy.name,
         rows |-> Rows(m, PolicyLimits(m), Absent, "values")]}

SolverId(name) == "solver:" \o name
SolverGroups(m) ==
  {[id |-> SolverId(b.name), component |-> b.name,
    rows |-> Rows(m, b.settings, Absent, "values")] :
      b \in {b \in m.backends : DOMAIN b.settings # {}}}

Groups(m) ==
  PlantGroup(m) \cup ControllerGroup(m) \cup TimebaseGroup(m) \cup PolicyGroup(m)
    \cup SolverGroups(m)

\* _bounds: both limits, and both of them numbers.
Bounds(m) ==
  LET limits == PolicyLimits(m)
  IN IF /\ DOMAIN limits = {"minimum", "maximum"}
        /\ IsNumber(limits["minimum"]) /\ IsNumber(limits["maximum"])
     THEN {[name |-> m.policy.name, minimum |-> limits["minimum"], maximum |-> limits["maximum"]]}
     ELSE {}

\* build_parameter_view and _scalar: a value that is not a scalar is refused.
Projectable(m) ==
  \A g \in Groups(m) : \A row \in g.rows : row.value.kind \in ScalarKinds

View(m) == [groups |-> Groups(m), bounds |-> Bounds(m)]

\* parameter_set_digest hashes exactly this: ids, components, rows and bounds.
Digest(view) == view

\* _group_ids
GroupIds(view) == {g.id : g \in view.groups}

\* parameter_rows: the rows with the id of their group.
FlatRows(view) ==
  UNION {{[group |-> g.id, name |-> r.name, value |-> r.value, unit |-> r.unit] :
             r \in g.rows} : g \in view.groups}

-----------------------------------------------------------------------------
(* _differences: the confirmed rows and bounds beside the present ones     *)

\* _same_value: numbers by value (1 is 1.0), but true is not 1.
SameValue(v, w) ==
  \/ v = w
  \/ v.kind \in NumberKinds /\ w.kind \in NumberKinds /\ v.is = w.is

\* _row_values and _bound_values: what is recorded under each key.
RowsUnder(rows) ==
  [key \in {<<r.group, r.name>> : r \in rows} |->
     LET row == CHOOSE r \in rows : <<r.group, r.name>> = key
     IN [value |-> row.value, unit |-> row.unit]]
BoundsUnder(bounds) ==
  [name \in {b.name : b \in bounds} \ {Absent} |-> CHOOSE b \in bounds : b.name = name]

\* Mutant: a unit that changed is not reported.
SameRowValue(r, s) == SameValue(r.value, s.value)
SameRow(r, s) == SameValue(r.value, s.value) /\ r.unit = s.unit
\* _same_bound
SameBound(b, c) == SameValue(b.minimum, c.minimum) /\ SameValue(b.maximum, c.maximum)

\* The keys that only one side has, or that both have with another content.
ChangedKeys(f, g, Same(_, _)) ==
  {k \in DOMAIN f \cup DOMAIN g :
     ~(k \in DOMAIN f \cap DOMAIN g /\ Same(f[k], g[k]))}

\* Mutant: only the rows are compared.
DifferencesOfRows(rows, bounds, view) ==
  ChangedKeys(RowsUnder(rows), RowsUnder(FlatRows(view)), SameRow)
Differences(rows, bounds, view) ==
  ChangedKeys(RowsUnder(rows), RowsUnder(FlatRows(view)), SameRow)
    \cup {<<"bounds", name>> :
            name \in ChangedKeys(BoundsUnder(bounds), BoundsUnder(view.bounds), SameBound)}
=============================================================================
