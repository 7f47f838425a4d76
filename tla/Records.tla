------------------------------ MODULE Records ------------------------------
(***************************************************************************)
(* What people keep beside a published package: the attestations of        *)
(* module Attestation and the confirmation that a reviewer writes of the   *)
(* parameters (parameter_confirmation.py, over parameter_view.py and       *)
(* inspection.py), each of them compared with the package when it is read. *)
(***************************************************************************)
EXTENDS Attestation, ParameterView

CONSTANTS
  ManifestOf(_),  \* content -> the manifest it holds, as ParameterView reads it
  Earlier,        \* contents of packages that were replaced before the start
  LeftOut         \* the sets of groups that a reviewer may leave out

\* The id of a solver is its own, and a manifest has one backend of a name, as the
\* manifests of the plants and controllers of this repository have.
ASSUME ManifestAssumption ==
  LET manifests == {ManifestOf(c) : c \in Contents \cup Earlier}
      solvers == UNION {{b.name : b \in m.backends} : m \in manifests}
  IN /\ \A m \in manifests : \A b, o \in m.backends : b.name = o.name => b = o
     /\ \A n, o \in solvers : SolverId(n) = SolverId(o) => n = o
     /\ \A n \in solvers :
          SolverId(n) \notin {"plant", "controller", "timebase", "action_policy", "bounds"}

VARIABLES
  conf,  \* the confirmation file; None when there is none, or it cannot be parsed
  seen   \* ghost: what the reviewer had on screen when it was written

confVars == <<conf, seen>>
vars == <<attVars, confVars>>

\* The parts of the document that verification requires; the last one is not
\* among the required fields and has a check of its own.
RequiredFields == {"schema_version", "run", "parameter_set", "review", "limitations"}
Fields == RequiredFields \cup {"claim_conclusion"}

ViewOf == [c \in Contents \cup Earlier |-> View(ManifestOf(c))]
DigestOf == [c \in Contents \cup Earlier |-> Digest(ViewOf[c])]
ProjectableContents == {c \in Contents \cup Earlier : Projectable(ManifestOf(c))}
AllGroupIds == UNION {GroupIds(ViewOf[c]) : c \in Contents}

RecordsInit == AttInit /\ conf = None /\ seen = None

\* build_parameter_view projects a package only when inspect_run finds it
\* intact.
ViewAvailable(d) == pkg[d].sealed /\ pkg[d].content \in ProjectableContents

\* _scope: every group by default; a selection must keep the plant.
Scopes(ids) == {s \in {ids \ left : left \in LeftOut} : "plant" \in ids => "plant" \in s}

\* build_confirmation: the document of one run and content, whose digest, rows
\* and bounds it holds.
Confirmation(r, c, scope) ==
  [run |-> r, content |-> c, scope |-> scope, fields |-> Fields, intact |-> TRUE]

Written(r, c, document) ==
  /\ acts < MaxActs /\ acts' = acts + 1
  /\ conf' = document
  /\ seen' = [run |-> r, content |-> c]
  /\ UNCHANGED <<pkg, files, commits, call, attested>>

\* build_confirmation and write_confirmation: the file is written in place, and
\* a write that is cut short leaves a text that cannot be parsed.
Confirm(d) ==
  LET r == RunOf(d)
      c == pkg[d].content
  IN /\ ViewAvailable(d)
     /\ \/ \E s \in Scopes(GroupIds(ViewOf[c])) : Written(r, c, Confirmation(r, c, s))
        \/ Written(r, c, None)

\* The same, before the package was replaced by the one that is there.
ConfirmEarlier(r, c) ==
  /\ c \in Earlier \cap ProjectableContents
  /\ Written(r, c, Confirmation(r, c, GroupIds(ViewOf[c])))

\* Another program writes the document, digest included, without one part of it.
Transcribe(d, missing) ==
  /\ ViewAvailable(d)
  /\ LET c == pkg[d].content
     IN Written(RunOf(d), c,
                [Confirmation(RunOf(d), c, GroupIds(ViewOf[c])) EXCEPT !.fields = Fields \ {missing}])

\* The document is changed by hand, without its digest.
EditConfirmation ==
  /\ conf # None /\ conf.intact /\ acts < MaxActs /\ acts' = acts + 1
  /\ \/ \E c \in Contents \ {conf.content} :
          conf' = [conf EXCEPT !.content = c, !.intact = FALSE]
     \/ conf' = [conf EXCEPT !.scope = AllGroupIds, !.intact = FALSE]
  /\ UNCHANGED <<pkg, files, commits, call, attested, seen>>

-----------------------------------------------------------------------------
(* verify_confirmation *)

\* _required_field_problems and the check of the schema.
SchemaHolds == RequiredFields \subseteq conf.fields
DigestHolds == conf.intact
SameRun(d) == conf.run = RunOf(d)
\* Mutant: only the digest of the parameters is compared.
SameParametersSuffice(d) == DigestOf[conf.content] = DigestOf[pkg[d].content]
SamePackage(d) == conf.content = pkg[d].content
SameParameters(d) == DigestOf[conf.content] = DigestOf[pkg[d].content]
ScopeCovers(d) == GroupIds(ViewOf[pkg[d].content]) \subseteq conf.scope
ClaimIsRecorded == "claim_conclusion" \in conf.fields

\* The verdict over the directory d; a file that cannot be parsed is refused
\* before it is compared.
Verdict(d) ==
  CASE conf = None -> "refused"
    [] conf # None ->
         CASE ~ViewAvailable(d) -> "unknown"
           [] ViewAvailable(d) /\ ~(SchemaHolds /\ DigestHolds) -> "invalid"
           [] ViewAvailable(d) /\ SchemaHolds /\ DigestHolds /\ ~SameRun(d) -> "mismatched_run"
           [] ViewAvailable(d) /\ SchemaHolds /\ DigestHolds /\ SameRun(d) /\
              ~(SamePackage(d) /\ SameParameters(d)) -> "stale"
           [] OTHER -> IF ScopeCovers(d) /\ ClaimIsRecorded THEN "current" ELSE "invalid"

\* What a stale verdict lists of a confirmation of c over a package that holds e.
Listed ==
  [c \in Contents \cup Earlier |-> [e \in Contents \cup Earlier |->
     Differences(FlatRows(ViewOf[c]), ViewOf[c].bounds, ViewOf[e])]]

Next ==
  \/ AttNext /\ UNCHANGED confVars
  \/ \E d \in Dirs : Confirm(d) \/ \E missing \in {"review", "claim_conclusion"} : Transcribe(d, missing)
  \/ \E r \in Runs, c \in Earlier : ConfirmEarlier(r, c)
  \/ EditConfirmation

Spec == RecordsInit /\ [][Next]_vars

-----------------------------------------------------------------------------
(* Properties *)

\* attestation.py, docs/40 section 3.1: a directory that is L1_anchored is intact,
\* and one commit holds the record of exactly that content and the document with it.
AnchoredMeansRecorded ==
  \A d \in Dirs : Trust(d) = "L1_anchored" =>
    /\ pkg[d].sealed
    /\ \E i \in DOMAIN commits :
         /\ \E line \in Range(commits[i].index) : line = Payload(d)
         /\ commits[i].att[RunOf(d)] # None
         /\ commits[i].att[RunOf(d)].payload.content = pkg[d].content

\* verify_git_anchor: what is anchored stays anchored, whatever is attested,
\* superseded, torn or committed later.
AnchorLasts ==
  [][\A p \in Payloads : AnchorStatus(p) = "committed" => AnchorStatus(p)' = "committed"]_vars

\* attest_run: an attestation that has been made is still there, in its place
\* or among the superseded ones, through replacements, failures and crashes
\* at every step.
AttestationsAreKept ==
  \A p \in attested :
    \/ att[p.run] # None /\ att[p.run].payload = p
    \/ sup[p] # None /\ sup[p].payload = p

\* verify_confirmation: a current verdict means that the reviewer saw this
\* package, with a document that has all of its parts, and every parameter
\* group of it is in the scope of the statement.
CurrentMeansSeen ==
  \A d \in Dirs : Verdict(d) = "current" =>
    /\ seen = [run |-> RunOf(d), content |-> pkg[d].content]
    /\ GroupIds(ViewOf[pkg[d].content]) \subseteq conf.scope
    /\ conf.fields = Fields

\* What a manifest states, one statement a key: a value of a group with the unit a
\* reader is shown, or the two limits of the policy.
Says(group, name, values, unit) == [key |-> <<group, name>>, values |-> values, unit |-> unit]

\* A controller ran with its configuration, where it has one, before its defaults.
ConfiguredNames(m) ==
  DOMAIN m.controller.identity_configuration \cup DOMAIN m.controller.run_configuration
    \cup DOMAIN m.controller.parameters
Configured(m, name) ==
  LET c == m.controller
  IN IF name \in DOMAIN c.identity_configuration THEN c.identity_configuration[name]
     ELSE IF name \in DOMAIN c.run_configuration THEN c.run_configuration[name]
     ELSE c.parameters[name]
\* Only the numbers of the timebase are in its unit.
TimeUnit(m, name) ==
  IF AnnotatedUnit(m, name) = Absent /\ IsNumber(m.timebase.values[name])
  THEN m.timebase.unit ELSE AnnotatedUnit(m, name)

StatedValues(m) ==
  LET policy == m.policy.values
  IN UNION {
       {Says("plant", n, <<m.plant.parameters[n]>>, AnnotatedUnit(m, n)) :
          n \in DOMAIN m.plant.parameters},
       {Says("controller", n, <<Configured(m, n)>>, AnnotatedUnit(m, n)) :
          n \in ConfiguredNames(m)},
       {Says("timebase", n, <<m.timebase.values[n]>>, TimeUnit(m, n)) :
          n \in DOMAIN m.timebase.values},
       {Says("action_policy", n, <<policy[n]>>, AnnotatedUnit(m, n)) :
          n \in {"minimum", "maximum"} \cap DOMAIN policy},
       UNION {{Says(SolverId(b.name), n, <<b.settings[n]>>, AnnotatedUnit(m, n)) :
                 n \in DOMAIN b.settings} : b \in m.backends}}
StatedLimits(m) ==
  {Says("bounds", m.policy.name, <<p["minimum"], p["maximum"]>>, Absent) :
     p \in {p \in {m.policy.values} :
             /\ m.policy.name # Absent
             /\ {"minimum", "maximum"} \subseteq DOMAIN p
             /\ IsNumber(p["minimum"]) /\ IsNumber(p["maximum"])}}

SaysTheSame(s, t) ==
  /\ s.key = t.key /\ s.unit = t.unit
  /\ \A i \in DOMAIN s.values : SameValue(s.values[i], t.values[i])
Lost(stated, other) ==
  {s.key : s \in {s \in stated : \A t \in other : ~SaysTheSame(s, t)}}
\* The keys of which one manifest states what the other does not.
Changed(was, now) == Lost(was, now) \cup Lost(now, was)

\* The statement, for two manifests and the list.
ChangesAreNamed(was, now, listed) ==
  listed = Changed(StatedValues(was), StatedValues(now))
             \cup Changed(StatedLimits(was), StatedLimits(now))
NamedBetween ==
  [c \in Contents \cup Earlier |-> [e \in Contents \cup Earlier |->
     ChangesAreNamed(ManifestOf(c), ManifestOf(e), Listed[c][e])]]
\* docs/54, `differences` "lists ... each changed, added, or removed parameter": what
\* a stale verdict lists is exactly what the package states otherwise than the one the
\* reviewer had on screen: every value of the plant, of the controller as it was
\* configured, of the timebase, the policy and the solvers, with its unit, and the
\* limits of the action (build_parameter_view with _differences).
StaleNamesTheChange ==
  \A d \in Dirs : Verdict(d) = "stale" => NamedBetween[seen.content][pkg[d].content]
=============================================================================
