-------------------------------- MODULE Release --------------------------------
(* A release (docs/53, scripts/release_record.py): the tree states a version,  *)
(* a gate passes on a commit, a wheel is built and inventoried, a record ties  *)
(* them together, reviewers approve it, a tag is set, and at any time `verify` *)
(* and `check-identity` answer.  People edit and rebuild while a command runs. *)
(*                                                                             *)
(* A hash is the value it is the hash of.  A record's body is everything but   *)
(* its approval and its digest.                                                *)
EXTENDS Naturals, Sequences

CONSTANTS Versions,    \* versions the tree may state
          Reviewers,   \* people who run `approve`
          MaxChanges,  \* bound: what is edited, built, gated or tagged
          MaxCreates,  \* bound: runs of `create` that come to build a record
          MaxReviews,  \* bound: runs of `approve`
          None, Torn

Gate == [commit : Nat, after : Nat, outcome : {"pass", "fail"}]

ASSUME ReleaseAssumption ==
    /\ Versions \subseteq Nat \ {0} /\ Versions # {}
    /\ {None, Torn} \cap (Nat \cup Gate \cup Reviewers) = {} /\ None # Torn
    /\ {MaxChanges, MaxCreates, MaxReviews} \subseteq Nat

VARIABLES
    tree,      \* the checkout: [head, project, module, cli, notes]
    dist,      \* the build output: [wheel, sdist, inventory]; a wheel or an sdist is
               \* a file per version that its name states
    gates,     \* the gate evidence ever written, each in a directory of its own
    gating,    \* the commit a running gate started on, or None
    tags,      \* the commit each version's tag points at, or None
    creator,   \* `create` between its checks and its hashes, or None
    approver,  \* the record each `approve` has read, or None
    record,    \* the record file: None, Torn or a record
    bounds,    \* how much of each bound is used up
    history    \* what really happened: [approvals, made], not part of the program
vars == <<tree, dist, gates, gating, tags, creator, approver, record, bounds, history>>

Recorded == record \notin {None, Torn}
Used(bound, max) == bounds[bound] < max /\ bounds' = [bounds EXCEPT ![bound] = @ + 1]

Pending == [status |-> "pending", reviewer |-> None, digest |-> None]

-------------------------------------------------------------------------------
(* The gate evidence, the artifacts and the documents that `create` insists on. *)

GateHolds(gate) == gate.outcome = "pass" /\ gate.after = gate.commit

Files(version) ==
    [wheel |-> dist.wheel[version], sdist |-> dist.sdist[version], inventory |-> dist.inventory]

NoneMissing(files) == \A f \in DOMAIN files : files[f] # None

ArtifactsHold(version) ==
    /\ NoneMissing(Files(version))
    /\ dist.inventory.version = version
    /\ dist.inventory.wheel = dist.wheel[version]

DocumentsHold(version) == version \in tree.notes

(* The gate's evidence is an artifact among the files.                         *)
WithGate(files, gate) ==
    [a \in DOMAIN files \cup {"gate"} |-> IF a = "gate" THEN gate ELSE files[a]]

(* What it then writes down, hashing the artifacts once more.                  *)
Body(version, gate) ==
    [ schema |-> TRUE, version |-> version, tag |-> version, commit |-> gates[gate].commit,
      artifacts |-> WithGate(Files(version), gates[gate]),
      history |-> << >>, signed |-> FALSE, limitations |-> TRUE ]

RecordOf(body, approval) == [body |-> body, approval |-> approval, digest |-> body]

(* Mutant: the digest is taken before the last approval is archived.           *)
ApprovedBeforeArchiving(old, reviewer, decision) ==
    LET archived == IF old.approval.status = "pending" THEN old.body.history
                    ELSE Append(old.body.history, old.approval)
    IN  [ body |-> [old.body EXCEPT !.history = archived], digest |-> old.body,
          approval |-> [status |-> decision, reviewer |-> reviewer, digest |-> old.body] ]

(* approve_record: the last decision goes into the body, and the digest the    *)
(* reviewer is bound to is that of the body as it then is.                     *)
Approved(old, reviewer, decision) ==
    LET archived == IF old.approval.status = "pending" THEN old.body.history
                    ELSE Append(old.body.history, old.approval)
        body == [old.body EXCEPT !.history = archived]
    IN  RecordOf(body, [status |-> decision, reviewer |-> reviewer, digest |-> body])

-------------------------------------------------------------------------------
(* verify.  What it is asked is [dist, evidence, approved, tag, git]: whether  *)
(* it is given the build output, which gate's directory (0 for none), whether  *)
(* an approval and a tag are required, and "here", "elsewhere" or "missing"    *)
(* for git and its repository.                                                 *)

When(condition, good, bad) == IF condition THEN good ELSE bad

SchemaCheck == When(record.body.schema, "pass", "fail")
(* Mutant: that there is a digest is enough. *)
DigestIsThere == When(record.digest # None, "pass", "fail")
DigestCheck == When(record.digest = record.body, "pass", "fail")

ApprovalBinding ==
    CASE record.approval.status = "pending" -> "not_checked"
      [] OTHER -> When(record.approval.digest = record.digest, "pass", "fail")

ApprovalRequired(asked) ==
    IF asked.approved THEN When(record.approval.status = "approve", "pass", "fail")
    ELSE "not_checked"

LookedUp(asked) ==
    LET files == IF asked.dist THEN Files(record.body.version) ELSE << >>
    IN  IF asked.evidence = 0 THEN files ELSE WithGate(files, gates[asked.evidence])

ArtifactsHashed(asked) ==
    LET found == LookedUp(asked)
    IN  IF \E a \in DOMAIN found : found[a] = None \/ found[a] # record.body.artifacts[a] THEN "fail"
        ELSE IF DOMAIN found # DOMAIN record.body.artifacts THEN "not_checked"
        ELSE "pass"

InventoryBinding(asked) ==
    IF asked.dist /\ dist.inventory # None
    THEN When(dist.inventory.wheel = record.body.artifacts.wheel, "pass", "fail")
    ELSE "not_checked"

SignatureStatus == When(record.body.signed, "not_checked", "pass")
Limitations == When(record.body.limitations, "pass", "fail")

TagCheck(asked) ==
    CASE ~asked.tag -> "not_checked"
      [] asked.tag /\ asked.git = "missing" -> "fail"
      [] asked.tag /\ asked.git = "elsewhere" -> "not_checked"
      [] OTHER -> When(tags[record.body.tag] = record.body.commit, "pass", "fail")

Checks(asked) ==
    [ schema |-> SchemaCheck, record_digest |-> DigestCheck,
      approval_binding |-> ApprovalBinding, approval_required |-> ApprovalRequired(asked),
      artifacts_hashed |-> ArtifactsHashed(asked),
      inventory_binding |-> InventoryBinding(asked), signature_status |-> SignatureStatus,
      limitations |-> Limitations, tag |-> TagCheck(asked) ]

NotRequested(asked) ==
    {"approval_binding"}
    \cup (IF asked.approved THEN {} ELSE {"approval_required"})
    \cup (IF asked.dist /\ asked.evidence # 0 THEN {} ELSE {"artifacts_hashed"})
    \cup (IF asked.dist THEN {} ELSE {"inventory_binding"})
    \cup (IF asked.tag THEN {} ELSE {"tag"})

OverallStatus(checks, optional) ==
    IF \E c \in DOMAIN checks : checks[c] = "fail" THEN "fail"
    ELSE IF \E c \in DOMAIN checks \ optional : checks[c] = "not_checked" THEN "partial"
    ELSE "pass"

Verify(asked) ==
    IF Recorded THEN OverallStatus(Checks(asked), NotRequested(asked)) ELSE "fail"

-------------------------------------------------------------------------------
(* check-identity: the places of the tree that state a version agree, and the  *)
(* tag of that version, when it is required, is at HEAD.  The command line may *)
(* state a version of its own (tree.cli) as long as it is not this one.        *)
(* Mutant: the tag need only exist.                                            *)
TagExists(required) ==
    IF required THEN When(tags[tree.project] # None, "pass", "fail") ELSE "not_checked"

TagAtHead(required) ==
    IF required THEN When(tags[tree.project] = tree.head, "pass", "fail") ELSE "not_checked"

CheckIdentity(required) ==
    OverallStatus(
        [ module_version |-> When(tree.module = tree.project, "pass", "fail"),
          cli_version |-> When(tree.cli # tree.project, "pass", "fail"),
          release_notes |-> When(tree.project \in tree.notes, "pass", "fail"),
          tag |-> TagAtHead(required) ],
        IF required THEN {} ELSE {"tag"})

-------------------------------------------------------------------------------
(* What people do to the checkout, the build output and the tags.              *)

Commit(edited) ==
    /\ Used("changes", MaxChanges)
    /\ tree' = [edited EXCEPT !.head = @ + 1]
    /\ UNCHANGED <<dist, gates, gating, tags, creator, approver, record, history>>

(* A version is raised in one place or in all of them, or its note is written. *)
Edits ==
    {[tree EXCEPT !.project = v, !.module = v, !.notes = @ \cup {v}] : v \in Versions}
    \cup {[tree EXCEPT !.module = v] : v \in Versions}
    \cup {[tree EXCEPT !.cli = v] : v \in {None, tree.project}}

Build(files) ==
    /\ Used("changes", MaxChanges)
    /\ dist' = files
    /\ UNCHANGED <<tree, gates, gating, tags, creator, approver, record, history>>

(* No two builds are the same bytes.                                           *)
Bytes == bounds.changes + 1

BuildWheel == Build([dist EXCEPT !.wheel[tree.project] = Bytes])
BuildSdist == Build([dist EXCEPT !.sdist[tree.project] = Bytes])
WriteInventory(version) ==
    /\ dist.wheel[version] # None
    /\ Build([dist EXCEPT !.inventory = [version |-> version, wheel |-> dist.wheel[version]]])
EmptyDist == [ wheel |-> [v \in Versions |-> None], sdist |-> [v \in Versions |-> None],
               inventory |-> None ]
CleanDist == Build(EmptyDist)

StartGate ==
    /\ gating = None
    /\ Used("changes", MaxChanges)
    /\ gating' = tree.head
    /\ UNCHANGED <<tree, dist, gates, tags, creator, approver, record, history>>

(* The gate writes its evidence whatever the outcome.                          *)
EndGate ==
    /\ gating # None
    /\ \E outcome \in {"pass", "fail"} :
         gates' = Append(gates, [commit |-> gating, after |-> tree.head, outcome |-> outcome])
    /\ gating' = None
    /\ UNCHANGED <<tree, dist, tags, creator, approver, record, bounds, history>>

Tag ==
    /\ Used("changes", MaxChanges)
    /\ tags' = [tags EXCEPT ![tree.project] = tree.head]
    /\ UNCHANGED <<tree, dist, gates, gating, creator, approver, record, history>>

(* A hand in the record file: one field, and not the digest.                   *)
EditRecord ==
    /\ Recorded
    /\ Used("changes", MaxChanges)
    /\ \E body \in {[record.body EXCEPT !.commit = tree.head],
                    [record.body EXCEPT !.artifacts.wheel = dist.wheel[record.body.version]],
                    [record.body EXCEPT !.limitations = FALSE],
                    [record.body EXCEPT !.signed = TRUE],
                    [record.body EXCEPT !.schema = FALSE]} :
         record' = [record EXCEPT !.body = body]
    /\ history' = [history EXCEPT !.made = None]
    /\ UNCHANGED <<tree, dist, gates, gating, tags, creator, approver>>

-------------------------------------------------------------------------------
(* The commands that write the record.  Each reads, and writes later; a write  *)
(* that is cut short leaves a file that is no record.                          *)

BeginCreate(version, gate) ==
    /\ creator = None
    /\ GateHolds(gates[gate]) /\ ArtifactsHold(version) /\ DocumentsHold(version)
    /\ Used("creates", MaxCreates)
    /\ creator' = [version |-> version, gate |-> gate]
    /\ UNCHANGED <<tree, dist, gates, gating, tags, approver, record, history>>

(* An artifact that is gone by now ends the command before it writes.          *)
EndCreate ==
    /\ creator # None
    /\ creator' = None
    /\ IF ~NoneMissing(Files(creator.version))
       THEN UNCHANGED <<record, history>>
       ELSE LET made == RecordOf(Body(creator.version, creator.gate), Pending)
            IN  \/ /\ record' = made
                   /\ history' = [history EXCEPT
                        !.made = [files |-> Files(creator.version), gate |-> creator.gate]]
                \/ record' = Torn /\ history' = [history EXCEPT !.made = None]
    /\ UNCHANGED <<tree, dist, gates, gating, tags, approver, bounds>>

BeginApprove(reviewer) ==
    /\ Recorded /\ approver[reviewer] = None
    /\ Used("reviews", MaxReviews)
    /\ approver' = [approver EXCEPT ![reviewer] = record]
    /\ UNCHANGED <<tree, dist, gates, gating, tags, creator, record, history>>

EndApprove(reviewer) ==
    /\ approver[reviewer] # None
    /\ approver' = [approver EXCEPT ![reviewer] = None]
    /\ \/ \E decision \in {"approve", "reject"} :
            LET new == Approved(approver[reviewer], reviewer, decision)
            IN  /\ record' = new
                /\ history' = [ approvals |-> history.approvals \cup
                                    {[reviewer |-> reviewer, decision |-> decision,
                                      body |-> approver[reviewer].body]},
                                made |-> IF record # approver[reviewer] THEN None
                                         ELSE history.made ]
       \/ record' = Torn /\ history' = [history EXCEPT !.made = None]
    /\ UNCHANGED <<tree, dist, gates, gating, tags, creator, bounds>>

Next ==
    \/ \E edited \in Edits \cup {tree} : Commit(edited)
    \/ BuildWheel \/ BuildSdist \/ CleanDist \/ \E v \in Versions : WriteInventory(v)
    \/ StartGate \/ EndGate \/ Tag \/ EditRecord
    \/ \E v \in Versions, g \in DOMAIN gates : BeginCreate(v, g)
    \/ EndCreate
    \/ \E r \in Reviewers : BeginApprove(r) \/ EndApprove(r)

(* A checkout that was built, gated and inventoried once, without a record.    *)
Init ==
    LET first == CHOOSE v \in Versions : \A w \in Versions : v <= w
    IN  /\ tree = [head |-> 1, project |-> first, module |-> first, cli |-> None,
                    notes |-> {first}]
        /\ dist = [ wheel |-> [v \in Versions |-> IF v = first THEN 0 ELSE None],
                     sdist |-> [v \in Versions |-> IF v = first THEN 0 ELSE None],
                     inventory |-> [version |-> first, wheel |-> 0] ]
        /\ gates = <<[commit |-> 1, after |-> 1, outcome |-> "pass"]>>
        /\ gating = None
        /\ tags = [v \in Versions |-> None]
        /\ creator = None
        /\ approver = [r \in Reviewers |-> None]
        /\ record = None
        /\ bounds = [changes |-> 0, creates |-> 0, reviews |-> 0]
        /\ history = [approvals |-> {}, made |-> None]

Spec == Init /\ [][Next]_vars

-------------------------------------------------------------------------------
Asked == [ dist : BOOLEAN, evidence : 0 .. Len(gates), approved : BOOLEAN, tag : BOOLEAN,
           git : {"here", "elsewhere", "missing"} ]

\* The record is whole, torn or not there, an approval names its reviewer, and
\* what a command has in hand is what such commands read.
TypeOK ==
    /\ tree.head \in Nat \ {0} /\ {tree.project, tree.module} \cup tree.notes \subseteq Versions
    /\ gating \in {None} \cup 1 .. tree.head
    /\ \A v \in Versions : tags[v] \in {None} \cup 1 .. tree.head
    /\ creator = None \/ creator \in [version : Versions, gate : DOMAIN gates]
    /\ Recorded => /\ record.body.version \in Versions
                   /\ record.approval.status \in {"pending", "approve", "reject"}
                   /\ record.approval.status # "pending" => record.approval.reviewer \in Reviewers

\* A record that verifies as approved was approved as it stands: a reviewer read
\* exactly this body (the archive of earlier decisions apart), whatever other
\* reviewers, `create` or an editor wrote meanwhile (docs/53; release_record.py:688-769).
Reviewed(body) == [body EXCEPT !.history = << >>]
ApprovedIsReviewed ==
    \A asked \in Asked :
        asked.approved /\ Verify(asked) = "pass" =>
            \E a \in history.approvals :
                a.decision = "approve" /\ Reviewed(a.body) = Reviewed(record.body)

\* A release whose record and identity both verify with everything asked for is
\* one thing: the tag of its version is at HEAD, the recorded commit is HEAD and
\* passed the gate unchanged, and the inventory describes the wheel on disk.  It
\* is so although files were rebuilt while `create` ran; a record edited by hand
\* and approved again is not covered (release_record.py:751-1016, 1236-1290).
ReleaseIsWhole ==
    \A asked \in Asked :
        /\ asked.dist /\ asked.evidence # 0 /\ asked.tag /\ asked.git = "here"
        /\ Verify(asked) = "pass"
        /\ CheckIdentity(TRUE) = "pass"
        /\ record.body.tag = tree.project
        /\ history.made # None
        => LET v == record.body.version  gate == gates[asked.evidence]
           IN  /\ dist.inventory = [version |-> v, wheel |-> dist.wheel[v]]
               /\ gate.commit = tree.head /\ gate.after = tree.head /\ gate.outcome = "pass"
               /\ record.body.commit = tree.head /\ tags[v] = tree.head

\* No false alarm: a record that only `create` and `approve` have written, whose
\* files were not changed since or while it was made, never fails to verify, in
\* whatever order the reviewers decided (release_record.py:478-538, 650-1016).
UntouchedVerifies ==
    Recorded /\ history.made # None =>
        LET made == history.made
        IN  \A asked \in Asked :
              /\ ~asked.tag
              /\ asked.approved => record.approval.status = "approve"
              /\ asked.dist => /\ Files(record.body.version) = made.files
                               /\ made.files.inventory.wheel = made.files.wheel
              /\ asked.evidence \in {0, made.gate}
              => Verify(asked) # "fail"
=============================================================================
