--------------------------- MODULE Release_proofs ---------------------------
(* Proofs about Release, for any number of versions, reviewers and changes.   *)
EXTENDS Release, WellFoundedInduction, TLAPS

-----------------------------------------------------------------------------
(* What every reachable state looks like. *)

Approval == {"pending", "approve", "reject"}

\* A record file, and what a reviewer's command has read of one.
RecordOK(r) ==
    /\ r = [body |-> r.body, approval |-> r.approval, digest |-> r.digest]
    /\ "version" \in DOMAIN r.body /\ r.body.version \in Versions
    /\ r.approval.status \in Approval
    /\ r.approval.status # "pending" => r.approval.reviewer \in Reviewers

TreeType == [head : Nat \ {0}, project : Versions, module : Versions,
             cli : {None} \cup Versions, notes : SUBSET Versions]
DistType == [wheel : [Versions -> {None} \cup Nat], sdist : [Versions -> {None} \cup Nat],
             inventory : {None} \cup [version : Versions, wheel : Nat]]

TypeInv ==
    /\ tree \in TreeType /\ dist \in DistType
    /\ bounds \in [changes : Nat, creates : Nat, reviews : Nat]
    /\ gates \in Seq(Gate)
    /\ gating \in {None} \cup 1 .. tree.head
    /\ tags \in [Versions -> {None} \cup 1 .. tree.head]
    /\ creator \in {None} \cup [version : Versions, gate : DOMAIN gates]
    /\ approver = [r \in Reviewers |-> approver[r]]
    /\ history = [approvals |-> history.approvals, made |-> history.made]

RecordsOK ==
    /\ Recorded => RecordOK(record)
    /\ \A r \in Reviewers : approver[r] # None => RecordOK(approver[r])

\* `create` goes on with a gate that held when it looked.
CreatorOK == creator # None => GateHolds(gates[creator.gate])

\* No two wheels are the same bytes, and an inventory that fits a wheel fits it
\* under the version it names.
WheelsOK ==
    /\ \A v \in Versions : dist.wheel[v] # None => dist.wheel[v] <= bounds.changes
    /\ \A v, w \in Versions : dist.wheel[v] # None /\ dist.wheel[v] = dist.wheel[w] => v = w
    /\ dist.inventory # None =>
         /\ dist.inventory.wheel <= bounds.changes
         /\ \A v \in Versions : dist.wheel[v] = dist.inventory.wheel => v = dist.inventory.version

\* The body of a record that nobody but `create` and `approve` has written.
MadeBody(version, made, archived) ==
    [ schema |-> TRUE, version |-> version, tag |-> version, commit |-> gates[made.gate].commit,
      artifacts |-> WithGate(made.files, gates[made.gate]),
      history |-> archived, signed |-> FALSE, limitations |-> TRUE ]

MadeOK ==
    history.made # None =>
        /\ history.made.gate \in DOMAIN gates /\ GateHolds(gates[history.made.gate])
        /\ DOMAIN history.made.files = {"wheel", "sdist", "inventory"}
        /\ NoneMissing(history.made.files)
        /\ record.body.version \in Versions
        /\ record.body = MadeBody(record.body.version, history.made, record.body.history)
        /\ record.digest = record.body
        /\ record.approval.status # "pending" => record.approval.digest = record.digest

\* An approval is the decision a reviewer took about the body its digest is of.
DecisionsOK ==
    Recorded /\ record.approval.status # "pending" =>
        \E a \in history.approvals :
            /\ a.decision = record.approval.status
            /\ Reviewed(a.body) = Reviewed(record.approval.digest)

ReleaseInv == TypeInv /\ RecordsOK /\ CreatorOK /\ WheelsOK /\ MadeOK /\ DecisionsOK

LEMMA ConstantFacts ==
    /\ Versions \subseteq Nat /\ None # Torn
    /\ None \notin Nat /\ None \notin Gate /\ None \notin Reviewers
  BY ReleaseAssumption

-----------------------------------------------------------------------------
(* The initial state. *)

LEMMA FirstVersion == \E v \in Versions : \A w \in Versions : v <= w
<1> DEFINE R == {p \in Nat \X Nat : p[1] < p[2]}
<1>1. IsWellFoundedOn(R, Nat)
  BY NatLessThanWellFounded DEF OpToRel
<1> HIDE DEF R
<1>2. PICK v \in Versions : \A w \in Versions : <<w, v>> \notin R
  BY <1>1, ReleaseAssumption, WFMin
<1>3. \A w \in Versions : ~(w < v)
  BY <1>2, ReleaseAssumption DEF R
<1> QED BY <1>3, ReleaseAssumption

LEMMA InvInit == Init => ReleaseInv
<1> SUFFICES ASSUME Init PROVE ReleaseInv
  OBVIOUS
<1> USE ConstantFacts
<1> DEFINE first == CHOOSE v \in Versions : \A w \in Versions : v <= w
<1>1. first \in Versions
  BY FirstVersion
<1> HIDE DEF first
<1>2. /\ tree = [head |-> 1, project |-> first, module |-> first, cli |-> None,
                 notes |-> {first}]
      /\ dist = [wheel |-> [v \in Versions |-> IF v = first THEN 0 ELSE None],
                 sdist |-> [v \in Versions |-> IF v = first THEN 0 ELSE None],
                 inventory |-> [version |-> first, wheel |-> 0]]
      /\ gates = <<[commit |-> 1, after |-> 1, outcome |-> "pass"]>>
      /\ gating = None /\ tags = [v \in Versions |-> None] /\ creator = None
      /\ approver = [r \in Reviewers |-> None] /\ record = None
      /\ bounds = [changes |-> 0, creates |-> 0, reviews |-> 0]
      /\ history = [approvals |-> {}, made |-> None]
  BY DEF Init, first
<1>3. TypeInv
  <2>1. tree \in TreeType
    BY <1>1, <1>2 DEF TreeType
  <2>2. dist \in DistType
    BY <1>1, <1>2 DEF DistType
  <2>3. gates \in Seq(Gate)
    BY <1>2 DEF Gate
  <2> QED BY <1>2, <2>1, <2>2, <2>3 DEF TypeInv
<1>4. RecordsOK /\ CreatorOK /\ MadeOK /\ DecisionsOK
  BY <1>2 DEF RecordsOK, CreatorOK, MadeOK, DecisionsOK, Recorded
<1>5. WheelsOK
  BY <1>1, <1>2 DEF WheelsOK
<1> QED BY <1>3, <1>4, <1>5 DEF ReleaseInv

-----------------------------------------------------------------------------
(* The state keeps its shape. *)

\* One step of a bound.
LEMMA UsedType ==
    ASSUME TypeInv, NEW b \in {"changes", "creates", "reviews"}, NEW max, Used(b, max)
    PROVE  /\ bounds' \in [changes : Nat, creates : Nat, reviews : Nat]
           /\ b = "changes" => bounds'.changes = bounds.changes + 1
           /\ b # "changes" => bounds'.changes = bounds.changes
  BY DEF TypeInv, Used

\* What is done to the checkout, the build output, the gates and the tags.
LEMMA PeopleKeepType ==
    ASSUME TypeInv,
           \/ \E edited \in Edits \cup {tree} : Commit(edited)
           \/ BuildWheel \/ BuildSdist \/ CleanDist \/ \E v \in Versions : WriteInventory(v)
           \/ StartGate \/ EndGate \/ Tag
    PROVE  TypeInv'
<1> USE ConstantFacts
<1>1. ASSUME NEW edited \in Edits \cup {tree}, Commit(edited)
      PROVE  TypeInv'
  <2>1. edited \in TreeType /\ edited.head = tree.head
    <3>1. ASSUME NEW v \in Versions
          PROVE  /\ [tree EXCEPT !.project = v, !.module = v, !.notes = @ \cup {v}] \in TreeType
                 /\ [tree EXCEPT !.module = v] \in TreeType
      BY DEF TypeInv, TreeType
    <3>2. \A v \in {None, tree.project} : [tree EXCEPT !.cli = v] \in TreeType
      BY DEF TypeInv, TreeType
    <3>3. tree \in TreeType
      BY DEF TypeInv
    <3>4. edited \in TreeType
      BY <1>1, <3>1, <3>2, <3>3 DEF Edits
    <3>5. edited.head = tree.head
      BY <1>1, <3>3 DEF Edits, TreeType
    <3> QED BY <3>4, <3>5
  <2>2. tree' = [edited EXCEPT !.head = @ + 1] /\ Used("changes", MaxChanges)
    BY <1>1 DEF Commit
  <2>3. tree' \in TreeType /\ tree'.head = tree.head + 1
    BY <2>1, <2>2 DEF TreeType
  <2>4. gating \in {None} \cup 1 .. tree'.head
    BY <2>3 DEF TypeInv, TreeType
  <2>5. tags \in [Versions -> {None} \cup 1 .. tree'.head]
    <3>1. {None} \cup 1 .. tree.head \subseteq {None} \cup 1 .. tree'.head
      BY <2>3 DEF TypeInv, TreeType
    <3> QED BY <3>1 DEF TypeInv
  <2> QED BY <1>1, <2>2, <2>3, <2>4, <2>5, UsedType DEF Commit, TypeInv
<1>2. ASSUME BuildWheel \/ BuildSdist \/ CleanDist \/ \E v \in Versions : WriteInventory(v)
      PROVE  TypeInv'
  <2>1. dist' \in DistType
    <3>1. tree.project \in Versions /\ Bytes \in Nat /\ dist \in DistType
      BY DEF TypeInv, TreeType, Bytes
    <3>2. CASE BuildWheel \/ BuildSdist
      BY <3>1, <3>2 DEF BuildWheel, BuildSdist, Build, DistType
    <3>3. CASE CleanDist
      BY <3>3 DEF CleanDist, Build, EmptyDist, DistType
    <3>4. CASE \E v \in Versions : WriteInventory(v)
      BY <3>1, <3>4 DEF WriteInventory, Build, DistType
    <3> QED BY <1>2, <3>2, <3>3, <3>4
  <2>2. /\ Used("changes", MaxChanges)
        /\ UNCHANGED <<tree, gates, gating, tags, creator, approver, history>>
    BY <1>2 DEF BuildWheel, BuildSdist, CleanDist, WriteInventory, Build
  <2> QED BY <2>1, <2>2, UsedType DEF TypeInv
<1>3. ASSUME StartGate
      PROVE  TypeInv'
  <2>1. tree.head \in 1 .. tree.head
    BY DEF TypeInv, TreeType
  <2> QED BY <1>3, <2>1, UsedType DEF StartGate, TypeInv
<1>4. ASSUME EndGate
      PROVE  TypeInv'
  <2>1. PICK outcome \in {"pass", "fail"} :
          gates' = Append(gates, [commit |-> gating, after |-> tree.head, outcome |-> outcome])
    BY <1>4 DEF EndGate
  <2>2. [commit |-> gating, after |-> tree.head, outcome |-> outcome] \in Gate
    BY <1>4 DEF EndGate, TypeInv, TreeType, Gate
  <2>3. gates' \in Seq(Gate) /\ DOMAIN gates \subseteq DOMAIN gates'
    BY <2>1, <2>2 DEF TypeInv
  <2> QED BY <1>4, <2>3 DEF EndGate, TypeInv
<1>5. ASSUME Tag
      PROVE  TypeInv'
  <2>1. tags' \in [Versions -> {None} \cup 1 .. tree.head]
    BY <1>5 DEF Tag, TypeInv, TreeType
  <2> QED BY <1>5, <2>1, UsedType DEF Tag, TypeInv
<1> QED BY <1>1, <1>2, <1>3, <1>4, <1>5

\* What is done to the record.
LEMMA RecordStepsKeepType ==
    ASSUME TypeInv,
           \/ EditRecord \/ EndCreate
           \/ \E v \in Versions, g \in DOMAIN gates : BeginCreate(v, g)
           \/ \E r \in Reviewers : BeginApprove(r) \/ EndApprove(r)
    PROVE  TypeInv'
<1> USE ConstantFacts
<1>1. CASE EditRecord
  BY <1>1, UsedType DEF EditRecord, TypeInv
<1>2. CASE EndCreate
  <2>1. history' = [approvals |-> history'.approvals, made |-> history'.made]
    BY <1>2 DEF EndCreate, TypeInv
  <2> QED BY <1>2, <2>1 DEF EndCreate, TypeInv
<1>3. CASE \E v \in Versions, g \in DOMAIN gates : BeginCreate(v, g)
  BY <1>3, UsedType DEF BeginCreate, TypeInv
<1>4. ASSUME NEW r \in Reviewers, BeginApprove(r)
      PROVE  TypeInv'
  <2>1. approver' = [q \in Reviewers |-> approver'[q]]
    BY <1>4 DEF BeginApprove, TypeInv
  <2> QED BY <1>4, <2>1, UsedType DEF BeginApprove, TypeInv
<1>5. ASSUME NEW r \in Reviewers, EndApprove(r)
      PROVE  TypeInv'
  <2>1. approver' = [q \in Reviewers |-> approver'[q]]
    BY <1>5 DEF EndApprove, TypeInv
  <2>2. history' = [approvals |-> history'.approvals, made |-> history'.made]
    BY <1>5 DEF EndApprove, TypeInv
  <2> QED BY <1>5, <2>1, <2>2 DEF EndApprove, TypeInv
<1> QED BY <1>1, <1>2, <1>3, <1>4, <1>5

-----------------------------------------------------------------------------
(* The records. *)

\* What `create` writes, and what `approve` makes of what it has read.
LEMMA CreatedIsRecord ==
    ASSUME NEW v \in Versions, NEW gate
    PROVE  RecordOK(RecordOf(Body(v, gate), Pending))
  BY DEF RecordOK, RecordOf, Body, Pending, Approval

LEMMA ApprovedIsRecord ==
    ASSUME NEW old, RecordOK(old), NEW r \in Reviewers, NEW decision \in {"approve", "reject"}
    PROVE  /\ RecordOK(Approved(old, r, decision))
           /\ Approved(old, r, decision).approval.status = decision
           /\ Reviewed(Approved(old, r, decision).approval.digest) = Reviewed(old.body)
<1> DEFINE archived == IF old.approval.status = "pending" THEN old.body.history
                       ELSE Append(old.body.history, old.approval)
           body == [old.body EXCEPT !.history = archived]
           new == Approved(old, r, decision)
<1>1. /\ new.body = body /\ new.digest = body
      /\ new.approval = [status |-> decision, reviewer |-> r, digest |-> body]
      /\ new = [body |-> new.body, approval |-> new.approval, digest |-> new.digest]
  BY DEF Approved, RecordOf
<1>2. DOMAIN body = DOMAIN old.body /\ body.version = old.body.version
  BY DEF RecordOK
<1>3. Reviewed(body) = Reviewed(old.body)
  BY DEF Reviewed
<1> HIDE DEF new, body
<1>4. RecordOK(new)
  BY <1>1, <1>2 DEF RecordOK, Approval
<1> QED BY <1>1, <1>3, <1>4 DEF new

LEMMA RecordsStep ==
    ASSUME TypeInv, RecordsOK, Next
    PROVE  RecordsOK'
<1> USE ConstantFacts
<1>1. CASE UNCHANGED <<record, approver>>
  BY <1>1 DEF RecordsOK, RecordOK, Recorded
<1>2. CASE EditRecord
  <2>1. PICK body :
          /\ record' = [record EXCEPT !.body = body]
          /\ DOMAIN body = DOMAIN record.body /\ body.version = record.body.version
    <3>1. RecordOK(record)
      BY <1>2 DEF EditRecord, RecordsOK
    <3> QED BY <1>2, <3>1 DEF EditRecord, RecordOK
  <2>2. RecordOK(record) /\ UNCHANGED approver
    BY <1>2 DEF EditRecord, RecordsOK
  <2>3. RecordOK(record')
    BY <2>1, <2>2 DEF RecordOK
  <2> QED BY <2>2, <2>3 DEF RecordsOK, RecordOK
<1>3. CASE EndCreate
  <2>1. creator.version \in Versions
    BY <1>3 DEF EndCreate, TypeInv
  <2>2. \/ record' = record
        \/ record' = Torn
        \/ record' = RecordOf(Body(creator.version, creator.gate), Pending)
    BY <1>3 DEF EndCreate
  <2>3. record' \notin {None, Torn} => RecordOK(record')
    BY <2>1, <2>2, CreatedIsRecord DEF RecordsOK, Recorded
  <2> QED BY <1>3, <2>3 DEF EndCreate, RecordsOK, RecordOK, Recorded
<1>4. ASSUME NEW r \in Reviewers, BeginApprove(r)
      PROVE  RecordsOK'
  <2>1. RecordOK(record) /\ record' = record /\ approver' = [approver EXCEPT ![r] = record]
    BY <1>4 DEF BeginApprove, RecordsOK
  <2>2. \A q \in Reviewers : approver'[q] = approver[q] \/ approver'[q] = record
    BY <2>1 DEF TypeInv
  <2>3. \A q \in Reviewers : approver'[q] # None => RecordOK(approver'[q])
    BY <2>1, <2>2 DEF RecordsOK
  <2> QED BY <2>1, <2>3 DEF RecordsOK, RecordOK, Recorded
<1>5. ASSUME NEW r \in Reviewers, EndApprove(r)
      PROVE  RecordsOK'
  <2>1. RecordOK(approver[r]) /\ approver' = [approver EXCEPT ![r] = None]
    BY <1>5 DEF EndApprove, RecordsOK
  <2>2. \/ record' = Torn
        \/ \E decision \in {"approve", "reject"} : record' = Approved(approver[r], r, decision)
    BY <1>5 DEF EndApprove
  <2>3. record' \notin {None, Torn} => RecordOK(record')
    BY <2>1, <2>2, ApprovedIsRecord
  <2>4. \A q \in Reviewers : approver'[q] = approver[q] \/ approver'[q] = None
    BY <2>1 DEF TypeInv
  <2>5. \A q \in Reviewers : approver'[q] # None => RecordOK(approver'[q])
    BY <2>4 DEF RecordsOK
  <2> QED BY <2>3, <2>5 DEF RecordsOK, RecordOK, Recorded
<1>6. CASE \/ \E edited \in Edits \cup {tree} : Commit(edited)
           \/ BuildWheel \/ BuildSdist \/ CleanDist \/ \E v \in Versions : WriteInventory(v)
           \/ StartGate \/ EndGate \/ Tag
           \/ \E v \in Versions, g \in DOMAIN gates : BeginCreate(v, g)
  <2>1. UNCHANGED <<record, approver>>
    BY <1>6 DEF Commit, BuildWheel, BuildSdist, CleanDist, WriteInventory, Build, StartGate,
      EndGate, Tag, BeginCreate
  <2> QED BY <1>1, <2>1
<1> QED BY <1>2, <1>3, <1>4, <1>5, <1>6 DEF Next

-----------------------------------------------------------------------------
(* The gates and the wheels. *)

LEMMA GatesOnlyGrow ==
    ASSUME TypeInv, Next, NEW g \in DOMAIN gates
    PROVE  g \in DOMAIN gates' /\ gates'[g] = gates[g]
<1>1. CASE EndGate
  <2>1. PICK e : gates' = Append(gates, e)
    BY <1>1 DEF EndGate
  <2>2. gates \in Seq(Gate)
    BY DEF TypeInv
  <2> QED BY <2>1, <2>2
<1>2. CASE gates' = gates
  BY <1>2
<1> QED BY <1>1, <1>2 DEF Next, Commit, BuildWheel, BuildSdist, CleanDist, WriteInventory, Build,
          StartGate, Tag, EditRecord, BeginCreate, EndCreate, BeginApprove, EndApprove

LEMMA CreatorStep ==
    ASSUME TypeInv, CreatorOK, Next
    PROVE  CreatorOK'
<1> USE ConstantFacts
<1>1. CASE UNCHANGED creator
  <2>1. creator # None => creator.gate \in DOMAIN gates
    BY DEF TypeInv
  <2> QED BY <1>1, <2>1, GatesOnlyGrow DEF CreatorOK, GateHolds
<1>2. ASSUME NEW v \in Versions, NEW g \in DOMAIN gates, BeginCreate(v, g)
      PROVE  CreatorOK'
  BY <1>2, GatesOnlyGrow DEF BeginCreate, CreatorOK, GateHolds
<1>3. CASE EndCreate
  BY <1>3 DEF EndCreate, CreatorOK
<1> QED BY <1>1, <1>2, <1>3 DEF Next, Commit, BuildWheel, BuildSdist, CleanDist, WriteInventory,
          Build, StartGate, EndGate, Tag, EditRecord, BeginApprove, EndApprove

LEMMA WheelsStep ==
    ASSUME TypeInv, WheelsOK, Next
    PROVE  WheelsOK'
<1> USE ConstantFacts
<1>1. bounds'.changes \in Nat /\ bounds.changes \in Nat /\ bounds'.changes >= bounds.changes
  <2>1. CASE \E b \in {"changes", "creates", "reviews"}, max \in Nat : Used(b, max)
    BY <2>1, UsedType DEF TypeInv
  <2>2. CASE bounds' = bounds
    BY <2>2 DEF TypeInv
  <2>3. MaxChanges \in Nat /\ MaxCreates \in Nat /\ MaxReviews \in Nat
    BY ReleaseAssumption
  <2> QED BY <2>1, <2>2, <2>3 DEF Next, Commit, BuildWheel, BuildSdist, CleanDist, WriteInventory,
            Build, StartGate, EndGate, Tag, EditRecord, BeginCreate, EndCreate, BeginApprove,
            EndApprove
<1>2. /\ \A v \in Versions : dist.wheel[v] \in {None} \cup Nat
      /\ dist.inventory \in {None} \cup [version : Versions, wheel : Nat]
      /\ dist = [wheel |-> dist.wheel, sdist |-> dist.sdist, inventory |-> dist.inventory]
      /\ dist.wheel = [v \in Versions |-> dist.wheel[v]]
  BY DEF TypeInv, DistType
<1>3. CASE UNCHANGED dist
  <2>1. \A v \in Versions : dist.wheel[v] # None => dist.wheel[v] <= bounds'.changes
    BY <1>1, <1>2 DEF WheelsOK
  <2>2. dist.inventory # None => dist.inventory.wheel <= bounds'.changes
    BY <1>1, <1>2 DEF WheelsOK
  <2> QED BY <1>3, <2>1, <2>2 DEF WheelsOK
<1>4. CASE BuildWheel
  <2>1. /\ dist'.inventory = dist.inventory /\ bounds'.changes = bounds.changes + 1
        /\ \A v \in Versions : dist'.wheel[v] =
                                 IF v = tree.project THEN bounds.changes + 1 ELSE dist.wheel[v]
    BY <1>2, <1>4, UsedType DEF BuildWheel, Build, Bytes
  <2>2. \A v \in Versions : dist.wheel[v] # bounds.changes + 1
    BY <1>1, <1>2 DEF WheelsOK
  <2>3. \A v \in Versions : dist'.wheel[v] # None => dist'.wheel[v] <= bounds'.changes
    BY <1>1, <1>2, <2>1 DEF WheelsOK
  <2>4. \A v, w \in Versions : dist'.wheel[v] # None /\ dist'.wheel[v] = dist'.wheel[w] => v = w
    BY <2>1, <2>2 DEF WheelsOK
  <2>5. dist.inventory # None => dist.inventory.wheel # bounds.changes + 1
    BY <1>1, <1>2 DEF WheelsOK
  <2>6. dist'.inventory # None =>
          /\ dist'.inventory.wheel <= bounds'.changes
          /\ \A v \in Versions : dist'.wheel[v] = dist'.inventory.wheel
                                  => v = dist'.inventory.version
    BY <1>1, <1>2, <2>1, <2>5 DEF WheelsOK
  <2> QED BY <2>3, <2>4, <2>6 DEF WheelsOK
<1>5. CASE BuildSdist
  <2>1. dist'.inventory = dist.inventory /\ dist'.wheel = dist.wheel
    BY <1>2, <1>5 DEF BuildSdist, Build
  <2>2. \A v \in Versions : dist.wheel[v] # None => dist.wheel[v] <= bounds'.changes
    BY <1>1, <1>2 DEF WheelsOK
  <2>3. dist.inventory # None => dist.inventory.wheel <= bounds'.changes
    BY <1>1, <1>2 DEF WheelsOK
  <2> QED BY <2>1, <2>2, <2>3 DEF WheelsOK
<1>6. ASSUME NEW v \in Versions, WriteInventory(v)
      PROVE  WheelsOK'
  <2>1. /\ dist'.wheel = dist.wheel /\ dist.wheel[v] # None
        /\ dist'.inventory = [version |-> v, wheel |-> dist.wheel[v]]
    BY <1>2, <1>6 DEF WriteInventory, Build
  <2>2. \A w \in Versions : dist.wheel[w] # None => dist.wheel[w] <= bounds'.changes
    BY <1>1, <1>2 DEF WheelsOK
  <2>3. \A w \in Versions : dist.wheel[w] = dist.wheel[v] => w = v
    BY <2>1 DEF WheelsOK
  <2> QED BY <2>1, <2>2, <2>3 DEF WheelsOK
<1>7. CASE CleanDist
  BY <1>7 DEF CleanDist, Build, EmptyDist, WheelsOK
<1> QED BY <1>3, <1>4, <1>5, <1>6, <1>7 DEF Next, Commit, StartGate, EndGate, Tag, EditRecord,
          BeginCreate, EndCreate, BeginApprove, EndApprove

-----------------------------------------------------------------------------
(* What was made, and what was decided. *)

LEMMA Rearchived ==
    ASSUME NEW version, NEW made, NEW old, NEW archived
    PROVE  [MadeBody(version, made, old) EXCEPT !.history = archived]
             = MadeBody(version, made, archived)
<1>1. ASSUME NEW yes, NEW no, NEW commit, NEW artifacts
      PROVE  [[ schema |-> yes, version |-> version, tag |-> version, commit |-> commit,
                artifacts |-> artifacts, history |-> old, signed |-> no,
                limitations |-> yes ] EXCEPT !.history = archived]
               = [ schema |-> yes, version |-> version, tag |-> version, commit |-> commit,
                   artifacts |-> artifacts, history |-> archived, signed |-> no,
                   limitations |-> yes ]
  OBVIOUS
<1> QED BY <1>1, Zenon DEF MadeBody

LEMMA MadeStep ==
    ASSUME TypeInv, RecordsOK, CreatorOK, MadeOK, Next
    PROVE  MadeOK'
<1> USE ConstantFacts
<1>1. \A g \in DOMAIN gates : g \in DOMAIN gates' /\ gates'[g] = gates[g]
  BY GatesOnlyGrow
<1>2. history = [approvals |-> history.approvals, made |-> history.made]
  BY DEF TypeInv
<1>3. CASE UNCHANGED <<record, history>>
  BY <1>1, <1>3 DEF MadeOK, MadeBody, GateHolds, NoneMissing
<1>4. CASE EditRecord
  BY <1>2, <1>4 DEF EditRecord, MadeOK
<1>5. CASE EndCreate
  <2>1. /\ creator.version \in Versions /\ creator.gate \in DOMAIN gates
        /\ GateHolds(gates[creator.gate]) /\ UNCHANGED gates
    BY <1>5 DEF EndCreate, TypeInv, CreatorOK
  <2>2. CASE ~NoneMissing(Files(creator.version))
    BY <1>3, <1>5, <2>2 DEF EndCreate
  <2>3. CASE record' = Torn /\ history' = [history EXCEPT !.made = None]
    BY <1>2, <2>3 DEF MadeOK
  <2>4. CASE /\ NoneMissing(Files(creator.version))
             /\ record' = RecordOf(Body(creator.version, creator.gate), Pending)
             /\ history' = [history EXCEPT
                  !.made = [files |-> Files(creator.version), gate |-> creator.gate]]
    <3>1. history'.made = [files |-> Files(creator.version), gate |-> creator.gate]
      BY <1>2, <2>4
    <3>2. DOMAIN Files(creator.version) = {"wheel", "sdist", "inventory"}
      BY DEF Files
    <3>3. /\ record'.body = Body(creator.version, creator.gate)
          /\ record'.digest = record'.body /\ record'.approval.status = "pending"
      BY <2>4 DEF RecordOf, Pending
    <3>4. /\ record'.body.version = creator.version /\ record'.body.history = << >>
          /\ record'.body = MadeBody(creator.version, history'.made, << >>)
      BY <3>1, <3>3 DEF Body, MadeBody
    <3>5. record'.body = MadeBody(record.body.version, history.made, record.body.history)'
      BY <2>1, <3>4 DEF MadeBody
    <3> QED BY <2>1, <2>4, <3>1, <3>2, <3>3, <3>4, <3>5 DEF MadeOK, GateHolds, NoneMissing, MadeBody
  <2> QED BY <1>5, <2>2, <2>3, <2>4 DEF EndCreate
<1>6. ASSUME NEW r \in Reviewers, EndApprove(r)
      PROVE  MadeOK'
  <2> SUFFICES ASSUME history'.made # None
               PROVE  MadeOK'
    BY DEF MadeOK
  <2>1. PICK decision \in {"approve", "reject"} :
          /\ record' = Approved(approver[r], r, decision)
          /\ history'.made = IF record # approver[r] THEN None ELSE history.made
    BY <1>2, <1>6 DEF EndApprove
  <2>2. /\ approver[r] = record /\ history'.made = history.made /\ history.made # None
        /\ gates' = gates
    BY <1>6, <2>1 DEF EndApprove
  <2> DEFINE archived == IF record.approval.status = "pending" THEN record.body.history
                         ELSE Append(record.body.history, record.approval)
             body == [record.body EXCEPT !.history = archived]
  <2>3. PICK new : new = archived
    OBVIOUS
  <2>4. /\ record'.body = [record.body EXCEPT !.history = new]
        /\ record'.digest = record'.body /\ record'.approval.digest = record'.digest
    BY <2>1, <2>2, <2>3 DEF Approved, RecordOf
  <2>5. /\ record.body = MadeBody(record.body.version, history.made, record.body.history)
        /\ record.body.version \in Versions
    BY <2>2 DEF MadeOK
  <2>6. /\ record'.body = MadeBody(record.body.version, history.made, new)
        /\ record'.body.history = new /\ record'.body.version = record.body.version
    BY <2>4, <2>5, Rearchived DEF MadeBody
  <2>7. record'.body = MadeBody(record.body.version, history.made, record.body.history)'
    BY <2>2, <2>6 DEF MadeBody
  <2> HIDE DEF archived, body
  <2> QED BY <2>2, <2>4, <2>5, <2>6, <2>7 DEF MadeOK, GateHolds, NoneMissing, MadeBody
<1> QED BY <1>3, <1>4, <1>5, <1>6 DEF Next, Commit, BuildWheel, BuildSdist, CleanDist,
          WriteInventory, Build, StartGate, EndGate, Tag, BeginCreate, BeginApprove

LEMMA DecisionsStep ==
    ASSUME TypeInv, RecordsOK, DecisionsOK, Next
    PROVE  DecisionsOK'
<1> USE ConstantFacts
<1>1. history = [approvals |-> history.approvals, made |-> history.made]
  BY DEF TypeInv
<1>2. CASE UNCHANGED <<record, history>>
  BY <1>2 DEF DecisionsOK, Recorded, Reviewed
<1>3. CASE EditRecord
  <2>1. RecordOK(record) /\ Recorded
    BY <1>3 DEF EditRecord, RecordsOK
  <2>2. record'.approval = record.approval
    BY <1>3, <2>1 DEF EditRecord, RecordOK
  <2>3. history'.approvals = history.approvals
    BY <1>1, <1>3 DEF EditRecord
  <2> QED BY <2>1, <2>2, <2>3 DEF DecisionsOK, Reviewed
<1>4. CASE EndCreate
  <2>1. \/ UNCHANGED <<record, history>>
        \/ record' = Torn
        \/ record' = RecordOf(Body(creator.version, creator.gate), Pending)
    BY <1>4 DEF EndCreate
  <2> QED BY <1>2, <2>1 DEF DecisionsOK, Recorded, RecordOf, Pending
<1>5. ASSUME NEW r \in Reviewers, EndApprove(r)
      PROVE  DecisionsOK'
  <2>1. RecordOK(approver[r])
    BY <1>5 DEF EndApprove, RecordsOK
  <2>2. CASE record' = Torn
    BY <2>2 DEF DecisionsOK, Recorded
  <2>3. ASSUME NEW decision \in {"approve", "reject"},
               record' = Approved(approver[r], r, decision),
               history'.approvals = history.approvals \cup
                 {[reviewer |-> r, decision |-> decision, body |-> approver[r].body]}
        PROVE  DecisionsOK'
    <3>1. PICK a : a = [reviewer |-> r, decision |-> decision, body |-> approver[r].body]
      OBVIOUS
    <3>2. a \in history'.approvals /\ a.decision = decision /\ a.body = approver[r].body
      BY <2>3, <3>1
    <3>3. /\ record'.approval.status = decision
          /\ Reviewed(record'.approval.digest) = Reviewed(approver[r].body)
      BY <2>1, <2>3, ApprovedIsRecord
    <3> QED BY <3>2, <3>3 DEF DecisionsOK, Reviewed
  <2> QED BY <1>5, <2>2, <2>3 DEF EndApprove
<1> QED BY <1>2, <1>3, <1>4, <1>5 DEF Next, Commit, BuildWheel, BuildSdist, CleanDist,
          WriteInventory, Build, StartGate, EndGate, Tag, BeginCreate, BeginApprove

LEMMA InvStep == ReleaseInv /\ [Next]_vars => ReleaseInv'
<1> SUFFICES ASSUME ReleaseInv, [Next]_vars
             PROVE  ReleaseInv'
  OBVIOUS
<1>1. CASE Next
  <2>1. TypeInv'
    BY <1>1, PeopleKeepType, RecordStepsKeepType DEF ReleaseInv, Next
  <2> QED BY <1>1, <2>1, RecordsStep, CreatorStep, WheelsStep, MadeStep, DecisionsStep DEF ReleaseInv
<1>2. CASE UNCHANGED vars
  BY <1>2 DEF vars, ReleaseInv, TypeInv, RecordsOK, RecordOK, Recorded, CreatorOK, GateHolds,
     WheelsOK, MadeOK, MadeBody, NoneMissing, DecisionsOK, Reviewed
<1> QED BY <1>1, <1>2

LEMMA InvAlways == Spec => []ReleaseInv
<1> QED BY InvInit, InvStep, PTL DEF Spec

-----------------------------------------------------------------------------
(* What `verify` says. *)

CheckNames == {"schema", "record_digest", "approval_binding", "approval_required",
               "artifacts_hashed", "inventory_binding", "signature_status", "limitations", "tag"}

LEMMA VerifyPasses ==
    ASSUME NEW asked, Verify(asked) = "pass"
    PROVE  /\ Recorded
           /\ record.digest = record.body
           /\ record.approval.status # "pending" => record.approval.digest = record.digest
           /\ asked.approved => record.approval.status = "approve"
           /\ asked.dist /\ asked.evidence # 0 => ArtifactsHashed(asked) = "pass"
           /\ asked.dist => InventoryBinding(asked) = "pass"
           /\ asked.tag => TagCheck(asked) = "pass"
<1>1. Recorded /\ OverallStatus(Checks(asked), NotRequested(asked)) = "pass"
  BY DEF Verify
<1>2. DOMAIN Checks(asked) = CheckNames
  BY DEF Checks, CheckNames
<1>3. /\ \A c \in CheckNames : Checks(asked)[c] # "fail"
      /\ \A c \in CheckNames \ NotRequested(asked) : Checks(asked)[c] # "not_checked"
  BY <1>1, <1>2 DEF OverallStatus
<1>4. /\ DigestCheck # "fail" /\ ApprovalBinding # "fail" /\ ApprovalRequired(asked) # "fail"
      /\ ArtifactsHashed(asked) # "fail" /\ InventoryBinding(asked) # "fail"
      /\ TagCheck(asked) # "fail"
  BY <1>3 DEF Checks, CheckNames
<1>5. /\ asked.dist /\ asked.evidence # 0 => ArtifactsHashed(asked) # "not_checked"
      /\ asked.dist => InventoryBinding(asked) # "not_checked"
      /\ asked.tag => TagCheck(asked) # "not_checked"
  BY <1>3 DEF Checks, CheckNames, NotRequested
<1>6. /\ ArtifactsHashed(asked) \in {"pass", "fail", "not_checked"}
      /\ InventoryBinding(asked) \in {"pass", "fail", "not_checked"}
      /\ TagCheck(asked) \in {"pass", "fail", "not_checked"}
  BY DEF ArtifactsHashed, InventoryBinding, TagCheck, When
<1> QED BY <1>1, <1>4, <1>5, <1>6 DEF DigestCheck, ApprovalBinding, ApprovalRequired, When

LEMMA ArtifactsOf ==
    ASSUME NEW files, DOMAIN files = {"wheel", "sdist", "inventory"}, NEW gate
    PROVE  /\ DOMAIN WithGate(files, gate) = {"wheel", "sdist", "inventory", "gate"}
           /\ WithGate(files, gate).wheel = files.wheel
           /\ WithGate(files, gate).sdist = files.sdist
           /\ WithGate(files, gate).inventory = files.inventory
           /\ WithGate(files, gate).gate = gate
  BY DEF WithGate

-----------------------------------------------------------------------------
(* The theorems. *)

\* The record is whole, torn or not there, and what a command has in hand is what
\* such commands read.
THEOREM TypeCorrect == Spec => []TypeOK
<1>1. ReleaseInv => TypeOK
  BY DEF ReleaseInv, TypeInv, TypeOK, TreeType, RecordsOK, RecordOK, Approval
<1> QED BY <1>1, InvAlways, PTL

\* Whatever reviewers, `create` and editors do and in whatever order, a record
\* that verifies as approved was approved with this body (release_record.py:688-769).
THEOREM ApprovalsAreOfTheRecord == Spec => []ApprovedIsReviewed
<1>1. ASSUME ReleaseInv, NEW asked \in Asked, asked.approved, Verify(asked) = "pass"
      PROVE  \E a \in history.approvals :
               a.decision = "approve" /\ Reviewed(a.body) = Reviewed(record.body)
  <2>1. /\ Recorded /\ record.approval.status = "approve"
        /\ record.approval.digest = record.body
    BY <1>1, VerifyPasses
  <2> QED BY <1>1, <2>1 DEF ReleaseInv, DecisionsOK
<1>2. ReleaseInv => ApprovedIsReviewed
  BY <1>1 DEF ApprovedIsReviewed
<1> QED BY <1>2, InvAlways, PTL

\* A release that verifies in full is one thing: one commit, tagged, gated and
\* recorded, and the wheel that is inventoried (release_record.py:751-1016, 1236-1290).
THEOREM VerifiedReleaseIsWhole == Spec => []ReleaseIsWhole
<1> USE ConstantFacts
<1>1. ASSUME ReleaseInv, NEW asked \in Asked,
             asked.dist, asked.evidence # 0, asked.tag, asked.git = "here",
             Verify(asked) = "pass", CheckIdentity(TRUE) = "pass",
             record.body.tag = tree.project, history.made # None
      PROVE  LET v == record.body.version  gate == gates[asked.evidence]
             IN  /\ dist.inventory = [version |-> v, wheel |-> dist.wheel[v]]
                 /\ gate.commit = tree.head /\ gate.after = tree.head /\ gate.outcome = "pass"
                 /\ record.body.commit = tree.head /\ tags[v] = tree.head
  <2> DEFINE v == record.body.version
             made == history.made
             found == WithGate(Files(v), gates[asked.evidence])
             artifacts == WithGate(made.files, gates[made.gate])
  <2>1. /\ ArtifactsHashed(asked) = "pass" /\ InventoryBinding(asked) = "pass"
        /\ TagCheck(asked) = "pass"
    BY <1>1, VerifyPasses
  <2>2. /\ GateHolds(gates[made.gate]) /\ v \in Versions
        /\ DOMAIN made.files = {"wheel", "sdist", "inventory"}
        /\ record.body = MadeBody(v, made, record.body.history)
    BY <1>1 DEF ReleaseInv, MadeOK
  <2>3. /\ record.body.artifacts = artifacts /\ record.body.tag = v
        /\ record.body.commit = gates[made.gate].commit
    <3>1. PICK archived : archived = record.body.history
      OBVIOUS
    <3>2. record.body = MadeBody(v, made, archived)
      BY <2>2, <3>1
    <3> HIDE DEF made
    <3> QED BY <3>2 DEF MadeBody
  <2>4. record.body.commit = tree.head /\ tags[v] = tree.head
    <3>1. tags[record.body.tag] = record.body.commit
      BY <1>1, <2>1 DEF TagCheck, When
    <3>2. TagAtHead(TRUE) # "fail"
      BY <1>1 DEF CheckIdentity, OverallStatus
    <3>3. tags[tree.project] = tree.head
      BY <3>2 DEF TagAtHead, When
    <3> QED BY <1>1, <2>3, <3>1, <3>3
  <2>5. LookedUp(asked) = found
    BY <1>1 DEF LookedUp
  <2>6. /\ DOMAIN found = {"wheel", "sdist", "inventory", "gate"}
        /\ found.wheel = dist.wheel[v] /\ found.inventory = dist.inventory
        /\ found.gate = gates[asked.evidence]
    BY ArtifactsOf DEF Files
  <2>7. /\ DOMAIN artifacts = {"wheel", "sdist", "inventory", "gate"}
        /\ artifacts.wheel = made.files.wheel /\ artifacts.gate = gates[made.gate]
    BY <2>2, ArtifactsOf
  <2> HIDE DEF found, artifacts
  <2>8. \A a \in DOMAIN found : found[a] # None /\ found[a] = record.body.artifacts[a]
    BY <2>1, <2>5 DEF ArtifactsHashed
  <2>9. /\ gates[asked.evidence] = gates[made.gate] /\ dist.inventory # None
        /\ dist.wheel[v] # None /\ dist.wheel[v] = record.body.artifacts.wheel
    BY <2>3, <2>6, <2>7, <2>8
  <2>10. dist.inventory.wheel = dist.wheel[v]
    BY <1>1, <2>1, <2>9 DEF InventoryBinding, When
  <2>11. dist.inventory.version = v
    BY <1>1, <2>2, <2>9, <2>10 DEF ReleaseInv, WheelsOK
  <2>12. dist.inventory = [version |-> v, wheel |-> dist.wheel[v]]
    BY <1>1, <2>9, <2>10, <2>11 DEF ReleaseInv, TypeInv, DistType
  <2> QED BY <2>2, <2>3, <2>4, <2>9, <2>12 DEF GateHolds
<1>2. ReleaseInv => ReleaseIsWhole
  BY <1>1 DEF ReleaseIsWhole
<1> QED BY <1>2, InvAlways, PTL

\* A record that only the commands have written never fails over files that were
\* not changed (release_record.py:478-538, 650-1016).
THEOREM NoFalseAlarm == Spec => []UntouchedVerifies
<1> USE ConstantFacts
<1>1. ASSUME ReleaseInv, Recorded, history.made # None, NEW asked \in Asked, ~asked.tag,
             asked.approved => record.approval.status = "approve",
             asked.dist => /\ Files(record.body.version) = history.made.files
                           /\ history.made.files.inventory.wheel = history.made.files.wheel,
             asked.evidence \in {0, history.made.gate}
      PROVE  Verify(asked) # "fail"
  <2> DEFINE v == record.body.version
             made == history.made
             artifacts == WithGate(made.files, gates[made.gate])
  <2>1. /\ made.gate \in DOMAIN gates /\ gates[made.gate] # None
        /\ DOMAIN made.files = {"wheel", "sdist", "inventory"} /\ NoneMissing(made.files)
        /\ record.body = MadeBody(v, made, record.body.history)
        /\ record.digest = record.body
        /\ record.approval.status # "pending" => record.approval.digest = record.digest
    BY <1>1 DEF ReleaseInv, TypeInv, MadeOK
  <2>2. /\ record.body.artifacts = artifacts /\ record.body.schema /\ ~record.body.signed
        /\ record.body.limitations
    <3>1. PICK archived : archived = record.body.history
      OBVIOUS
    <3>2. record.body = MadeBody(v, made, archived)
      BY <2>1, <3>1
    <3> HIDE DEF made
    <3> QED BY <3>2 DEF MadeBody
  <2>3. /\ DOMAIN artifacts = {"wheel", "sdist", "inventory", "gate"}
        /\ artifacts.wheel = made.files.wheel /\ artifacts.sdist = made.files.sdist
        /\ artifacts.inventory = made.files.inventory /\ artifacts.gate = gates[made.gate]
    BY <2>1, ArtifactsOf
  <2> HIDE DEF artifacts
  <2>4. /\ SchemaCheck # "fail" /\ DigestCheck # "fail" /\ ApprovalBinding # "fail"
        /\ ApprovalRequired(asked) # "fail" /\ SignatureStatus # "fail" /\ Limitations # "fail"
        /\ TagCheck(asked) # "fail"
    BY <1>1, <2>1, <2>2 DEF SchemaCheck, DigestCheck, ApprovalBinding, ApprovalRequired,
       SignatureStatus, Limitations, TagCheck, When
  <2>5. ArtifactsHashed(asked) # "fail"
    <3>1. \A a \in DOMAIN LookedUp(asked) :
            /\ LookedUp(asked)[a] # None
            /\ LookedUp(asked)[a] = artifacts[a]
      <4>1. \A f \in DOMAIN made.files : made.files[f] # None /\ made.files[f] = artifacts[f]
        BY <2>1, <2>3 DEF NoneMissing
      <4>2. asked.dist => LookedUp(asked) = IF asked.evidence = 0 THEN made.files
                                            ELSE WithGate(made.files, gates[made.gate])
        BY <1>1 DEF LookedUp
      <4>3. ~asked.dist => LookedUp(asked) = IF asked.evidence = 0 THEN << >>
                                             ELSE WithGate(<< >>, gates[made.gate])
        BY <1>1 DEF LookedUp
      <4>4. DOMAIN WithGate(<< >>, gates[made.gate]) = {"gate"}
        BY DEF WithGate
      <4>5. WithGate(<< >>, gates[made.gate])["gate"] = gates[made.gate]
        BY DEF WithGate
      <4>6. CASE asked.dist /\ asked.evidence = 0
        BY <4>1, <4>2, <4>6
      <4>7. CASE asked.dist /\ asked.evidence # 0
        BY <2>1, <2>3, <4>1, <4>2, <4>7 DEF artifacts
      <4>8. CASE ~asked.dist
        BY <2>1, <2>3, <4>3, <4>4, <4>5, <4>8
      <4> QED BY <4>6, <4>7, <4>8
    <3> QED BY <2>2, <3>1 DEF ArtifactsHashed
  <2>6. InventoryBinding(asked) # "fail"
    <3>1. Files(v).inventory = dist.inventory
      BY DEF Files
    <3> QED BY <1>1, <2>2, <2>3, <3>1 DEF InventoryBinding, When
  <2>7. \A c \in DOMAIN Checks(asked) : Checks(asked)[c] # "fail"
    BY <2>4, <2>5, <2>6 DEF Checks
  <2> QED BY <1>1, <2>7 DEF Verify, OverallStatus
<1>2. ReleaseInv => UntouchedVerifies
  BY <1>1 DEF UntouchedVerifies
<1> QED BY <1>2, InvAlways, PTL

=============================================================================
