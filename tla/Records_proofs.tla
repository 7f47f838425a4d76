--------------------------- MODULE Records_proofs ---------------------------
(***************************************************************************)
(* Proofs about Attestation and Records, for any directories, runs and     *)
(* contents, any number of attesters, and as many acts and commits as one  *)
(* likes.                                                                  *)
(***************************************************************************)
EXTENDS Records, SequenceTheorems, TLAPS

-----------------------------------------------------------------------------
(* Types. *)

Steps == {"look", "supersede", "write", "scan", "append", "return"}
CallType ==
  [pc : Steps, payload : Payloads, anchor : BOOLEAN, replace : BOOLEAN,
   old : Payloads \cup {None}, newline : BOOLEAN]
Files == {None} \cup Documents
CommitType == [att : [Runs -> Files], index : Seq(Payloads \cup {Broken}), touches : BOOLEAN]

AttTypeInv ==
  /\ pkg \in [Dirs -> [content : Contents, sealed : BOOLEAN]]
  /\ att \in [Runs -> Files]
  /\ sup \in [Payloads -> Files]
  /\ index \in Seq(Payloads \cup {Broken}) /\ torn \in BOOLEAN
  /\ commits \in Seq(CommitType) /\ commits # <<>>
  /\ call \in [Attesters -> {Idle} \cup CallType]
  /\ attested \subseteq Payloads

-----------------------------------------------------------------------------

LEMMA PayloadIs ==
  ASSUME AttTypeInv, NEW d \in Dirs
  PROVE  Payload(d) \in Payloads /\ Payload(d).run = RunOf(d) /\ RunOf(d) \in Runs
BY DEF AttTypeInv, Payload, Payloads, Runs

LEMMA CallIs ==
  ASSUME AttTypeInv, NEW a \in Attesters, call[a].pc # "idle"
  PROVE  call[a] \in CallType /\ call[a].payload \in Payloads /\ Here(a) \in Runs
<1>1. Idle.pc = "idle"
  BY DEF Idle
<1>2. call[a] \in CallType
  BY <1>1 DEF AttTypeInv
<1> QED BY <1>2 DEF CallType, Here, Payloads

\* A call that goes on to another step keeps the rest of its record.
LEMMA GotoIs ==
  ASSUME AttTypeInv, NEW a \in Attesters, call[a].pc # "idle", NEW step \in Steps,
         Goto(a, step)
  PROVE  /\ call' \in [Attesters -> {Idle} \cup CallType]
         /\ call'[a].pc = step /\ call'[a].payload = call[a].payload
         /\ call'[a].old = call[a].old
         /\ \A b \in Attesters \ {a} : call'[b] = call[b]
<1>1. call[a] \in CallType
  BY CallIs
<1>2. [call[a] EXCEPT !.pc = step] \in CallType
  BY <1>1 DEF CallType
<1>3. call' = [call EXCEPT ![a] = [call[a] EXCEPT !.pc = step]]
  BY DEF Goto
<1> QED BY <1>1, <1>2, <1>3 DEF AttTypeInv, CallType

LEMMA EndIs ==
  ASSUME AttTypeInv, NEW a \in Attesters, End(a)
  PROVE  /\ call' \in [Attesters -> {Idle} \cup CallType]
         /\ call'[a] = Idle
         /\ \A b \in Attesters \ {a} : call'[b] = call[b]
BY DEF End, AttTypeInv

LEMMA AttestIs ==
  ASSUME AttTypeInv, NEW a \in Attesters, NEW d \in Dirs, NEW anchor \in BOOLEAN,
         NEW replace \in BOOLEAN, Attest(a, d, anchor, replace)
  PROVE  /\ call' \in [Attesters -> {Idle} \cup CallType]
         /\ call'[a].pc = "look" /\ call'[a].payload = Payload(d) /\ RunOf(d) \in Serves(a)
         /\ \A b \in Attesters \ {a} : call'[b] = call[b]
<1>1. PICK no \in BOOLEAN : no = FALSE
  OBVIOUS
<1>2. call' = [call EXCEPT ![a] = [pc |-> "look", payload |-> Payload(d), anchor |-> anchor,
                                   replace |-> replace, old |-> None, newline |-> no]]
  BY <1>1 DEF Attest
<1>3. [pc |-> "look", payload |-> Payload(d), anchor |-> anchor,
       replace |-> replace, old |-> None, newline |-> no] \in CallType
  BY PayloadIs DEF CallType, Steps
<1>4. RunOf(d) \in Serves(a)
  BY DEF Attest
<1> QED BY <1>2, <1>3, <1>4 DEF AttTypeInv

\* The document that another one replaces is remembered.
LEMMA LookSupersedes ==
  ASSUME AttTypeInv, NEW a \in Attesters, call[a].pc # "idle", att[Here(a)] # None,
         call' = [call EXCEPT ![a].pc = "supersede", ![a].old = att[Here(a)].payload]
  PROVE  /\ call' \in [Attesters -> {Idle} \cup CallType]
         /\ call'[a].pc = "supersede" /\ call'[a].payload = call[a].payload
         /\ call'[a].old = att[Here(a)].payload
         /\ \A b \in Attesters \ {a} : call'[b] = call[b]
<1>1. call[a] \in CallType /\ Here(a) \in Runs
  BY CallIs
<1>2. att[Here(a)].payload \in Payloads
  BY <1>1 DEF AttTypeInv, Files, Documents
<1>3. [call[a] EXCEPT !.pc = "supersede", !.old = att[Here(a)].payload] \in CallType
  BY <1>1, <1>2 DEF CallType, Steps
<1>4. call' = [call EXCEPT ![a] = [call[a] EXCEPT !.pc = "supersede", !.old = att[Here(a)].payload]]
  BY DEF AttTypeInv
<1> QED BY <1>1, <1>3, <1>4 DEF AttTypeInv, CallType

LEMMA ScanAppends ==
  ASSUME AttTypeInv, NEW a \in Attesters, call[a].pc # "idle",
         call' = [call EXCEPT ![a].pc = "append", ![a].newline = torn]
  PROVE  /\ call' \in [Attesters -> {Idle} \cup CallType]
         /\ call'[a].pc = "append" /\ call'[a].payload = call[a].payload
         /\ \A b \in Attesters \ {a} : call'[b] = call[b]
<1>1. call[a] \in CallType
  BY CallIs
<1>2. PICK t \in BOOLEAN : t = torn
  BY DEF AttTypeInv
<1>3. [call[a] EXCEPT !.pc = "append", !.newline = t] \in CallType
  BY <1>1 DEF CallType, Steps
<1>4. call' = [call EXCEPT ![a] = [call[a] EXCEPT !.pc = "append", !.newline = t]]
  BY <1>2 DEF AttTypeInv
<1> QED BY <1>1, <1>3, <1>4 DEF AttTypeInv, CallType

LEMMA AddedIs ==
  ASSUME AttTypeInv, NEW a, NEW line \in Payloads \cup {Broken}
  PROVE  Added(a, line) \in Seq(Payloads \cup {Broken})
BY DEF Added, AttTypeInv

-----------------------------------------------------------------------------
(* Types are kept by every action. *)

LEMMA TypeInit == RecordsInit => AttTypeInv
<1> SUFFICES ASSUME RecordsInit PROVE AttTypeInv
  OBVIOUS
<1>1. att \in [Runs -> Files] /\ sup \in [Payloads -> Files]
  BY DEF RecordsInit, AttInit, Files
<1>2. pkg \in [Dirs -> [content : Contents, sealed : BOOLEAN]]
  BY DEF RecordsInit, AttInit
<1>3. PICK no \in BOOLEAN : no = FALSE
  OBVIOUS
<1>4. commits = << [att |-> att, index |-> <<>>, touches |-> no] >>
  BY <1>3, Zenon DEF RecordsInit, AttInit
<1>5. [att |-> att, index |-> <<>>, touches |-> no] \in CommitType
  BY <1>1 DEF CommitType
<1>6. commits \in Seq(CommitType) /\ commits # <<>>
  BY <1>4, <1>5
<1>7. index \in Seq(Payloads \cup {Broken}) /\ attested \subseteq Payloads
  BY DEF RecordsInit, AttInit
<1>8. torn \in BOOLEAN
  BY DEF RecordsInit, AttInit
<1>9. call \in [Attesters -> {Idle} \cup CallType]
  BY DEF RecordsInit, AttInit
<1> QED BY <1>1, <1>2, <1>6, <1>7, <1>8, <1>9 DEF AttTypeInv

LEMMA TypeStep == AttTypeInv /\ [Next]_vars => AttTypeInv'
<1> SUFFICES ASSUME AttTypeInv, [Next]_vars PROVE AttTypeInv'
  OBVIOUS
<1> USE DEF files
<1>1. ASSUME NEW a \in Attesters, NEW d \in Dirs, NEW anchor \in BOOLEAN, NEW replace \in BOOLEAN,
             Attest(a, d, anchor, replace)
      PROVE  AttTypeInv'
  BY <1>1, AttestIs DEF Attest, AttTypeInv
<1>2. ASSUME NEW a \in Attesters, Look(a)
      PROVE  AttTypeInv'
  <2>1. call[a].pc # "idle" /\ UNCHANGED <<pkg, att, sup, index, torn, commits, attested>>
    BY <1>2 DEF Look
  <2>2. CASE LookFinds(a) = "conflict" /\ End(a)
    BY <2>1, <2>2, EndIs DEF AttTypeInv
  <2>3. CASE /\ LookFinds(a) = "supersede"
             /\ call' = [call EXCEPT ![a].pc = "supersede", ![a].old = att[Here(a)].payload]
    <3>1. att[Here(a)] # None
      BY <2>3 DEF LookFinds, AfterWrite
    <3> QED BY <2>1, <2>3, <3>1, LookSupersedes DEF AttTypeInv
  <2>4. CASE LookFinds(a) \notin {"conflict", "supersede"} /\ Goto(a, LookFinds(a))
    <3>1. LookFinds(a) \in Steps
      BY <2>4 DEF LookFinds, AfterWrite, Steps
    <3> QED BY <2>1, <2>4, <3>1, GotoIs DEF AttTypeInv
  <2> QED BY <1>2, <2>2, <2>3, <2>4 DEF Look
<1>3. ASSUME NEW a \in Attesters, Supersede(a)
      PROVE  AttTypeInv'
  <2>1. /\ call[a].pc # "idle" /\ Goto(a, "write") /\ "write" \in Steps
        /\ sup' = [sup EXCEPT ![call[a].old] = att[Here(a)]]
        /\ att' = [att EXCEPT ![Here(a)] = None]
        /\ UNCHANGED <<pkg, index, torn, commits, attested>>
    BY <1>3 DEF Supersede, Steps
  <2>2. att[Here(a)] \in Files
    BY <2>1, CallIs DEF AttTypeInv
  <2>3. att' \in [Runs -> Files] /\ sup' \in [Payloads -> Files]
    BY <2>1, <2>2 DEF AttTypeInv, Files
  <2> QED BY <2>1, <2>3, GotoIs DEF AttTypeInv
<1>4. ASSUME NEW a \in Attesters, Write(a)
      PROVE  AttTypeInv'
  <2>1. /\ call[a].pc # "idle" /\ Goto(a, AfterWrite(a)) /\ AfterWrite(a) \in Steps
        /\ att' = [att EXCEPT ![Here(a)] = [payload |-> call[a].payload]]
        /\ UNCHANGED <<pkg, sup, index, torn, commits, attested>>
    BY <1>4 DEF Write, Steps, AfterWrite
  <2>2. [payload |-> call[a].payload] \in Files
    BY <2>1, CallIs DEF Files, Documents
  <2>3. att' \in [Runs -> Files]
    BY <2>1, <2>2 DEF AttTypeInv
  <2> QED BY <2>1, <2>3, GotoIs DEF AttTypeInv
<1>5. ASSUME NEW a \in Attesters, Scan(a)
      PROVE  AttTypeInv'
  <2>1. call[a].pc # "idle" /\ UNCHANGED <<pkg, att, sup, index, torn, commits, attested>>
    BY <1>5 DEF Scan
  <2>2. CASE Goto(a, "return")
    <3>1. "return" \in Steps
      BY DEF Steps
    <3> QED BY <2>1, <2>2, <3>1, GotoIs DEF AttTypeInv
  <2>3. CASE call' = [call EXCEPT ![a].pc = "append", ![a].newline = torn]
    BY <2>1, <2>3, ScanAppends DEF AttTypeInv
  <2> QED BY <1>5, <2>2, <2>3 DEF Scan
<1>6. ASSUME NEW a \in Attesters, AppendRecord(a)
      PROVE  AttTypeInv'
  <2>1. /\ call[a].pc # "idle" /\ Goto(a, "return") /\ "return" \in Steps
        /\ index' = Added(a, call[a].payload) /\ torn' = FALSE
        /\ UNCHANGED <<pkg, att, sup, commits, attested>>
    BY <1>6 DEF AppendRecord, Steps
  <2>2. index' \in Seq(Payloads \cup {Broken})
    BY <2>1, CallIs, AddedIs
  <2> QED BY <2>1, <2>2, GotoIs DEF AttTypeInv
<1>7. ASSUME NEW a \in Attesters, Return(a)
      PROVE  AttTypeInv'
  <2>1. call[a].payload \in Payloads
    BY <1>7, CallIs DEF Return
  <2> QED BY <1>7, <2>1, EndIs DEF Return, Returned, AttTypeInv
<1>8. ASSUME NEW a \in Attesters, Fail(a)
      PROVE  AttTypeInv'
  <2>1. End(a) /\ UNCHANGED <<pkg, att, sup, commits, attested>>
    BY <1>8 DEF Fail
  <2>2. index' \in Seq(Payloads \cup {Broken})
    <3>1. CASE UNCHANGED index
      BY <3>1 DEF AttTypeInv
    <3>2. ASSUME NEW line \in {Broken, call[a].payload}, call[a].pc # "idle",
                 index' = Added(a, line)
          PROVE  index' \in Seq(Payloads \cup {Broken})
      BY <3>2, CallIs, AddedIs
    <3> QED BY <1>8, <3>1, <3>2 DEF Fail
  <2>3. torn' \in BOOLEAN
    <3>1. UNCHANGED torn \/ torn' = TRUE
      BY <1>8, Zenon DEF Fail
    <3>2. torn \in BOOLEAN
      BY DEF AttTypeInv
    <3> QED BY <3>1, <3>2
  <2> QED BY <2>1, <2>2, <2>3, EndIs DEF AttTypeInv
<1>9. ASSUME NEW d \in Dirs, Republish(d) \/ EditInPlace(d)
      PROVE  AttTypeInv'
  <2>1. UNCHANGED <<att, sup, index, torn, commits, call, attested>>
    BY <1>9 DEF Republish, EditInPlace
  <2>2. PICK c \in Contents, sealed \in BOOLEAN :
          pkg' = [pkg EXCEPT ![d] = [content |-> c, sealed |-> sealed]]
    <3>1. CASE Republish(d)
      BY <3>1 DEF Republish
    <3>2. CASE EditInPlace(d)
      <4>1. pkg[d] \in [content : Contents, sealed : BOOLEAN]
        BY DEF AttTypeInv
      <4>2. PICK no \in BOOLEAN : pkg' = [pkg EXCEPT ![d].sealed = no]
        BY <3>2 DEF EditInPlace
      <4>3. pkg' = [pkg EXCEPT ![d] = [pkg[d] EXCEPT !.sealed = no]]
        BY <4>2
      <4>4. [pkg[d] EXCEPT !.sealed = no] = [content |-> pkg[d].content, sealed |-> no]
        BY <4>1
      <4> QED BY <4>1, <4>3, <4>4
    <3> QED BY <1>9, <3>1, <3>2
  <2>3. pkg' \in [Dirs -> [content : Contents, sealed : BOOLEAN]]
    BY <2>2 DEF AttTypeInv
  <2> QED BY <2>1, <2>3 DEF AttTypeInv
<1>10. ASSUME NEW r \in Runs, NEW add \in Adds, Commit(add, r)
       PROVE  AttTypeInv'
  <2>1. Tip \in CommitType
    BY DEF Tip, Last, AttTypeInv
  <2> DEFINE tree == [att |-> CASE add = "all" -> att
                                [] add = "file" -> [Tip.att EXCEPT ![r] = att[r]]
                                [] add = "index" -> Tip.att,
                      index |-> IF add = "file" THEN Tip.index ELSE index]
  <2>2. PICK touches \in BOOLEAN :
          commits' = Append(commits, [att |-> tree.att, index |-> tree.index, touches |-> touches])
    BY <1>10 DEF Commit
  <2>3. tree.att \in [Runs -> Files] /\ tree.index \in Seq(Payloads \cup {Broken})
    BY <2>1, AttestationAssumption DEF AttTypeInv, CommitType
  <2> HIDE DEF tree
  <2>4. [att |-> tree.att, index |-> tree.index, touches |-> touches] \in CommitType
    BY <2>3 DEF CommitType
  <2>5. commits' \in Seq(CommitType) /\ commits' # <<>>
    BY <2>2, <2>4 DEF AttTypeInv
  <2> QED BY <1>10, <2>5 DEF Commit, AttTypeInv
<1>11. CASE AttNext
  BY <1>1, <1>2, <1>3, <1>4, <1>5, <1>6, <1>7, <1>8, <1>9, <1>10, <1>11
  DEF AttNext
<1>12. CASE UNCHANGED <<pkg, files, commits, call, attested>>
  BY <1>12 DEF AttTypeInv
<1>13. CASE ~AttNext
  BY <1>12, <1>13
  DEF Next, vars, attVars, Confirm, ConfirmEarlier, Transcribe,
      EditConfirmation, Written
<1> QED BY <1>11, <1>13

THEOREM TypeCorrect == Spec => []AttTypeInv
BY TypeInit, TypeStep, PTL DEF Spec

-----------------------------------------------------------------------------
(* Commits stay what they are, and so does what is anchored in them. *)

LEMMA CommitsStay ==
  ASSUME AttTypeInv, [Next]_vars, NEW i \in DOMAIN commits
  PROVE  i \in DOMAIN commits' /\ commits'[i] = commits[i]
<1>1. CASE UNCHANGED commits
  BY <1>1
<1>2. ASSUME NEW r \in Runs, NEW add \in Adds, Commit(add, r)
      PROVE  i \in DOMAIN commits' /\ commits'[i] = commits[i]
  <2>1. PICK commit : commits' = Append(commits, commit)
    BY <1>2 DEF Commit
  <2>2. commits \in Seq(CommitType)
    BY DEF AttTypeInv
  <2>3. DOMAIN commits = 1 .. Len(commits) /\ Len(commits) \in Nat
    BY <2>2
  <2> QED BY <2>1, <2>2, <2>3
<1>3. ASSUME ~UNCHANGED commits
      PROVE  \E r \in Runs, add \in Adds : Commit(add, r)
  <2> USE DEF files
  <2>1. CASE AttNext
    BY <1>3, <2>1
    DEF AttNext, Attest, Look, Supersede, Write, Scan, AppendRecord, Return,
        Fail, Republish, EditInPlace
  <2>2. CASE ~AttNext
    BY <1>3, <2>2
    DEF Next, vars, attVars, Confirm, ConfirmEarlier, Transcribe,
        EditConfirmation, Written
  <2> QED BY <2>1, <2>2
<1> QED BY <1>1, <1>2, <1>3

\* verify_git_anchor: what one commit holds with its record stays anchored, whatever
\* is attested, superseded, torn or committed later.
THEOREM AnchorsLast == Spec => AnchorLasts
<1>1. ASSUME AttTypeInv, [Next]_vars
      PROVE  \A p \in Payloads : AnchorStatus(p) = "committed" => AnchorStatus(p)' = "committed"
  <2> SUFFICES ASSUME NEW p \in Payloads, AnchorStatus(p) = "committed"
               PROVE  AnchorStatus(p)' = "committed"
    OBVIOUS
  <2>1. PICK i \in Matching(p) : AttestationIn(i, p)
    BY DEF AnchorStatus
  <2>2. i \in DOMAIN commits
    BY DEF Matching
  <2>3. i \in DOMAIN commits' /\ commits'[i] = commits[i]
    BY <1>1, <2>2, CommitsStay
  <2>4. commits[i].touches /\ p \in Records(commits[i].index)
    BY DEF Matching
  <2>5. i \in Matching(p)'
    BY <2>3, <2>4, Zenon DEF Matching
  <2>6. AttestationIn(i, p)'
    BY <2>1, <2>3 DEF AttestationIn
  <2> QED BY <2>5, <2>6 DEF AnchorStatus
<1>2. AttTypeInv /\ [Next]_vars =>
        [\A p \in Payloads : AnchorStatus(p) = "committed" => AnchorStatus(p)' = "committed"]_vars
  BY <1>1
<1> QED BY <1>2, TypeCorrect, PTL DEF Spec, AnchorLasts

\* A directory that is L1_anchored is intact, and one commit holds the record of
\* exactly its content and the document with it.
THEOREM AnchorsAreRecorded == Spec => []AnchoredMeansRecorded
<1>1. AnchoredMeansRecorded
  <2> SUFFICES ASSUME NEW d \in Dirs, Trust(d) = "L1_anchored"
               PROVE  /\ pkg[d].sealed
                      /\ \E i \in DOMAIN commits :
                           /\ \E line \in Range(commits[i].index) : line = Payload(d)
                           /\ commits[i].att[RunOf(d)] # None
                           /\ commits[i].att[RunOf(d)].payload.content = pkg[d].content
    BY DEF AnchoredMeansRecorded
  <2>1. pkg[d].sealed /\ att[RunOf(d)].payload = Payload(d) /\ AnchorStatus(Payload(d)) = "committed"
    BY DEF Trust
  <2>2. PICK i \in Matching(Payload(d)) : AttestationIn(i, Payload(d))
    BY <2>1 DEF AnchorStatus
  <2>3. i \in DOMAIN commits /\ Payload(d) \in Range(commits[i].index)
    BY <2>2 DEF Matching, Records
  <2>4. /\ commits[i].att[RunOf(d)] # None
        /\ commits[i].att[RunOf(d)].payload.content = pkg[d].content
    BY <2>2 DEF AttestationIn, Payload
  <2> QED BY <2>1, <2>3, <2>4
<1> QED BY <1>1, PTL

-----------------------------------------------------------------------------
(* Attestations are never lost, as long as no two attesters serve one run. *)

OneAttesterPerRun == \A a, b \in Attesters : Serves(a) \cap Serves(b) # {} => a = b

\* What a call knows of the document that is there.
CallKnows(a) ==
  call[a].pc # "idle" =>
    /\ Here(a) \in Serves(a)
    /\ call[a].pc = "supersede" => att[Here(a)] # None /\ att[Here(a)].payload = call[a].old
    /\ call[a].pc = "write" => att[Here(a)] = None
    /\ call[a].pc \in {"scan", "append", "return"} =>
         att[Here(a)] # None /\ att[Here(a)].payload = call[a].payload

KeptInv == (\A a \in Attesters : CallKnows(a)) /\ AttestationsAreKept

LEMMA KeptInit == RecordsInit => KeptInv
BY DEF RecordsInit, AttInit, KeptInv, CallKnows, Idle, AttestationsAreKept

\* A call of another attester knows what it knew, when only the document of this
\* one's run may have changed.
LEMMA OthersKnow ==
  ASSUME OneAttesterPerRun, KeptInv, NEW a \in Attesters, NEW b \in Attesters \ {a},
         Here(a) \in Serves(a), call'[b] = call[b],
         \A r \in Runs \ {Here(a)} : att'[r] = att[r], AttTypeInv
  PROVE  CallKnows(b)'
<1> SUFFICES ASSUME call[b].pc # "idle" PROVE CallKnows(b)'
  BY DEF CallKnows
<1>1. Here(b) \in Serves(b) /\ Here(b) \in Runs
  BY CallIs DEF KeptInv, CallKnows
<1>2. Here(b) # Here(a)
  BY <1>1 DEF OneAttesterPerRun
<1>3. att'[Here(b)] = att[Here(b)] /\ Here(b)' = Here(b)
  BY <1>1, <1>2 DEF Here
<1> QED BY <1>3 DEF KeptInv, CallKnows

\* The same when no document changes.
LEMMA NothingMoves ==
  ASSUME KeptInv, NEW b \in Attesters, call'[b] = call[b], UNCHANGED att
  PROVE  CallKnows(b)'
BY DEF KeptInv, CallKnows, Here

\* Attestations are kept when no file changes and none is added.
LEMMA KeptStill ==
  ASSUME KeptInv, UNCHANGED <<att, sup, attested>>
  PROVE  AttestationsAreKept'
BY DEF KeptInv, AttestationsAreKept

\* A document that is written over nothing, and one that is moved aside.
LEMMA KeptStep ==
  ASSUME OneAttesterPerRun, AttTypeInv, KeptInv, [Next]_vars
  PROVE  KeptInv'
<1> USE DEF files
<1>1. ASSUME NEW a \in Attesters, NEW d \in Dirs, NEW anchor \in BOOLEAN, NEW replace \in BOOLEAN,
             Attest(a, d, anchor, replace)
      PROVE  KeptInv'
  <2>1. /\ call'[a].pc = "look" /\ call'[a].payload = Payload(d) /\ RunOf(d) \in Serves(a)
        /\ \A b \in Attesters \ {a} : call'[b] = call[b]
    BY <1>1, AttestIs
  <2>2. UNCHANGED <<att, sup, attested>>
    BY <1>1 DEF Attest
  <2>3. CallKnows(a)'
    BY <2>1, PayloadIs DEF CallKnows, Here
  <2> QED BY <2>1, <2>2, <2>3, NothingMoves, KeptStill DEF KeptInv
<1>2. ASSUME NEW a \in Attesters, Look(a)
      PROVE  KeptInv'
  <2>1. call[a].pc = "look" /\ UNCHANGED <<att, sup, attested>>
    BY <1>2 DEF Look
  <2>2. Here(a) \in Serves(a)
    BY <2>1 DEF KeptInv, CallKnows
  <2>3. CASE LookFinds(a) = "conflict" /\ End(a)
    BY <2>1, <2>3, EndIs, NothingMoves, KeptStill DEF KeptInv, CallKnows, Idle
  <2>4. CASE /\ LookFinds(a) = "supersede"
             /\ call' = [call EXCEPT ![a].pc = "supersede", ![a].old = att[Here(a)].payload]
    <3>1. att[Here(a)] # None
      BY <2>4 DEF LookFinds, AfterWrite
    <3>2. /\ call'[a].pc = "supersede" /\ call'[a].payload = call[a].payload
          /\ call'[a].old = att[Here(a)].payload
          /\ \A b \in Attesters \ {a} : call'[b] = call[b]
      BY <2>1, <2>4, <3>1, LookSupersedes
    <3>3. CallKnows(a)'
      BY <2>1, <2>2, <3>1, <3>2 DEF CallKnows, Here
    <3> QED BY <2>1, <3>2, <3>3, NothingMoves, KeptStill DEF KeptInv
  <2>5. CASE LookFinds(a) \notin {"conflict", "supersede"} /\ Goto(a, LookFinds(a))
    <3>1. \/ LookFinds(a) = "write" /\ att[Here(a)] = None
          \/ /\ LookFinds(a) \in {"scan", "return"}
             /\ att[Here(a)] # None /\ att[Here(a)].payload = call[a].payload
      BY <2>5 DEF LookFinds, AfterWrite
    <3>2. LookFinds(a) \in Steps
      BY <3>1 DEF Steps
    <3>3. /\ call'[a].pc = LookFinds(a) /\ call'[a].payload = call[a].payload
          /\ \A b \in Attesters \ {a} : call'[b] = call[b]
      BY <2>1, <2>5, <3>2, GotoIs
    <3>4. CallKnows(a)'
      BY <2>1, <2>2, <3>1, <3>3 DEF CallKnows, Here
    <3> QED BY <2>1, <3>3, <3>4, NothingMoves, KeptStill DEF KeptInv
  <2> QED BY <1>2, <2>3, <2>4, <2>5 DEF Look
<1>3. ASSUME NEW a \in Attesters, Supersede(a)
      PROVE  KeptInv'
  <2>1. /\ call[a].pc = "supersede" /\ Goto(a, "write") /\ "write" \in Steps
        /\ sup' = [sup EXCEPT ![call[a].old] = att[Here(a)]]
        /\ att' = [att EXCEPT ![Here(a)] = None]
        /\ UNCHANGED attested
    BY <1>3 DEF Supersede, Steps
  <2>2. /\ Here(a) \in Serves(a) /\ Here(a) \in Runs
        /\ att[Here(a)] # None /\ att[Here(a)].payload = call[a].old
    BY <2>1, CallIs DEF KeptInv, CallKnows
  <2>3. /\ call'[a].pc = "write" /\ call'[a].payload = call[a].payload
        /\ \A b \in Attesters \ {a} : call'[b] = call[b]
    BY <2>1, GotoIs
  <2>4. att'[Here(a)] = None /\ \A r \in Runs \ {Here(a)} : att'[r] = att[r]
    BY <2>1, <2>2 DEF AttTypeInv
  <2>5. CallKnows(a)'
    BY <2>2, <2>3, <2>4 DEF CallKnows, Here
  <2>6. \A b \in Attesters \ {a} : CallKnows(b)'
    BY <2>2, <2>3, <2>4, OthersKnow
  <2>7. AttestationsAreKept'
    <3> SUFFICES ASSUME NEW p \in attested
                 PROVE  \/ att'[p.run] # None /\ att'[p.run].payload = p
                        \/ sup'[p] # None /\ sup'[p].payload = p
      BY <2>1 DEF AttestationsAreKept
    <3>1. p \in Payloads /\ p.run \in Runs
      BY DEF AttTypeInv, Payloads
    <3>2. CASE p = call[a].old
      BY <2>1, <2>2, <3>1, <3>2 DEF AttTypeInv
    <3>3. CASE p # call[a].old
      <4>1. sup'[p] = sup[p]
        BY <2>1, <3>1, <3>3 DEF AttTypeInv
      <4>2. att[p.run] # None /\ att[p.run].payload = p => att'[p.run] = att[p.run]
        BY <2>2, <2>4, <3>1, <3>3
      <4> QED BY <4>1, <4>2 DEF KeptInv, AttestationsAreKept
    <3> QED BY <3>2, <3>3
  <2> QED BY <2>5, <2>6, <2>7 DEF KeptInv
<1>4. ASSUME NEW a \in Attesters, Write(a)
      PROVE  KeptInv'
  <2>1. /\ call[a].pc = "write" /\ Goto(a, AfterWrite(a)) /\ AfterWrite(a) \in {"scan", "return"}
        /\ att' = [att EXCEPT ![Here(a)] = [payload |-> call[a].payload]]
        /\ UNCHANGED <<sup, attested>>
    BY <1>4 DEF Write, AfterWrite
  <2>2. /\ Here(a) \in Serves(a) /\ Here(a) \in Runs /\ att[Here(a)] = None
        /\ call[a].payload \in Payloads
    BY <2>1, CallIs DEF KeptInv, CallKnows
  <2>3. AfterWrite(a) \in Steps
    BY <2>1 DEF Steps
  <2>4. /\ call'[a].pc = AfterWrite(a) /\ call'[a].payload = call[a].payload
        /\ \A b \in Attesters \ {a} : call'[b] = call[b]
    BY <2>1, <2>3, GotoIs
  <2>5. /\ att'[Here(a)] # None /\ att'[Here(a)].payload = call[a].payload
        /\ \A r \in Runs \ {Here(a)} : att'[r] = att[r]
    BY <2>1, <2>2, AttestationAssumption DEF AttTypeInv
  <2>6. CallKnows(a)'
    BY <2>1, <2>2, <2>4, <2>5 DEF CallKnows, Here
  <2>7. \A b \in Attesters \ {a} : CallKnows(b)'
    BY <2>2, <2>4, <2>5, OthersKnow
  <2>8. AttestationsAreKept'
    <3> SUFFICES ASSUME NEW p \in attested
                 PROVE  \/ att'[p.run] # None /\ att'[p.run].payload = p
                        \/ sup'[p] # None /\ sup'[p].payload = p
      BY <2>1 DEF AttestationsAreKept
    <3>1. p.run \in Runs
      BY DEF AttTypeInv, Payloads
    <3>2. att[p.run] # None => att'[p.run] = att[p.run]
      BY <2>2, <2>5, <3>1
    <3> QED BY <2>1, <3>2 DEF KeptInv, AttestationsAreKept
  <2> QED BY <2>6, <2>7, <2>8 DEF KeptInv
<1>5. ASSUME NEW a \in Attesters, Scan(a) \/ AppendRecord(a)
      PROVE  KeptInv'
  <2>1. call[a].pc \in {"scan", "append"} /\ UNCHANGED <<att, sup, attested>>
    BY <1>5 DEF Scan, AppendRecord
  <2>2. /\ Here(a) \in Serves(a) /\ att[Here(a)] # None
        /\ att[Here(a)].payload = call[a].payload
    BY <2>1 DEF KeptInv, CallKnows
  <2>3. /\ call'[a].pc \in {"append", "return"} /\ call'[a].payload = call[a].payload
        /\ \A b \in Attesters \ {a} : call'[b] = call[b]
    <3>1. CASE Goto(a, "return")
      <4>1. "return" \in Steps
        BY DEF Steps
      <4> QED BY <2>1, <3>1, <4>1, GotoIs
    <3>2. CASE call' = [call EXCEPT ![a].pc = "append", ![a].newline = torn]
      BY <2>1, <3>2, ScanAppends
    <3> QED BY <1>5, <3>1, <3>2 DEF Scan, AppendRecord
  <2>4. CallKnows(a)'
    BY <2>1, <2>2, <2>3 DEF CallKnows, Here
  <2> QED BY <2>1, <2>3, <2>4, NothingMoves, KeptStill DEF KeptInv
<1>6. ASSUME NEW a \in Attesters, Return(a)
      PROVE  KeptInv'
  <2>1. /\ call[a].pc = "return" /\ End(a) /\ attested' = attested \cup {call[a].payload}
        /\ UNCHANGED <<att, sup>>
    BY <1>6 DEF Return, Returned
  <2>2. att[Here(a)] # None /\ att[Here(a)].payload = call[a].payload
    BY <2>1 DEF KeptInv, CallKnows
  <2>3. AttestationsAreKept'
    BY <2>1, <2>2 DEF KeptInv, AttestationsAreKept, Here
  <2> QED BY <2>1, <2>3, EndIs, NothingMoves DEF KeptInv, CallKnows, Idle
<1>7. ASSUME NEW a \in Attesters, Fail(a)
      PROVE  KeptInv'
  <2>1. End(a) /\ UNCHANGED <<att, sup, attested>>
    BY <1>7 DEF Fail
  <2> QED BY <2>1, EndIs, NothingMoves, KeptStill DEF KeptInv, CallKnows, Idle
<1>8. CASE UNCHANGED <<att, sup, call, attested>>
  BY <1>8, NothingMoves, KeptStill DEF KeptInv
<1>9. CASE AttNext
  BY <1>1, <1>2, <1>3, <1>4, <1>5, <1>6, <1>7, <1>8, <1>9
  DEF AttNext, Republish, EditInPlace, Commit
<1>10. CASE ~AttNext
  BY <1>8, <1>10
  DEF Next, vars, attVars, Confirm, ConfirmEarlier, Transcribe,
      EditConfirmation, Written
<1> QED BY <1>9, <1>10

\* attest_run: an attestation that was made is never lost, neither by those that
\* replace it nor by a failed write or a crash between any two steps.
THEOREM AttestationsLast ==
  ASSUME OneAttesterPerRun
  PROVE  Spec => []AttestationsAreKept
<1>1. AttTypeInv /\ KeptInv /\ [Next]_vars => KeptInv'
  BY KeptStep
<1>2. KeptInv => AttestationsAreKept
  BY DEF KeptInv
<1> QED BY <1>1, <1>2, KeptInit, TypeCorrect, PTL DEF Spec

-----------------------------------------------------------------------------
(* The rows of a view. *)

\* The manifests there are, and the names of their solvers.
Manifests == {ManifestOf(c) : c \in Contents \cup Earlier}
SolverNames == UNION {{b.name : b \in m.backends} : m \in Manifests}
BaseGroups == {"plant", "controller", "timebase", "action_policy", "bounds"}

LEMMA ManifestIs ==
  /\ \A m \in Manifests :
       /\ \A b, o \in m.backends : b.name = o.name => b = o
       /\ \A b \in m.backends : b.name \in SolverNames
  /\ \A n, o \in SolverNames : SolverId(n) = SolverId(o) => n = o
  /\ \A n \in SolverNames : SolverId(n) \notin BaseGroups
BY ManifestAssumption DEF Manifests, SolverNames, BaseGroups

\* The statements of one manifest, part by part.
PlantSays(m) ==
  {Says("plant", n, <<m.plant.parameters[n]>>, AnnotatedUnit(m, n)) :
     n \in DOMAIN m.plant.parameters}
ControllerSays(m) ==
  {Says("controller", n, <<Configured(m, n)>>, AnnotatedUnit(m, n)) : n \in ConfiguredNames(m)}
TimebaseSays(m) ==
  {Says("timebase", n, <<m.timebase.values[n]>>, TimeUnit(m, n)) : n \in DOMAIN m.timebase.values}
PolicySays(m) ==
  {Says("action_policy", n, <<m.policy.values[n]>>, AnnotatedUnit(m, n)) :
     n \in {"minimum", "maximum"} \cap DOMAIN m.policy.values}
SolverSays(m, b) ==
  {Says(SolverId(b.name), n, <<b.settings[n]>>, AnnotatedUnit(m, n)) : n \in DOMAIN b.settings}

LEMMA StatedIs ==
  ASSUME NEW m
  PROVE  StatedValues(m) =
           (PlantSays(m) \cup ControllerSays(m) \cup TimebaseSays(m) \cup PolicySays(m))
             \cup (UNION {SolverSays(m, b) : b \in m.backends})
<1> DEFINE plant == PlantSays(m)
           controller == ControllerSays(m)
           timebase == TimebaseSays(m)
           policy == PolicySays(m)
           solvers == UNION {SolverSays(m, b) : b \in m.backends}
<1>1. StatedValues(m) = UNION {plant, controller, timebase, policy, solvers}
  BY Zenon
  DEF StatedValues, PlantSays, ControllerSays, TimebaseSays, PolicySays,
      SolverSays
<1> HIDE DEF plant, controller, timebase, policy, solvers
<1>2. StatedValues(m) = (plant \cup controller \cup timebase \cup policy) \cup solvers
  BY <1>1
<1> QED BY <1>2, Zenon DEF plant, controller, timebase, policy, solvers

\* Under one key, a manifest states one thing.
Unique(stated) == \A s, t \in stated : s.key = t.key => s = t
LEMMA StatedOnce ==
  ASSUME NEW m \in Manifests
  PROVE  Unique(StatedValues(m))
<1>1. /\ \A s \in PlantSays(m) : s.key = <<"plant", s.key[2]>>
      /\ \A s, t \in PlantSays(m) : s.key[2] = t.key[2] => s = t
  BY DEF PlantSays, Says
<1>2. /\ \A s \in ControllerSays(m) : s.key = <<"controller", s.key[2]>>
      /\ \A s, t \in ControllerSays(m) : s.key[2] = t.key[2] => s = t
  BY DEF ControllerSays, Says
<1>3. /\ \A s \in TimebaseSays(m) : s.key = <<"timebase", s.key[2]>>
      /\ \A s, t \in TimebaseSays(m) : s.key[2] = t.key[2] => s = t
  BY DEF TimebaseSays, Says
<1>4. /\ \A s \in PolicySays(m) : s.key = <<"action_policy", s.key[2]>>
      /\ \A s, t \in PolicySays(m) : s.key[2] = t.key[2] => s = t
  BY DEF PolicySays, Says
<1>5. ASSUME NEW b \in m.backends
      PROVE  /\ \A s \in SolverSays(m, b) : s.key = <<SolverId(b.name), s.key[2]>>
             /\ \A s, t \in SolverSays(m, b) : s.key[2] = t.key[2] => s = t
  BY DEF SolverSays, Says
<1>6. ASSUME NEW b \in m.backends, NEW o \in m.backends,
             NEW s \in SolverSays(m, b), NEW t \in SolverSays(m, o), s.key = t.key
      PROVE  s = t
  <2>1. SolverId(b.name) = SolverId(o.name) /\ s.key[2] = t.key[2]
    BY <1>5, <1>6
  <2>2. b.name = o.name
    BY <2>1, ManifestIs
  <2>3. b = o
    BY <2>2, ManifestIs
  <2> QED BY <1>5, <2>1, <2>3
<1>7. \A b \in m.backends : SolverId(b.name) \notin BaseGroups
  BY ManifestIs
<1>8. ASSUME NEW b \in m.backends, NEW s \in SolverSays(m, b)
      PROVE  s.key[1] \notin BaseGroups
  BY <1>5, <1>7
<1>9. \A s \in UNION {SolverSays(m, b) : b \in m.backends} :
        /\ s.key[1] \notin BaseGroups
        /\ \A t \in UNION {SolverSays(m, b) : b \in m.backends} : s.key = t.key => s = t
  BY <1>6, <1>8
<1> DEFINE solvers == UNION {SolverSays(m, b) : b \in m.backends}
<1> HIDE DEF solvers
<1>10. \A s \in solvers : /\ s.key[1] \notin BaseGroups
                          /\ \A t \in solvers : s.key = t.key => s = t
  BY <1>9 DEF solvers
<1>11. StatedValues(m) =
         (PlantSays(m) \cup ControllerSays(m) \cup TimebaseSays(m) \cup PolicySays(m)) \cup solvers
  BY StatedIs DEF solvers
<1>12. \A s \in StatedValues(m) :
         \/ s \in PlantSays(m) /\ s.key[1] = "plant"
         \/ s \in ControllerSays(m) /\ s.key[1] = "controller"
         \/ s \in TimebaseSays(m) /\ s.key[1] = "timebase"
         \/ s \in PolicySays(m) /\ s.key[1] = "action_policy"
         \/ s \in solvers /\ s.key[1] \notin BaseGroups
  BY <1>1, <1>2, <1>3, <1>4, <1>10, <1>11
<1>13. ASSUME NEW s \in StatedValues(m), NEW t \in StatedValues(m), s.key = t.key
       PROVE  s = t
  <2>1. s.key[1] = t.key[1] /\ s.key[2] = t.key[2]
    BY <1>13
  <2> QED BY <1>1, <1>2, <1>3, <1>4, <1>10, <1>12, <1>13, <2>1 DEF BaseGroups
<1> QED BY <1>13 DEF Unique

\* A row of a view says what a statement says.
RowSays(f, s) == s.key = <<f.group, f.name>> /\ s.values = <<f.value>> /\ s.unit = f.unit
Match(rows, stated) ==
  /\ \A f \in rows : \E s \in stated : RowSays(f, s)
  /\ \A s \in stated : \E f \in rows : RowSays(f, s)

FlatGroup(g) ==
  {[group |-> g.id, name |-> r.name, value |-> r.value, unit |-> r.unit] : r \in g.rows}
Stating(m, id, values, default, defaultFor) ==
  {Says(id, n, <<values[n]>>, UnitOf(m, n, values[n], default, defaultFor)) : n \in DOMAIN values}

LEMMA GroupMatches ==
  ASSUME NEW m, NEW g, NEW values, NEW default, NEW defaultFor,
         g.rows = Rows(m, values, default, defaultFor)
  PROVE  Match(FlatGroup(g), Stating(m, g.id, values, default, defaultFor))
<1> DEFINE unit(n) == UnitOf(m, n, values[n], default, defaultFor)
           row(n) == [name |-> n, value |-> values[n], unit |-> unit(n)]
           flat(r) == [group |-> g.id, name |-> r.name, value |-> r.value, unit |-> r.unit]
           says(n) == Says(g.id, n, <<values[n]>>, unit(n))
<1>1. \A n : RowSays(flat(row(n)), says(n))
  BY DEF RowSays, Says
<1>2. g.rows = {row(n) : n \in DOMAIN values}
  BY DEF Rows
<1>3. FlatGroup(g) = {flat(r) : r \in g.rows}
  BY DEF FlatGroup
<1>4. Stating(m, g.id, values, default, defaultFor) = {says(n) : n \in DOMAIN values}
  BY DEF Stating
<1> HIDE DEF row, flat, says
<1>5. FlatGroup(g) = {flat(row(n)) : n \in DOMAIN values}
  BY <1>2, <1>3
<1> QED BY <1>1, <1>4, <1>5 DEF Match

\* The parts of a manifest are the groups of its view.
LEMMA PartsAre ==
  ASSUME NEW m
  PROVE  /\ PlantSays(m) = Stating(m, "plant", m.plant.parameters, Absent, "values")
         /\ ControllerSays(m) =
              Stating(m, "controller", ControllerValues(m.controller), Absent, "values")
         /\ TimebaseSays(m) = Stating(m, "timebase", m.timebase.values, m.timebase.unit, "numbers")
         /\ PolicySays(m) = Stating(m, "action_policy", PolicyLimits(m), Absent, "values")
         /\ \A b \in m.backends :
              SolverSays(m, b) = Stating(m, SolverId(b.name), b.settings, Absent, "values")
<1>1. \A n, value : UnitOf(m, n, value, Absent, "values") = AnnotatedUnit(m, n)
  BY DEF UnitOf
<1>2. \A n : UnitOf(m, n, m.timebase.values[n], m.timebase.unit, "numbers") = TimeUnit(m, n)
  BY DEF UnitOf, TimeUnit
<1>3. /\ DOMAIN ControllerValues(m.controller) = ConfiguredNames(m)
      /\ \A n \in ConfiguredNames(m) : ControllerValues(m.controller)[n] = Configured(m, n)
  BY DEF ControllerValues, ConfiguredNames, Configured
<1>4. /\ DOMAIN PolicyLimits(m) = {"minimum", "maximum"} \cap DOMAIN m.policy.values
      /\ \A n \in DOMAIN PolicyLimits(m) : PolicyLimits(m)[n] = m.policy.values[n]
  BY DEF PolicyLimits, Restrict
<1>5. PlantSays(m) = Stating(m, "plant", m.plant.parameters, Absent, "values")
  BY <1>1 DEF PlantSays, Stating
<1>6. ControllerSays(m) = Stating(m, "controller", ControllerValues(m.controller), Absent, "values")
  <2> DEFINE values == ControllerValues(m.controller)
             said(n) == Says("controller", n, <<Configured(m, n)>>, AnnotatedUnit(m, n))
             shown(n) == Says("controller", n, <<values[n]>>,
                              UnitOf(m, n, values[n], Absent, "values"))
  <2> HIDE DEF values
  <2>1. DOMAIN values = ConfiguredNames(m) /\ \A n \in ConfiguredNames(m) : said(n) = shown(n)
    BY <1>1, <1>3 DEF values
  <2>2. ControllerSays(m) = {said(n) : n \in ConfiguredNames(m)}
    BY DEF ControllerSays
  <2>3. Stating(m, "controller", values, Absent, "values") = {shown(n) : n \in DOMAIN values}
    BY DEF Stating
  <2> HIDE DEF said, shown
  <2>4. ControllerSays(m) = Stating(m, "controller", values, Absent, "values")
    BY <2>1, <2>2, <2>3
  <2> QED BY <2>4 DEF values
<1>7. TimebaseSays(m) = Stating(m, "timebase", m.timebase.values, m.timebase.unit, "numbers")
  BY <1>2 DEF TimebaseSays, Stating
<1>8. PolicySays(m) = Stating(m, "action_policy", PolicyLimits(m), Absent, "values")
  BY <1>1, <1>4 DEF PolicySays, Stating
<1>9. \A b \in m.backends :
        SolverSays(m, b) = Stating(m, SolverId(b.name), b.settings, Absent, "values")
  BY <1>1 DEF SolverSays, Stating
<1> QED BY <1>5, <1>6, <1>7, <1>8, <1>9

\* A group that there is matches its part, and one that is left out has no part.
PartMatches(groups, part) ==
  /\ part = {} => groups = {}
  /\ groups = {} => part = {}
  /\ \A g \in groups : Match(FlatGroup(g), part)

LEMMA GroupsMatch ==
  ASSUME NEW m, NEW groups, NEW id, NEW values, NEW default, NEW defaultFor,
         groups = {} <=> DOMAIN values = {},
         \A g \in groups : g.id = id /\ g.rows = Rows(m, values, default, defaultFor)
  PROVE  PartMatches(groups, Stating(m, id, values, default, defaultFor))
<1>1. Stating(m, id, values, default, defaultFor) = {} <=> DOMAIN values = {}
  BY DEF Stating
<1>2. ASSUME NEW g \in groups
      PROVE  Match(FlatGroup(g), Stating(m, id, values, default, defaultFor))
  <2>1. g.id = id /\ g.rows = Rows(m, values, default, defaultFor)
    OBVIOUS
  <2>2. Match(FlatGroup(g), Stating(m, g.id, values, default, defaultFor))
    BY <2>1, GroupMatches
  <2> QED BY <2>1, <2>2
<1> QED BY <1>1, <1>2 DEF PartMatches

LEMMA ViewMatches ==
  ASSUME NEW m
  PROVE  Match(FlatRows(View(m)), StatedValues(m))
<1>1. PartMatches(PlantGroup(m), PlantSays(m))
  <2>1. PlantGroup(m) = {} <=> DOMAIN m.plant.parameters = {}
    BY DEF PlantGroup
  <2>2. \A g \in PlantGroup(m) :
          g.id = "plant" /\ g.rows = Rows(m, m.plant.parameters, Absent, "values")
    BY DEF PlantGroup
  <2> QED BY <2>1, <2>2, PartsAre, GroupsMatch
<1>2. PartMatches(ControllerGroup(m), ControllerSays(m))
  <2>1. ControllerGroup(m) = {} <=> DOMAIN ControllerValues(m.controller) = {}
    BY DEF ControllerGroup
  <2>2. \A g \in ControllerGroup(m) :
          g.id = "controller" /\ g.rows = Rows(m, ControllerValues(m.controller), Absent, "values")
    BY DEF ControllerGroup
  <2> QED BY <2>1, <2>2, PartsAre, GroupsMatch
<1>3. PartMatches(TimebaseGroup(m), TimebaseSays(m))
  <2>1. TimebaseGroup(m) = {} <=> DOMAIN m.timebase.values = {}
    BY DEF TimebaseGroup
  <2>2. \A g \in TimebaseGroup(m) :
          g.id = "timebase" /\ g.rows = Rows(m, m.timebase.values, m.timebase.unit, "numbers")
    BY DEF TimebaseGroup
  <2> QED BY <2>1, <2>2, PartsAre, GroupsMatch
<1>4. PartMatches(PolicyGroup(m), PolicySays(m))
  <2>1. PolicyGroup(m) = {} <=> DOMAIN PolicyLimits(m) = {}
    BY DEF PolicyGroup
  <2>2. \A g \in PolicyGroup(m) :
          g.id = "action_policy" /\ g.rows = Rows(m, PolicyLimits(m), Absent, "values")
    BY DEF PolicyGroup
  <2> QED BY <2>1, <2>2, PartsAre, GroupsMatch
<1> DEFINE group(b) == [id |-> SolverId(b.name), component |-> b.name,
                        rows |-> Rows(m, b.settings, Absent, "values")]
           solvers == UNION {SolverSays(m, b) : b \in m.backends}
           flat == UNION {FlatGroup(g) : g \in SolverGroups(m)}
<1>5. ASSUME NEW b \in m.backends
      PROVE  Match(FlatGroup(group(b)), SolverSays(m, b))
  <2>1. group(b).id = SolverId(b.name) /\ group(b).rows = Rows(m, b.settings, Absent, "values")
    OBVIOUS
  <2> HIDE DEF group
  <2>2. Match(FlatGroup(group(b)), Stating(m, group(b).id, b.settings, Absent, "values"))
    BY <2>1, GroupMatches
  <2> QED BY <2>1, <2>2, PartsAre
<1>6. Match(flat, solvers)
  <2>1. \A g : g \in SolverGroups(m) <=> \E b \in m.backends : DOMAIN b.settings # {} /\ g = group(b)
    BY DEF SolverGroups
  <2> HIDE DEF group
  <2>2. ASSUME NEW f \in flat
        PROVE  \E s \in solvers : RowSays(f, s)
    <3>1. PICK g \in SolverGroups(m) : f \in FlatGroup(g)
      OBVIOUS
    <3>2. PICK b \in m.backends : g = group(b)
      BY <2>1, <3>1
    <3>3. PICK s \in SolverSays(m, b) : RowSays(f, s)
      BY <1>5, <3>1, <3>2 DEF Match
    <3> QED BY <3>3
  <2>3. ASSUME NEW s \in solvers
        PROVE  \E f \in flat : RowSays(f, s)
    <3>1. PICK b \in m.backends : s \in SolverSays(m, b)
      OBVIOUS
    <3>2. DOMAIN b.settings # {}
      BY <3>1 DEF SolverSays
    <3>3. group(b) \in SolverGroups(m)
      BY <2>1, <3>2
    <3>4. PICK f \in FlatGroup(group(b)) : RowSays(f, s)
      BY <1>5, <3>1 DEF Match
    <3> QED BY <3>3, <3>4
  <2> QED BY <2>2, <2>3 DEF Match
<1> HIDE DEF solvers, flat
<1> DEFINE plant == UNION {FlatGroup(g) : g \in PlantGroup(m)}
           controller == UNION {FlatGroup(g) : g \in ControllerGroup(m)}
           timebase == UNION {FlatGroup(g) : g \in TimebaseGroup(m)}
           policy == UNION {FlatGroup(g) : g \in PolicyGroup(m)}
<1>7. ASSUME NEW groups, NEW part, PartMatches(groups, part)
      PROVE  Match(UNION {FlatGroup(g) : g \in groups}, part)
  BY <1>7 DEF PartMatches, Match
<1>8. /\ Match(plant, PlantSays(m)) /\ Match(controller, ControllerSays(m))
      /\ Match(timebase, TimebaseSays(m)) /\ Match(policy, PolicySays(m))
  BY <1>1, <1>2, <1>3, <1>4, <1>7
<1>9. FlatRows(View(m)) = (plant \cup controller \cup timebase \cup policy) \cup flat
  <2>1. FlatRows(View(m)) = UNION {FlatGroup(g) : g \in Groups(m)}
    BY DEF FlatRows, View, FlatGroup
  <2>2. Groups(m) = (PlantGroup(m) \cup ControllerGroup(m) \cup TimebaseGroup(m) \cup PolicyGroup(m))
                      \cup SolverGroups(m)
    BY DEF Groups
  <2> QED BY <2>1, <2>2 DEF flat
<1> HIDE DEF plant, controller, timebase, policy
<1>10. StatedValues(m) =
         (PlantSays(m) \cup ControllerSays(m) \cup TimebaseSays(m) \cup PolicySays(m)) \cup solvers
  BY StatedIs DEF solvers
<1> QED BY <1>6, <1>8, <1>9, <1>10 DEF Match

\* What stands under a key of matching rows.
LEMMA UnderIs ==
  ASSUME NEW rows, NEW stated, Match(rows, stated), Unique(stated)
  PROVE  /\ \A k : k \in DOMAIN RowsUnder(rows) <=> \E s \in stated : s.key = k
         /\ \A s \in stated : /\ s.values = <<RowsUnder(rows)[s.key].value>>
                              /\ RowsUnder(rows)[s.key].unit = s.unit
<1> DEFINE chosen(k) == CHOOSE r \in rows : <<r.group, r.name>> = k
           row(k) == [value |-> chosen(k).value, unit |-> chosen(k).unit]
<1>1. RowsUnder(rows) = [key \in {<<r.group, r.name>> : r \in rows} |-> row(key)]
  BY DEF RowsUnder
<1>2. \A k : row(k).value = chosen(k).value /\ row(k).unit = chosen(k).unit
  OBVIOUS
<1> HIDE DEF row
<1>3. \A k : k \in DOMAIN RowsUnder(rows) <=> \E r \in rows : k = <<r.group, r.name>>
  BY <1>1
<1>4. \A k : k \in DOMAIN RowsUnder(rows) <=> \E s \in stated : s.key = k
  <2>1. ASSUME NEW r \in rows
        PROVE  \E s \in stated : s.key = <<r.group, r.name>>
    BY DEF Match, RowSays
  <2>2. ASSUME NEW s \in stated
        PROVE  \E r \in rows : s.key = <<r.group, r.name>>
    BY DEF Match, RowSays
  <2>3. ASSUME NEW k, k \in DOMAIN RowsUnder(rows)
        PROVE  \E s \in stated : s.key = k
    <3>1. PICK r \in rows : k = <<r.group, r.name>>
      BY <1>3, <2>3
    <3> QED BY <2>1, <3>1
  <2>4. ASSUME NEW k, \E s \in stated : s.key = k
        PROVE  k \in DOMAIN RowsUnder(rows)
    <3>1. PICK s \in stated : s.key = k
      BY <2>4
    <3> QED BY <1>3, <2>2, <3>1
  <2> QED BY <2>3, <2>4
<1>5. ASSUME NEW s \in stated
      PROVE  /\ s.values = <<RowsUnder(rows)[s.key].value>>
             /\ RowsUnder(rows)[s.key].unit = s.unit
  <2>1. \E r \in rows : <<r.group, r.name>> = s.key
    BY DEF Match, RowSays
  <2>2. chosen(s.key) \in rows /\ <<chosen(s.key).group, chosen(s.key).name>> = s.key
    BY <2>1
  <2>3. RowsUnder(rows)[s.key] = row(s.key)
    BY <1>1, <2>1
  <2> HIDE DEF chosen
  <2>4. PICK t \in stated : RowSays(chosen(s.key), t)
    BY <2>2 DEF Match
  <2>5. t = s
    BY <2>2, <2>4 DEF RowSays, Unique
  <2> QED BY <1>2, <2>3, <2>4, <2>5 DEF RowSays
<1> QED BY <1>4, <1>5

LEMMA SameValueBothWays == \A v, w : SameValue(v, w) <=> SameValue(w, v)
  BY DEF SameValue

\* The keys of two views that changed are the keys that were stated otherwise.
LEMMA RowKeys ==
  ASSUME NEW rows, NEW others, NEW was, NEW now, Match(rows, was), Match(others, now),
         Unique(was), Unique(now)
  PROVE  ChangedKeys(RowsUnder(rows), RowsUnder(others), SameRow) = Changed(was, now)
<1> DEFINE f == RowsUnder(rows)
           g == RowsUnder(others)
<1>1. /\ \A k : k \in DOMAIN f <=> \E s \in was : s.key = k
      /\ \A s \in was : s.values = <<f[s.key].value>> /\ f[s.key].unit = s.unit
  BY UnderIs
<1>2. /\ \A k : k \in DOMAIN g <=> \E t \in now : t.key = k
      /\ \A t \in now : t.values = <<g[t.key].value>> /\ g[t.key].unit = t.unit
  BY UnderIs
<1>3. \A k : k \in ChangedKeys(f, g, SameRow) <=>
        /\ k \in DOMAIN f \/ k \in DOMAIN g
        /\ ~(k \in DOMAIN f /\ k \in DOMAIN g /\ SameRow(f[k], g[k]))
  BY DEF ChangedKeys
<1> HIDE DEF f, g
<1>4. ASSUME NEW s \in was, NEW t \in now, s.key = t.key
      PROVE  /\ SaysTheSame(s, t) <=> SameRow(f[s.key], g[s.key])
             /\ SaysTheSame(t, s) <=> SameRow(f[s.key], g[s.key])
  <2>1. s.values = <<f[s.key].value>> /\ t.values = <<g[s.key].value>>
        /\ f[s.key].unit = s.unit /\ g[s.key].unit = t.unit
    BY <1>1, <1>2, <1>4
  <2>2. (\A i \in DOMAIN s.values : SameValue(s.values[i], t.values[i]))
          <=> SameValue(f[s.key].value, g[s.key].value)
    BY <2>1
  <2>3. (\A i \in DOMAIN t.values : SameValue(t.values[i], s.values[i]))
          <=> SameValue(g[s.key].value, f[s.key].value)
    BY <2>1
  <2> QED BY <1>4, <2>1, <2>2, <2>3, SameValueBothWays DEF SaysTheSame, SameRow
<1>5. \A k : k \in Changed(was, now) <=>
        \/ \E s \in was : s.key = k /\ \A t \in now : ~SaysTheSame(s, t)
        \/ \E t \in now : t.key = k /\ \A s \in was : ~SaysTheSame(t, s)
  BY DEF Changed, Lost
<1>6. ASSUME NEW k \in Changed(was, now)
      PROVE  k \in ChangedKeys(f, g, SameRow)
  <2>1. CASE \E s \in was : s.key = k /\ \A t \in now : ~SaysTheSame(s, t)
    BY <1>1, <1>2, <1>3, <1>4, <2>1
  <2>2. CASE \E t \in now : t.key = k /\ \A s \in was : ~SaysTheSame(t, s)
    <3>1. PICK t \in now : t.key = k /\ \A s \in was : ~SaysTheSame(t, s)
      BY <2>2
    <3>2. k \in DOMAIN g
      BY <1>2, <3>1
    <3>3. CASE k \in DOMAIN f
      <4>1. PICK s \in was : s.key = k
        BY <1>1, <3>3
      <4>2. ~SameRow(f[k], g[k])
        BY <1>4, <3>1, <4>1
      <4> QED BY <1>3, <3>2, <4>2
    <3>4. CASE k \notin DOMAIN f
      BY <1>3, <3>2, <3>4
    <3> QED BY <3>3, <3>4
  <2> QED BY <1>5, <1>6, <2>1, <2>2
<1>7. ASSUME NEW k \in ChangedKeys(f, g, SameRow)
      PROVE  k \in Changed(was, now)
  <2>1. CASE k \in DOMAIN f
    <3>1. PICK s \in was : s.key = k
      BY <1>1, <2>1
    <3>2. ASSUME NEW t \in now
          PROVE  ~SaysTheSame(s, t)
      <4>1. CASE t.key = k
        BY <1>2, <1>3, <1>4, <1>7, <2>1, <3>1, <4>1
      <4>2. CASE t.key # k
        BY <3>1, <4>2 DEF SaysTheSame
      <4> QED BY <4>1, <4>2
    <3> QED BY <1>5, <3>1, <3>2
  <2>2. CASE k \notin DOMAIN f
    <3>1. PICK t \in now : t.key = k
      BY <1>2, <1>3, <1>7, <2>2
    <3>2. \A s \in was : s.key # k
      BY <1>1, <2>2
    <3>3. \A s \in was : ~SaysTheSame(t, s)
      BY <3>1, <3>2 DEF SaysTheSame
    <3> QED BY <1>5, <3>1, <3>3
  <2> QED BY <2>1, <2>2
<1>8. ChangedKeys(f, g, SameRow) = Changed(was, now)
  BY <1>6, <1>7
<1> QED BY <1>8 DEF f, g

\* The limits of a view, of which there is at most one pair.
LEMMA LimitsAre ==
  ASSUME NEW m
  PROVE  /\ \A n : n \in DOMAIN BoundsUnder(Bounds(m)) <=>
                     \E s \in StatedLimits(m) : s.key = <<"bounds", n>>
         /\ \A s \in StatedLimits(m) :
              /\ s.key = <<"bounds", s.key[2]>> /\ s.unit = Absent
              /\ s.values = <<BoundsUnder(Bounds(m))[s.key[2]].minimum,
                              BoundsUnder(Bounds(m))[s.key[2]].maximum>>
<1> DEFINE limits == PolicyLimits(m)
           values == m.policy.values
           given == /\ {"minimum", "maximum"} \subseteq DOMAIN values
                    /\ IsNumber(values["minimum"]) /\ IsNumber(values["maximum"])
           bound == [name |-> m.policy.name, minimum |-> values["minimum"],
                     maximum |-> values["maximum"]]
           stated == Says("bounds", m.policy.name,
                          <<values["minimum"], values["maximum"]>>, Absent)
<1>1. /\ DOMAIN limits = {"minimum", "maximum"} \cap DOMAIN values
      /\ \A n \in DOMAIN limits : limits[n] = values[n]
  BY DEF PolicyLimits, Restrict
<1>2. DOMAIN limits = {"minimum", "maximum"} <=> {"minimum", "maximum"} \subseteq DOMAIN values
  BY <1>1
<1>3. Bounds(m) = IF given THEN {bound} ELSE {}
  BY <1>1, <1>2 DEF Bounds
<1>4. StatedLimits(m) = IF given /\ m.policy.name # Absent THEN {stated} ELSE {}
  BY DEF StatedLimits
<1>5. /\ stated.key = <<"bounds", m.policy.name>> /\ stated.unit = Absent
      /\ stated.values = <<bound.minimum, bound.maximum>>
      /\ bound.name = m.policy.name
  BY DEF Says
<1> HIDE DEF given, bound, stated
<1>6. CASE given /\ m.policy.name # Absent
  <2>1. Bounds(m) = {bound} /\ StatedLimits(m) = {stated}
    BY <1>3, <1>4, <1>6
  <2>2. BoundsUnder(Bounds(m)) = [n \in {m.policy.name} |-> bound]
    <3>1. {b.name : b \in {bound}} \ {Absent} = {m.policy.name}
      BY <1>5, <1>6
    <3>2. (CHOOSE b \in {bound} : b.name = m.policy.name) = bound
      BY <1>5
    <3> QED BY <2>1, <3>1, <3>2 DEF BoundsUnder
  <2> QED BY <1>5, <2>1, <2>2
<1>7. CASE given /\ m.policy.name = Absent
  <2>1. Bounds(m) = {bound} /\ StatedLimits(m) = {}
    BY <1>3, <1>4, <1>7
  <2>2. DOMAIN BoundsUnder(Bounds(m)) = {}
    BY <1>5, <1>7, <2>1 DEF BoundsUnder
  <2> QED BY <2>1, <2>2
<1>8. CASE ~given
  <2>1. Bounds(m) = {} /\ StatedLimits(m) = {}
    BY <1>3, <1>4, <1>8
  <2>2. DOMAIN BoundsUnder(Bounds(m)) = {}
    BY <2>1 DEF BoundsUnder
  <2> QED BY <2>1, <2>2
<1> QED BY <1>6, <1>7, <1>8

LEMMA LimitKeys ==
  ASSUME NEW m, NEW o
  PROVE  {<<"bounds", n>> :
            n \in ChangedKeys(BoundsUnder(Bounds(m)), BoundsUnder(Bounds(o)), SameBound)}
           = Changed(StatedLimits(m), StatedLimits(o))
<1> DEFINE f == BoundsUnder(Bounds(m))
           g == BoundsUnder(Bounds(o))
           was == StatedLimits(m)
           now == StatedLimits(o)
           keys == ChangedKeys(f, g, SameBound)
<1>1. /\ \A n : n \in DOMAIN f <=> \E s \in was : s.key = <<"bounds", n>>
      /\ \A s \in was : /\ s.key = <<"bounds", s.key[2]>> /\ s.unit = Absent
                        /\ s.values = <<f[s.key[2]].minimum, f[s.key[2]].maximum>>
  BY LimitsAre
<1>2. /\ \A n : n \in DOMAIN g <=> \E t \in now : t.key = <<"bounds", n>>
      /\ \A t \in now : /\ t.key = <<"bounds", t.key[2]>> /\ t.unit = Absent
                        /\ t.values = <<g[t.key[2]].minimum, g[t.key[2]].maximum>>
  BY LimitsAre
<1>3. \A n : n \in keys <=>
        /\ n \in DOMAIN f \/ n \in DOMAIN g
        /\ ~(n \in DOMAIN f /\ n \in DOMAIN g /\ SameBound(f[n], g[n]))
  BY DEF ChangedKeys
<1> HIDE DEF f, g, was, now, keys
<1>4. ASSUME NEW n, NEW s \in was, NEW t \in now, s.key = <<"bounds", n>>, t.key = <<"bounds", n>>
      PROVE  /\ SaysTheSame(s, t) <=> SameBound(f[n], g[n])
             /\ SaysTheSame(t, s) <=> SameBound(f[n], g[n])
  <2>1. /\ s.values = <<f[n].minimum, f[n].maximum>> /\ t.values = <<g[n].minimum, g[n].maximum>>
        /\ s.unit = t.unit
    BY <1>1, <1>2, <1>4
  <2>2. (\A i \in DOMAIN s.values : SameValue(s.values[i], t.values[i])) <=> SameBound(f[n], g[n])
    BY <2>1 DEF SameBound
  <2>3. (\A i \in DOMAIN t.values : SameValue(t.values[i], s.values[i])) <=> SameBound(g[n], f[n])
    BY <2>1 DEF SameBound
  <2>4. SameBound(g[n], f[n]) <=> SameBound(f[n], g[n])
    BY SameValueBothWays DEF SameBound
  <2> QED BY <1>4, <2>1, <2>2, <2>3, <2>4 DEF SaysTheSame
<1>5. \A k : k \in Changed(was, now) <=>
        \/ \E s \in was : s.key = k /\ \A t \in now : ~SaysTheSame(s, t)
        \/ \E t \in now : t.key = k /\ \A s \in was : ~SaysTheSame(t, s)
  BY DEF Changed, Lost
<1>6. ASSUME NEW k \in Changed(was, now)
      PROVE  \E n \in keys : k = <<"bounds", n>>
  <2>1. CASE \E s \in was : s.key = k /\ \A t \in now : ~SaysTheSame(s, t)
    <3>1. PICK s \in was : s.key = k /\ \A t \in now : ~SaysTheSame(s, t)
      BY <2>1
    <3>2. PICK n : k = <<"bounds", n>>
      BY <1>1, <3>1
    <3>3. n \in keys
      BY <1>1, <1>2, <1>3, <1>4, <3>1, <3>2
    <3> QED BY <3>2, <3>3
  <2>2. CASE \E t \in now : t.key = k /\ \A s \in was : ~SaysTheSame(t, s)
    <3>1. PICK t \in now : t.key = k /\ \A s \in was : ~SaysTheSame(t, s)
      BY <2>2
    <3>2. PICK n : k = <<"bounds", n>>
      BY <1>2, <3>1
    <3>3. n \in keys
      BY <1>1, <1>2, <1>3, <1>4, <3>1, <3>2
    <3> QED BY <3>2, <3>3
  <2> QED BY <1>5, <1>6, <2>1, <2>2
<1>7. ASSUME NEW n \in keys
      PROVE  <<"bounds", n>> \in Changed(was, now)
  <2>1. CASE n \in DOMAIN f
    <3>1. PICK s \in was : s.key = <<"bounds", n>>
      BY <1>1, <2>1
    <3>2. ASSUME NEW t \in now
          PROVE  ~SaysTheSame(s, t)
      <4>1. CASE t.key = <<"bounds", n>>
        BY <1>2, <1>3, <1>4, <1>7, <2>1, <3>1, <4>1
      <4>2. CASE t.key # <<"bounds", n>>
        BY <3>1, <4>2 DEF SaysTheSame
      <4> QED BY <4>1, <4>2
    <3> QED BY <1>5, <3>1, <3>2
  <2>2. CASE n \notin DOMAIN f
    <3>1. PICK t \in now : t.key = <<"bounds", n>>
      BY <1>2, <1>3, <1>7, <2>2
    <3>2. \A s \in was : s.key # <<"bounds", n>>
      BY <1>1, <2>2
    <3>3. \A s \in was : ~SaysTheSame(t, s)
      BY <3>1, <3>2 DEF SaysTheSame
    <3> QED BY <1>5, <3>1, <3>3
  <2> QED BY <2>1, <2>2
<1>8. {<<"bounds", n>> : n \in keys} = Changed(was, now)
  BY <1>6, <1>7
<1> QED BY <1>8 DEF f, g, was, now, keys

\* docs/54: what a stale verdict lists is what is stated otherwise now.
LEMMA ChangesNamed ==
  ASSUME NEW c \in Contents \cup Earlier, NEW e \in Contents \cup Earlier
  PROVE  NamedBetween[c][e]
<1> DEFINE was == ManifestOf(c)
           now == ManifestOf(e)
           rows == ChangedKeys(RowsUnder(FlatRows(View(was))), RowsUnder(FlatRows(View(now))), SameRow)
           limits == {<<"bounds", n>> :
                        n \in ChangedKeys(BoundsUnder(Bounds(was)), BoundsUnder(Bounds(now)), SameBound)}
<1>1. was \in Manifests /\ now \in Manifests
  BY DEF Manifests
<1>2. rows = Changed(StatedValues(was), StatedValues(now))
  BY <1>1, ViewMatches, StatedOnce, RowKeys
<1>3. limits = Changed(StatedLimits(was), StatedLimits(now))
  BY LimitKeys
<1>4. Listed[c][e] = rows \cup limits
  <2>1. Listed[c][e] = Differences(FlatRows(ViewOf[c]), ViewOf[c].bounds, ViewOf[e])
    BY DEF Listed
  <2>2. ViewOf[c] = View(was) /\ ViewOf[e] = View(now)
    BY DEF ViewOf
  <2>3. View(was).bounds = Bounds(was) /\ View(now).bounds = Bounds(now)
    BY DEF View
  <2> QED BY <2>1, <2>2, <2>3, Zenon DEF Differences
<1> HIDE DEF rows, limits
<1>5. ChangesAreNamed(was, now, Listed[c][e])
  BY <1>2, <1>3, <1>4 DEF ChangesAreNamed
<1> QED BY <1>5 DEF NamedBetween

-----------------------------------------------------------------------------
(* The confirmation. *)

AllScopes == UNION {GroupIds(ViewOf[c]) : c \in Contents \cup Earlier}
ConfType ==
  [run : Runs, content : Contents \cup Earlier, scope : SUBSET AllScopes,
   fields : SUBSET Fields, intact : BOOLEAN]

\* A document that matches its digest is of what its reviewer had on screen.
ConfOK ==
  conf # None =>
    /\ conf \in ConfType
    /\ conf.intact => seen = [run |-> conf.run, content |-> conf.content]

LEMMA WrittenIs ==
  ASSUME NEW r \in Runs, NEW c \in Contents \cup Earlier, NEW scope \in SUBSET AllScopes,
         NEW fields \in SUBSET Fields, seen' = [run |-> r, content |-> c],
         conf' = [run |-> r, content |-> c, scope |-> scope, fields |-> fields, intact |-> TRUE]
  PROVE  ConfOK'
<1>1. PICK yes \in BOOLEAN : yes = TRUE
  OBVIOUS
<1>2. conf' = [run |-> r, content |-> c, scope |-> scope, fields |-> fields, intact |-> yes]
  BY <1>1, Zenon
<1>3. conf' \in ConfType
  BY <1>2 DEF ConfType
<1>4. seen' = [run |-> conf'.run, content |-> conf'.content]
  BY <1>2
<1> QED BY <1>3, <1>4 DEF ConfOK

LEMMA ConfStep ==
  ASSUME AttTypeInv, ConfOK, [Next]_vars
  PROVE  ConfOK'
<1>1. \A c \in Contents \cup Earlier : GroupIds(ViewOf[c]) \in SUBSET AllScopes
  BY DEF AllScopes
<1>2. CASE UNCHANGED confVars
  BY <1>2 DEF ConfOK, confVars
<1>3. ASSUME NEW d \in Dirs, Confirm(d)
      PROVE  ConfOK'
  <2>1. RunOf(d) \in Runs /\ pkg[d].content \in Contents
    BY PayloadIs DEF AttTypeInv
  <2>2. CASE conf' = None
    BY <2>2 DEF ConfOK
  <2>3. ASSUME NEW s \in Scopes(GroupIds(ViewOf[pkg[d].content])),
               Written(RunOf(d), pkg[d].content, Confirmation(RunOf(d), pkg[d].content, s))
        PROVE  ConfOK'
    <3>1. s \in SUBSET AllScopes
      BY <1>1, <2>1 DEF Scopes
    <3>2. Fields \in SUBSET Fields
      OBVIOUS
    <3>3. /\ conf' = [run |-> RunOf(d), content |-> pkg[d].content, scope |-> s, fields |-> Fields,
                      intact |-> TRUE]
          /\ seen' = [run |-> RunOf(d), content |-> pkg[d].content]
      BY <2>3, Zenon DEF Written, Confirmation
    <3> QED BY <2>1, <3>1, <3>2, <3>3, WrittenIs, Zenon
  <2> QED BY <1>3, <2>2, <2>3 DEF Confirm, Written
<1>4. ASSUME NEW r \in Runs, NEW c \in Earlier, ConfirmEarlier(r, c)
      PROVE  ConfOK'
  <2>1. GroupIds(ViewOf[c]) \in SUBSET AllScopes /\ Fields \in SUBSET Fields
    BY <1>1
  <2>2. /\ conf' = [run |-> r, content |-> c, scope |-> GroupIds(ViewOf[c]), fields |-> Fields,
                    intact |-> TRUE]
        /\ seen' = [run |-> r, content |-> c] /\ c \in Contents \cup Earlier
    BY <1>4, Zenon DEF ConfirmEarlier, Written, Confirmation
  <2> QED BY <2>1, <2>2, WrittenIs, Zenon
<1>5. ASSUME NEW d \in Dirs, NEW missing, Transcribe(d, missing)
      PROVE  ConfOK'
  <2>1. RunOf(d) \in Runs /\ pkg[d].content \in Contents \cup Earlier
    BY PayloadIs DEF AttTypeInv
  <2>2. PICK r \in Runs, c \in Contents \cup Earlier : r = RunOf(d) /\ c = pkg[d].content
    BY <2>1
  <2>3. PICK yes \in BOOLEAN : yes = TRUE
    OBVIOUS
  <2>4. /\ conf' = [[run |-> r, content |-> c, scope |-> GroupIds(ViewOf[c]), fields |-> Fields,
                     intact |-> yes] EXCEPT !.fields = Fields \ {missing}]
        /\ seen' = [run |-> r, content |-> c]
    BY <1>5, <2>2, <2>3, Zenon DEF Transcribe, Written, Confirmation
  <2>5. conf' = [run |-> r, content |-> c, scope |-> GroupIds(ViewOf[c]),
                 fields |-> Fields \ {missing}, intact |-> yes]
    BY <2>4
  <2>6. conf' = [run |-> r, content |-> c, scope |-> GroupIds(ViewOf[c]),
                 fields |-> Fields \ {missing}, intact |-> TRUE]
    BY <2>3, <2>5, Zenon
  <2>7. GroupIds(ViewOf[c]) \in SUBSET AllScopes /\ Fields \ {missing} \in SUBSET Fields
    BY <1>1
  <2> QED BY <2>4, <2>6, <2>7, WrittenIs, Zenon
<1>6. CASE EditConfirmation
  <2>1. conf \in ConfType
    BY <1>6 DEF EditConfirmation, ConfOK
  <2>2. PICK no \in BOOLEAN : no = FALSE
    OBVIOUS
  <2>3. \/ \E c \in Contents : conf' = [conf EXCEPT !.content = c, !.intact = no]
        \/ conf' = [conf EXCEPT !.scope = AllGroupIds, !.intact = no]
    BY <1>6, <2>2, Zenon DEF EditConfirmation
  <2>4. AllGroupIds \in SUBSET AllScopes
    BY DEF AllGroupIds, AllScopes
  <2>5. conf' \in ConfType /\ conf'.intact = no
    BY <2>1, <2>3, <2>4 DEF ConfType
  <2>6. ~conf'.intact
    BY <2>2, <2>5, Zenon
  <2> QED BY <2>5, <2>6 DEF ConfOK
<1> QED BY <1>2, <1>3, <1>4, <1>5, <1>6 DEF Next, vars, confVars

\* What every reachable state of the records looks like.
RecordsInv == AttTypeInv /\ ConfOK

LEMMA RecordsAlways == Spec => []RecordsInv
<1>1. RecordsInit => RecordsInv
  BY TypeInit DEF RecordsInit, RecordsInv, ConfOK
<1>2. RecordsInv /\ [Next]_vars => RecordsInv'
  BY TypeStep, ConfStep DEF RecordsInv
<1> QED BY <1>1, <1>2, PTL DEF Spec

\* verify_confirmation: a current verdict is of the package that the reviewer saw,
\* with a whole document that covers every group of it.
THEOREM CurrentIsSeen == Spec => []CurrentMeansSeen
<1>1. ASSUME RecordsInv
      PROVE  CurrentMeansSeen
  <2> SUFFICES ASSUME NEW d \in Dirs, Verdict(d) = "current"
               PROVE  /\ seen = [run |-> RunOf(d), content |-> pkg[d].content]
                      /\ GroupIds(ViewOf[pkg[d].content]) \subseteq conf.scope
                      /\ conf.fields = Fields
    BY DEF CurrentMeansSeen
  <2>1. /\ conf # None /\ SchemaHolds /\ DigestHolds /\ SameRun(d) /\ SamePackage(d)
        /\ ScopeCovers(d) /\ ClaimIsRecorded
    BY DEF Verdict
  <2>2. seen = [run |-> conf.run, content |-> conf.content] /\ conf.fields \subseteq Fields
    BY <1>1, <2>1 DEF RecordsInv, ConfOK, ConfType, DigestHolds
  <2>3. conf.fields = Fields
    BY <2>1, <2>2 DEF SchemaHolds, ClaimIsRecorded, Fields
  <2> QED BY <2>1, <2>2, <2>3 DEF SameRun, SamePackage, ScopeCovers
<1> QED BY <1>1, RecordsAlways, PTL

\* docs/54: a stale verdict lists exactly the values, units and limits that the
\* package states otherwise than what the reviewer had on screen
\* (build_parameter_view with _differences).
THEOREM StaleIsNamed == Spec => []StaleNamesTheChange
<1>1. ASSUME RecordsInv
      PROVE  StaleNamesTheChange
  <2> SUFFICES ASSUME NEW d \in Dirs, Verdict(d) = "stale"
               PROVE  NamedBetween[seen.content][pkg[d].content]
    BY DEF StaleNamesTheChange
  <2>1. conf # None /\ DigestHolds
    BY DEF Verdict
  <2>2. seen.content = conf.content /\ conf.content \in Contents \cup Earlier
    BY <1>1, <2>1 DEF RecordsInv, ConfOK, ConfType, DigestHolds
  <2>3. pkg[d].content \in Contents \cup Earlier
    BY <1>1 DEF RecordsInv, AttTypeInv
  <2> QED BY <2>2, <2>3, ChangesNamed
<1> QED BY <1>1, RecordsAlways, PTL
=============================================================================
