---------------------------- MODULE Attestation ----------------------------
(***************************************************************************)
(* Detached attestations and their Git anchor (attestation.py): attest_run *)
(* step by step with the files it touches, its crashes and failed writes,  *)
(* the commits that people make of the files, and verify_attestation.      *)
(*                                                                         *)
(* The hashes of a package are its content: `sealed` says that what the    *)
(* manifest records is what the directory holds.  The payload of an        *)
(* attestation is the run id with that content, and an anchor record is    *)
(* the payload (its path follows from the run id, its time is left out of  *)
(* its digest).  Signatures are left out.                                  *)
(***************************************************************************)
EXTENDS Naturals, Sequences, SequencesExt

CONSTANTS
  Dirs,          \* run directories
  RunOf(_),      \* the run id of a directory: two directories may share one
  Contents,      \* what a package may hold
  Attesters,     \* processes that call attest_run
  Serves(_),     \* the run ids an attester is called for
  Adds,          \* what people add to a commit: "all", "index", or "file"
  MaxCommits, MaxActs,  \* bounds
  None,
  Broken         \* a line of the index that is not a record

Runs == {RunOf(d) : d \in Dirs}
Payloads == [run : Runs, content : Contents]
Documents == [payload : Payloads]

ASSUME AttestationAssumption ==
  /\ \A p \in Payloads : [payload |-> p] # None
  /\ Adds \subseteq {"all", "index", "file"}

VARIABLES
  pkg,       \* directory -> [content, sealed]
  att,       \* run id -> the document at attestations/<run>.attestation.json
  sup,       \* attestations/superseded: the payload in its name -> document
  index,     \* anchor-index.jsonl: lines, a record or Broken
  torn,      \* the last line of the index has no newline
  commits,   \* the reachable commits, oldest first: [att, index, touches]
  call,      \* attester -> its attest_run
  attested,  \* ghost: the payloads of the calls that returned ATTESTED
  acts       \* bound: the calls, and the changes of packages and confirmations

files == <<att, sup, index, torn>>
attVars == <<pkg, files, commits, call, attested, acts>>

Idle == [pc |-> "idle"]
Records(lines) == Range(lines) \ {Broken}

AttInit ==
  /\ pkg \in [Dirs -> [content : Contents, sealed : {TRUE}]]
  /\ att = [r \in Runs |-> None]
  /\ sup = [p \in Payloads |-> None]
  /\ index = <<>> /\ torn = FALSE
  /\ commits = << [att |-> att, index |-> <<>>, touches |-> FALSE] >>
  /\ call = [a \in Attesters |-> Idle]
  /\ attested = {}
  /\ acts = 0

-----------------------------------------------------------------------------
(* build_payload and attest_run *)

Payload(d) == [run |-> RunOf(d), content |-> pkg[d].content]

\* The package is read and verified; a package that is not intact is refused.
Attest(a, d, anchor, replace) ==
  /\ call[a] = Idle /\ acts < MaxActs /\ RunOf(d) \in Serves(a)
  /\ pkg[d].sealed
  /\ call' = [call EXCEPT ![a] = [pc |-> "look", payload |-> Payload(d),
                                  anchor |-> anchor, replace |-> replace,
                                  old |-> None, newline |-> FALSE]]
  /\ acts' = acts + 1
  /\ UNCHANGED <<pkg, files, commits, attested>>

Here(a) == call[a].payload.run
Goto(a, pc) == call' = [call EXCEPT ![a].pc = pc]
End(a) == call' = [call EXCEPT ![a] = Idle]
Returned(a) ==
  /\ End(a)
  /\ attested' = attested \cup {call[a].payload}

AfterWrite(a) == IF call[a].anchor THEN "scan" ELSE "return"

\* The document that is there: none, the same payload, or another one, which
\* is a conflict unless the caller asked to replace it.
\* Mutant: the document that is replaced is written over.
LookFindsOverwriting(a) ==
  LET doc == att[Here(a)]
  IN IF doc = None \/ (doc.payload # call[a].payload /\ call[a].replace) THEN "write"
     ELSE IF doc.payload = call[a].payload THEN AfterWrite(a) ELSE "conflict"
LookFinds(a) ==
  LET doc == att[Here(a)]
  IN CASE doc = None -> "write"
       [] doc # None /\ doc.payload = call[a].payload -> AfterWrite(a)
       [] doc # None /\ doc.payload # call[a].payload /\ call[a].replace -> "supersede"
       [] OTHER -> "conflict"

Look(a) ==
  /\ call[a].pc = "look"
  /\ \/ /\ LookFinds(a) = "conflict" /\ End(a)
     \/ /\ LookFinds(a) = "supersede"
        /\ call' = [call EXCEPT ![a].pc = "supersede", ![a].old = att[Here(a)].payload]
     \/ /\ LookFinds(a) \notin {"conflict", "supersede"} /\ Goto(a, LookFinds(a))
  /\ UNCHANGED <<pkg, files, commits, attested, acts>>

\* os.replace(path, superseded/<run>.<old hash>): a document already there is
\* replaced.  It fails when the document is gone, and may fail otherwise.
Supersede(a) ==
  /\ call[a].pc = "supersede"
  /\ att[Here(a)] # None
  /\ sup' = [sup EXCEPT ![call[a].old] = att[Here(a)]]
  /\ att' = [att EXCEPT ![Here(a)] = None]
  /\ Goto(a, "write")
  /\ UNCHANGED <<pkg, index, torn, commits, attested, acts>>

\* _atomic_write: the whole document or nothing.
Write(a) ==
  /\ call[a].pc = "write"
  /\ att' = [att EXCEPT ![Here(a)] = [payload |-> call[a].payload]]
  /\ Goto(a, AfterWrite(a))
  /\ UNCHANGED <<pkg, sup, index, torn, commits, attested, acts>>

\* _append_anchor_record: the records that can be read, then whether the file
\* ends with a newline.
Scan(a) ==
  /\ call[a].pc = "scan"
  /\ IF call[a].payload \in Records(index) THEN Goto(a, "return")
     ELSE call' = [call EXCEPT ![a].pc = "append", ![a].newline = torn]
  /\ UNCHANGED <<pkg, files, commits, attested, acts>>

\* The index with a text added, behind a newline or glued to the last line.
Added(a, line) ==
  IF torn /\ ~call[a].newline THEN [index EXCEPT ![Len(index)] = Broken]
  ELSE Append(index, line)

AppendRecord(a) ==
  /\ call[a].pc = "append"
  /\ index' = Added(a, call[a].payload) /\ torn' = FALSE
  /\ Goto(a, "return")
  /\ UNCHANGED <<pkg, att, sup, commits, attested, acts>>

\* The status is ATTESTED whatever the verification at the end says.
Return(a) ==
  /\ call[a].pc = "return" /\ Returned(a)
  /\ UNCHANGED <<pkg, files, commits, acts>>

\* A step fails with an OSError, or the process dies: what it wrote stays.  A
\* crash in the middle of the append leaves a part of a line, or a whole one
\* without its newline.
Fail(a) ==
  /\ call[a].pc \notin {"idle", "return"}
  /\ End(a)
  /\ \/ UNCHANGED <<index, torn>>
     \/ /\ call[a].pc = "append" /\ torn' = TRUE
        /\ \E line \in {Broken, call[a].payload} : index' = Added(a, line)
  /\ UNCHANGED <<pkg, att, sup, commits, attested, acts>>

-----------------------------------------------------------------------------
(* people and the packages *)

\* A package is replaced by another run with the same id, or a file in it is
\* edited, so that it does not match its own hashes any more.
Republish(d) ==
  /\ acts < MaxActs /\ acts' = acts + 1
  /\ \E c \in Contents \ {pkg[d].content} :
       pkg' = [pkg EXCEPT ![d] = [content |-> c, sealed |-> TRUE]]
  /\ UNCHANGED <<files, commits, call, attested>>
EditInPlace(d) ==
  /\ acts < MaxActs /\ acts' = acts + 1
  /\ pkg[d].sealed
  /\ pkg' = [pkg EXCEPT ![d].sealed = FALSE]
  /\ UNCHANGED <<files, commits, call, attested>>

\* git add and git commit of the directory, of the index, or of one document.
Tip == Last(commits)
Commit(add, r) ==
  LET tree == [att |-> CASE add = "all" -> att
                         [] add = "file" -> [Tip.att EXCEPT ![r] = att[r]]
                         [] add = "index" -> Tip.att,
               index |-> IF add = "file" THEN Tip.index ELSE index]
  IN /\ Len(commits) <= MaxCommits
     /\ tree.att # Tip.att \/ tree.index # Tip.index
     /\ commits' = Append(commits, [att |-> tree.att, index |-> tree.index,
                                    touches |-> tree.index # Tip.index])
     /\ UNCHANGED <<pkg, files, call, attested, acts>>

AttNext ==
  \/ \E a \in Attesters :
       \/ \E d \in Dirs, anchor, replace \in BOOLEAN : Attest(a, d, anchor, replace)
       \/ Look(a) \/ Supersede(a) \/ Write(a) \/ Scan(a) \/ AppendRecord(a)
       \/ Return(a) \/ Fail(a)
  \/ \E d \in Dirs : Republish(d) \/ EditInPlace(d)
  \/ \E r \in Runs, add \in Adds : Commit(add, r)

-----------------------------------------------------------------------------
(* verify_git_anchor and verify_attestation *)

\* git log --all -- <index> lists the commits that change the index.
Matching(p) == {i \in DOMAIN commits : commits[i].touches /\ p \in Records(commits[i].index)}
AttestationIn(i, p) == commits[i].att[p.run] # None /\ commits[i].att[p.run].payload = p
\* Mutant: only the newest commit with the record is looked at.
AnchorStatusOfNewest(p) ==
  CASE Matching(p) = {} -> IF p \in Records(index) THEN "uncommitted" ELSE "record_missing"
    [] Matching(p) # {} ->
         IF \E i \in Matching(p) : (\A j \in Matching(p) : j <= i) /\ AttestationIn(i, p)
         THEN "committed" ELSE "attestation_missing_from_commit"
AnchorStatus(p) ==
  CASE Matching(p) = {} -> IF p \in Records(index) THEN "uncommitted" ELSE "record_missing"
    [] Matching(p) # {} -> IF \E i \in Matching(p) : AttestationIn(i, p)
                           THEN "committed" ELSE "attestation_missing_from_commit"

\* The trust level of a directory with the document of its run id.
\* Mutant: the run id is compared, the hashes are not.
TrustOfTheRun(d) ==
  LET doc == att[RunOf(d)]
  IN IF doc = None \/ ~pkg[d].sealed THEN "none"
     ELSE IF AnchorStatus(doc.payload) = "committed" THEN "L1_anchored" ELSE "L1_pending"
Trust(d) ==
  LET doc == att[RunOf(d)]
  IN CASE doc = None -> "none"
       [] doc # None /\ (~pkg[d].sealed \/ doc.payload # Payload(d)) -> "none"
       [] OTHER -> IF AnchorStatus(doc.payload) = "committed" THEN "L1_anchored" ELSE "L1_pending"
=============================================================================
