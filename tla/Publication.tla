---------------------------- MODULE Publication ----------------------------
(***************************************************************************)
(* The transaction of src/pe_sim/artifacts.py: calls of Runner.run, in     *)
(* threads or processes of their own, publish into one output directory    *)
(* without a lock.  Each call validates its run id, scans for abandoned    *)
(* directories, builds its package in a hidden temporary directory         *)
(* .<run_id>.<suffix>, and renames it to <run_id>.                         *)
(*                                                                         *)
(* A step is one operation on the file system, which other calls see.  A   *)
(* call may die anywhere, any write may raise, and an operator may remove  *)
(* the temporary directories of calls that are gone.                       *)
(***************************************************************************)
EXTENDS FiniteSets

CONSTANTS
  RunIds,     \* run ids in use
  Calls,      \* calls of Runner.run, each with its own temporary directory
  NoCall,     \* nobody
  Required,   \* ArtifactWriter.REQUIRED but for manifest.json
  Optional,   \* artifacts the package may lack (samples.npz)
  Keep,       \* logs/.keep, which the writer creates
  Shadows,    \* <<i, j>>: the glob .<i>.* matches directories .<j>.<suffix>
  WriteFaults, \* a write may raise (disk full, a value JSON cannot hold)
  Crashes     \* the process of a call may die

ASSUME ArtifactAssumption == Keep \in Required /\ Required \cap Optional = {}
ASSUME CallAssumption ==
  /\ NoCall \notin Calls /\ RunIds # {}
  /\ Shadows \subseteq RunIds \X RunIds /\ \A i \in RunIds : <<i, i>> \in Shadows
  /\ WriteFaults \in BOOLEAN /\ Crashes \in BOOLEAN

VARIABLES
  pc,       \* where a call is
  id,       \* the run id a call was given
  temp,     \* the temporary directory of a call
  visible,  \* the directory <run_id>
  index,    \* manifest["artifacts"] of a call
  report    \* the directories a call recorded as abandoned, by their call
vars == <<pc, id, temp, visible, index, report>>

Artifacts == Required \cup Optional
Markers == {"none", "RUNNING", "READY_TO_PUBLISH", "PUBLISHED"}

(***************************************************************************)
(* A directory: the call that made it, its artifacts, whether it holds a   *)
(* manifest and the artifact index in it, the .run-state.json marker, and  *)
(* whether _atomic_write's temporary file for the marker lies next to it.  *)
(***************************************************************************)
Dir == [owner: Calls \cup {NoCall}, files: SUBSET Artifacts,
        manifest: BOOLEAN, indexed: SUBSET Artifacts, marker: Markers,
        stray: BOOLEAN]
NoDir == [owner |-> NoCall, files |-> {}, manifest |-> FALSE, indexed |-> {},
          marker |-> "none", stray |-> FALSE]
Exists(d) == d.owner # NoCall

Active == {"first_target", "first_stale", "scan", "target", "stale", "create",
           "start", "write", "index", "manifest", "final_target", "validate", "ready",
           "rename", "marking", "mark", "return"}
\* failed: another package or a broken index was found; raised: a write failed
Over == {"returned", "refused", "failed", "raised", "dead"}

Init ==
  /\ pc = [c \in Calls |-> "idle"]
  /\ id \in [Calls -> RunIds]
  /\ temp = [c \in Calls |-> NoDir]
  /\ visible = [i \in RunIds |-> NoDir]
  /\ index = [c \in Calls |-> {}]
  /\ report = [c \in Calls |-> {}]

Goto(c, from, to) == pc[c] = from /\ pc' = [pc EXCEPT ![c] = to]

Begin(c) ==
  /\ Goto(c, "idle", "first_target")
  /\ UNCHANGED <<id, temp, visible, index, report>>

(***************************************************************************)
(* validate_run_location, run by Runner.run before the preflight and again *)
(* by the ArtifactWriter: the target, then the temporary directories.      *)
(***************************************************************************)
CheckTarget(c) ==
  /\ \/ Goto(c, "first_target",
             IF Exists(visible[id[c]]) THEN "refused" ELSE "first_stale")
     \/ Goto(c, "target",
             IF Exists(visible[id[c]]) THEN "refused" ELSE "stale")
  /\ UNCHANGED <<id, temp, visible, index, report>>

Stale(c) == {d \in Calls : Exists(temp[d]) /\ <<id[c], id[d]>> \in Shadows}

CheckStale(c) ==
  /\ \/ Goto(c, "first_stale", IF Stale(c) = {} THEN "scan" ELSE "refused")
     \/ Goto(c, "stale", IF Stale(c) = {} THEN "create" ELSE "refused")
  /\ UNCHANGED <<id, temp, visible, index, report>>

\* scan_abandoned_runs: what manifest.json and events.json will list
Scan(c) ==
  /\ Goto(c, "scan", "target")
  /\ report' = [report EXCEPT ![c] =
       {d \in Calls : Exists(temp[d]) /\ temp[d].marker # "PUBLISHED"}]
  /\ UNCHANGED <<id, temp, visible, index>>

(***************************************************************************)
(* Building the package in the temporary directory.                        *)
(***************************************************************************)
Create(c) ==
  /\ Goto(c, "create", "start")
  /\ temp' = [temp EXCEPT ![c] = [NoDir EXCEPT !.owner = c]]
  /\ UNCHANGED <<id, visible, index, report>>

StartWriter(c) ==
  /\ Goto(c, "start", "write")
  /\ temp' = [temp EXCEPT ![c].files = {Keep}, ![c].marker = "RUNNING"]
  /\ UNCHANGED <<id, visible, index, report>>

WriteArtifact(c) ==
  /\ pc[c] = "write"
  /\ \E f \in Artifacts \ temp[c].files :
       temp' = [temp EXCEPT ![c].files = @ \cup {f}]
  /\ UNCHANGED <<pc, id, visible, index, report>>

WritesEnd(c) ==
  /\ Required \subseteq temp[c].files
  /\ Goto(c, "write", "index")
  /\ UNCHANGED <<id, temp, visible, index, report>>

IndexArtifacts(c) ==
  /\ Goto(c, "index", "manifest")
  /\ index' = [index EXCEPT ![c] = temp[c].files]
  /\ UNCHANGED <<id, temp, visible, report>>

WriteManifest(c) ==
  /\ Goto(c, "manifest", "final_target")
  /\ temp' = [temp EXCEPT ![c].manifest = TRUE, ![c].indexed = index[c]]
  /\ UNCHANGED <<id, visible, index, report>>

(***************************************************************************)
(* finalize.  An exception leaves the temporary directory behind.          *)
(***************************************************************************)
\* Mutant of FinalTarget: finalize repeats the whole location check.
FinalLocation(c) ==
  /\ Goto(c, "final_target",
          IF \/ Exists(visible[id[c]])
             \/ \E d \in Calls \ {c} : Exists(temp[d]) /\ id[d] = id[c]
          THEN "failed" ELSE "validate")
  /\ UNCHANGED <<id, temp, visible, index, report>>

FinalTarget(c) ==
  /\ Goto(c, "final_target",
          IF Exists(visible[id[c]]) THEN "failed" ELSE "validate")
  /\ UNCHANGED <<id, temp, visible, index, report>>

\* the required artifacts, then the index and the digests of the manifest
Whole(d) == d.manifest /\ Required \subseteq d.files /\ d.indexed = d.files

Validate(c) ==
  /\ Goto(c, "validate", IF Whole(temp[c]) THEN "ready" ELSE "failed")
  /\ UNCHANGED <<id, temp, visible, index, report>>

\* Mutant of MarkReady: the package calls itself published before it is.
MarkEarly(c) ==
  /\ Goto(c, "ready", "rename")
  /\ temp' = [temp EXCEPT ![c].marker = "PUBLISHED"]
  /\ UNCHANGED <<id, visible, index, report>>

MarkReady(c) ==
  /\ Goto(c, "ready", "rename")
  /\ temp' = [temp EXCEPT ![c].marker = "READY_TO_PUBLISH"]
  /\ UNCHANGED <<id, visible, index, report>>

\* Mutant of Rename: an existing package is replaced (shutil.move after rmtree).
RenameOver(c) ==
  /\ Goto(c, "rename", "marking")
  /\ visible' = [visible EXCEPT ![id[c]] = temp[c]]
  /\ temp' = [temp EXCEPT ![c] = NoDir]
  /\ UNCHANGED <<id, index, report>>

\* os.replace of a directory: fails when the target exists and is not empty
Rename(c) ==
  /\ IF Exists(visible[id[c]])
     THEN Goto(c, "rename", "failed") /\ UNCHANGED <<visible, temp>>
     ELSE /\ Goto(c, "rename", "marking")
          /\ visible' = [visible EXCEPT ![id[c]] = temp[c]]
          /\ temp' = [temp EXCEPT ![c] = NoDir]
  /\ UNCHANGED <<id, index, report>>

\* the new marker is written next to the old one, then replaces it
StartMark(c) ==
  /\ Goto(c, "marking", "mark")
  /\ visible' = [visible EXCEPT ![id[c]].stray = TRUE]
  /\ UNCHANGED <<id, temp, index, report>>

MarkPublished(c) ==
  /\ Goto(c, "mark", "return")
  /\ visible' = [visible EXCEPT ![id[c]].stray = FALSE,
                                ![id[c]].marker = "PUBLISHED"]
  /\ UNCHANGED <<id, temp, index, report>>

Return(c) ==
  /\ Goto(c, "return", "returned")
  /\ UNCHANGED <<id, temp, visible, index, report>>

(***************************************************************************)
(* What goes wrong, and the operator.                                      *)
(***************************************************************************)
Writing == {"start", "write", "manifest", "ready", "marking", "mark"}

\* Mutant of WriteFails: the temporary directory is removed on an error.
WriteFailsAborting(c) ==
  /\ WriteFaults /\ pc[c] \in Writing
  /\ pc' = [pc EXCEPT ![c] = "raised"]
  /\ temp' = [temp EXCEPT ![c] = NoDir]
  /\ visible' = IF pc[c] = "mark" THEN [visible EXCEPT ![id[c]].stray = FALSE]
                ELSE visible
  /\ UNCHANGED <<id, index, report>>

\* _atomic_write raises; its temporary file is removed on the way out
WriteFails(c) ==
  /\ WriteFaults /\ pc[c] \in Writing
  /\ pc' = [pc EXCEPT ![c] = "raised"]
  /\ visible' = IF pc[c] = "mark" THEN [visible EXCEPT ![id[c]].stray = FALSE]
                ELSE visible
  /\ UNCHANGED <<id, temp, index, report>>

Crash(c) ==
  /\ Crashes /\ pc[c] \in Active
  /\ pc' = [pc EXCEPT ![c] = "dead"]
  /\ UNCHANGED <<id, temp, visible, index, report>>

CleanUp(c) ==
  /\ pc[c] \in {"failed", "raised", "dead"} /\ Exists(temp[c])
  /\ temp' = [temp EXCEPT ![c] = NoDir]
  /\ UNCHANGED <<pc, id, visible, index, report>>

Step(c) ==
  \/ CheckTarget(c) \/ CheckStale(c) \/ Scan(c) \/ Create(c)
  \/ StartWriter(c) \/ WriteArtifact(c) \/ WritesEnd(c) \/ IndexArtifacts(c)
  \/ WriteManifest(c) \/ FinalTarget(c) \/ Validate(c) \/ MarkReady(c)
  \/ Rename(c) \/ StartMark(c) \/ MarkPublished(c) \/ Return(c)

Next == \E c \in Calls :
          Begin(c) \/ Step(c) \/ WriteFails(c) \/ Crash(c) \/ CleanUp(c)

Spec == Init /\ [][Next]_vars
\* every call is run by a thread that goes on
FairSpec == Spec /\ \A c \in Calls : WF_vars(Step(c))
-----------------------------------------------------------------------------
\* The variables hold the values the code gives them.
TypeOK ==
  /\ pc \in [Calls -> Active \cup Over \cup {"idle"}]
  /\ id \in [Calls -> RunIds]
  /\ temp \in [Calls -> Dir] /\ visible \in [RunIds -> Dir]
  /\ index \in [Calls -> SUBSET Artifacts]
  /\ report \in [Calls -> SUBSET Calls]

(***************************************************************************)
(* The output directory as RunStore sees it.                               *)
(***************************************************************************)
Store == INSTANCE RunStore WITH
  runs <- [i \in RunIds |->
             [owner |-> visible[i].owner, whole |-> Whole(visible[i]),
              marked |-> visible[i].marker = "PUBLISHED"]],
  returned <- {c \in Calls : pc[c] = "returned"}

\* However calls of one run id race, the output directory behaves as
\* RunStore: a package appears whole, in one step, under an id that was
\* free, and a call returns only what it published itself.
StoreSpec == Store!Spec

\* docs/27 line 87: PUBLISHED says that the package transaction and its
\* integrity checks were completed.  Wherever a call died or failed, a
\* directory with that marker verifies against its manifest.
Verifies(d) == Whole(d) /\ ~d.stray
MarkerMeansVerified ==
  \A d \in {visible[i] : i \in RunIds} \cup {temp[c] : c \in Calls} :
    d.marker = "PUBLISHED" => Verifies(d)

\* docs/18: a failed validation or rename "leaves only an INCOMPLETE
\* temporary candidate", and partial evidence is kept for review.  The
\* temporary directory of a call goes away only by becoming its package or
\* by the operator's hand, after the call is over.
EvidenceIsKept ==
  [][\A c \in Calls : Exists(temp[c]) /\ ~Exists(temp'[c]) =>
       \/ visible'[id[c]].owner = c
       \/ pc[c] \in Over /\ pc'[c] = pc[c]]_vars

\* Calls that compete for an id, or for ids that shadow each other, never
\* refuse each other to the last one: unless a write raises or a process
\* dies, one of them publishes.
SomeoneWins ==
  \A c \in Calls : pc[c] # "idle" ~>
    \/ \E j \in RunIds : /\ <<id[c], j>> \in Shadows
                         /\ visible[j].marker = "PUBLISHED"
    \/ \E d \in Calls : pc[d] \in {"raised", "dead"}
=============================================================================
