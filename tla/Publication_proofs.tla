------------------------- MODULE Publication_proofs -------------------------
(***************************************************************************)
(* Proofs about Publication for any number of calls and run ids, any set   *)
(* of artifacts and any relation between the ids, with writes that raise   *)
(* and processes that die anywhere.                                        *)
(*                                                                         *)
(* The argument: a call owns its temporary directory until it owns the     *)
(* directory of its run id, never both, and what it has written so far is  *)
(* known from where it is.  A step of a call cannot disturb what is known  *)
(* of another one (OthersStay), so each step is examined for the call that *)
(* takes it alone (LocalStep).                                             *)
(***************************************************************************)
EXTENDS Publication, TLAPS

Before == {"idle", "first_target", "first_stale", "scan", "target", "stale",
           "create", "refused"}
Written == {"index", "manifest", "final_target", "validate", "ready", "rename"}
Finalizing == {"final_target", "validate", "ready", "rename"}
Published == {"marking", "mark", "return", "returned"}

\* what a call has done, from where it is
CallOK(c) ==
  /\ pc[c] \in Before => temp[c] = NoDir /\ \A i \in RunIds : visible[i].owner # c
  /\ pc[c] \in {"start", "write"} \cup Written => temp[c].owner = c
  /\ pc[c] \in Written => Required \subseteq temp[c].files
  /\ pc[c] = "manifest" => index[c] = temp[c].files
  /\ pc[c] \in Finalizing => temp[c].manifest /\ temp[c].indexed = temp[c].files
  /\ pc[c] \in Published => visible[id[c]].owner = c
  /\ pc[c] \in {"marking", "mark"} => visible[id[c]].marker # "PUBLISHED"
  /\ pc[c] = "marking" => ~visible[id[c]].stray
  /\ pc[c] \in {"return", "returned"} => visible[id[c]].marker = "PUBLISHED"

\* a temporary directory belongs to its call, which has not published
TempOK(c) ==
  /\ temp[c].owner \in {NoCall, c}
  /\ temp[c].marker # "PUBLISHED" /\ ~temp[c].stray
  /\ Exists(temp[c]) => \A i \in RunIds : visible[i].owner # c

\* a directory is a whole package of a call that was given this id
VisibleOK(i) ==
  LET v == visible[i]
  IN \/ v = NoDir
     \/ /\ v.owner \in Calls /\ id[v.owner] = i
        /\ pc[v.owner] \in Published \cup {"failed", "raised", "dead"}
        /\ Whole(v) /\ (v.marker = "PUBLISHED" => ~v.stray)

PublicationInv ==
  /\ TypeOK
  /\ \A c \in Calls : CallOK(c) /\ TempOK(c)
  /\ \A i \in RunIds : VisibleOK(i)

PCs == Active \cup Over \cup {"idle"}

\* What a step of call c may touch: its own program counter and directory,
\* and the directory of its run id if that is free or its own.
Mine(c) ==
  /\ id' = id
  /\ \A d \in Calls \ {c} : /\ pc'[d] = pc[d] /\ temp'[d] = temp[d]
                            /\ index'[d] = index[d]
  /\ \A i \in RunIds \ {id[c]} : visible'[i] = visible[i]
  /\ \/ visible'[id[c]] = visible[id[c]]
     \/ visible[id[c]].owner \in {NoCall, c} /\ visible'[id[c]].owner = c

-----------------------------------------------------------------------------
\* Where a call is.
LEMMA PCFacts ==
  {"idle", "first_target", "first_stale", "scan", "target", "stale", "create",
   "start", "write", "index", "manifest", "final_target", "validate", "ready",
   "rename", "marking", "mark", "return", "returned", "refused", "failed",
   "raised", "dead"} \subseteq PCs
BY DEF PCs, Active, Over

\* A step of one call leaves what is known of the others.
LEMMA OthersStay ==
  ASSUME PublicationInv, NEW c \in Calls, Mine(c)
  PROVE  /\ \A d \in Calls \ {c} : (CallOK(d) /\ TempOK(d))'
         /\ \A i \in RunIds \ {id[c]} : VisibleOK(i)'
<1>0. /\ id' = id /\ id \in [Calls -> RunIds] /\ NoCall \notin Calls
  BY CallAssumption DEF PublicationInv, TypeOK, Mine
<1>1. ASSUME NEW d \in Calls \ {c}
      PROVE  (CallOK(d) /\ TempOK(d))'
  <2>1. /\ pc'[d] = pc[d] /\ temp'[d] = temp[d] /\ index'[d] = index[d]
        /\ id[d] \in RunIds /\ id[c] \in RunIds /\ d # NoCall /\ d # c
    BY <1>0 DEF Mine
  <2>2. \A i \in RunIds : visible[i].owner = d => visible'[i] = visible[i]
    BY <2>1 DEF Mine
  <2>3. \A i \in RunIds : visible'[i].owner = d => visible'[i] = visible[i]
    BY <2>1 DEF Mine
  <2>4. CallOK(d) /\ TempOK(d)
    BY DEF PublicationInv
  <2>5. TempOK(d)'
    BY <1>0, <2>1, <2>3, <2>4 DEF TempOK, Exists
  <2>6. CallOK(d)'
    BY <1>0, <2>1, <2>2, <2>3, <2>4 DEF CallOK, Published
  <2> QED
    BY <2>5, <2>6
<1>2. ASSUME NEW i \in RunIds \ {id[c]}
      PROVE  VisibleOK(i)'
  <2>1. visible'[i] = visible[i] /\ VisibleOK(i)
    BY DEF Mine, PublicationInv
  <2>2. CASE visible[i] = NoDir
    BY <2>1, <2>2 DEF VisibleOK
  <2>3. CASE visible[i] # NoDir
    <3>1. visible[i].owner \in Calls \ {c}
      BY <2>1, <2>3 DEF VisibleOK
    <3>2. pc'[visible[i].owner] = pc[visible[i].owner]
      BY <3>1 DEF Mine
    <3> QED
      BY <1>0, <2>1, <2>3, <3>1, <3>2 DEF VisibleOK
  <2> QED
    BY <2>2, <2>3
<1> QED
  BY <1>1, <1>2

LEMMA LocalStep ==
  ASSUME PublicationInv, NEW c \in Calls, Mine(c), TypeOK',
         CallOK(c)', TempOK(c)', VisibleOK(id[c])'
  PROVE  PublicationInv'
<1>1. id' = id /\ id[c] \in RunIds
  BY DEF PublicationInv, TypeOK, Mine
<1> QED
  BY <1>1, OthersStay DEF PublicationInv

\* A step that only moves the call on.
LEMMA MoveOn ==
  ASSUME PublicationInv, NEW c \in Calls, NEW to \in PCs,
         pc' = [pc EXCEPT ![c] = to], id' = id, temp' = temp,
         visible' = visible, index' \in [Calls -> SUBSET Artifacts],
         \A d \in Calls \ {c} : index'[d] = index[d],
         report' \in [Calls -> SUBSET Calls],
         CallOK(c)',
         visible[id[c]].owner = c => to \in Published \cup {"failed", "raised", "dead"}
  PROVE  PublicationInv'
<1>0. /\ TypeOK /\ CallOK(c) /\ TempOK(c) /\ VisibleOK(id[c])
      /\ pc \in [Calls -> PCs]
  BY DEF PublicationInv, TypeOK, PCs
<1>1. TypeOK'
  BY <1>0 DEF TypeOK, PCs
<1>2. Mine(c)
  BY <1>0 DEF Mine
<1>3. TempOK(c)'
  BY <1>0 DEF TempOK, Exists
<1>4. VisibleOK(id[c])'
  BY <1>0 DEF VisibleOK
<1> QED
  BY <1>1, <1>2, <1>3, <1>4, LocalStep

-----------------------------------------------------------------------------
(***************************************************************************)
(* Every step preserves the invariant.                                     *)
(***************************************************************************)
LEMMA InitInv == Init => PublicationInv
<1> SUFFICES ASSUME Init PROVE PublicationInv
  OBVIOUS
<1>1. NoDir \in Dir
  BY DEF NoDir, Dir, Markers
<1>2. TypeOK
  BY <1>1 DEF Init, TypeOK
<1>3. ASSUME NEW c \in Calls PROVE CallOK(c) /\ TempOK(c)
  <2>1. /\ pc[c] = "idle" /\ temp[c] = NoDir
        /\ \A i \in RunIds : visible[i] = NoDir
    BY DEF Init
  <2>2. NoDir.owner = NoCall /\ NoDir.marker = "none" /\ NoDir.stray = FALSE
        /\ NoCall # c
    BY CallAssumption DEF NoDir
  <2> QED
    BY <2>1, <2>2
       DEF CallOK, TempOK, Exists, Before, Written, Finalizing, Published
<1>4. \A i \in RunIds : VisibleOK(i)
  BY DEF Init, VisibleOK
<1> QED
  BY <1>2, <1>3, <1>4 DEF PublicationInv

\* The steps before the temporary directory exists.
LEMMA BeforeStep ==
  ASSUME PublicationInv, NEW c \in Calls,
         Begin(c) \/ CheckTarget(c) \/ CheckStale(c) \/ Scan(c)
  PROVE  PublicationInv'
<1>0. TypeOK /\ CallOK(c) /\ id[c] \in RunIds
  BY DEF PublicationInv, TypeOK
<1>1. /\ id' = id /\ temp' = temp /\ visible' = visible /\ index' = index
      /\ report' \in [Calls -> SUBSET Calls]
  <2>0. report \in [Calls -> SUBSET Calls]
    BY <1>0 DEF TypeOK
  <2>1. CASE Begin(c) \/ CheckTarget(c)
    BY <2>0, <2>1 DEF Begin, CheckTarget
  <2>2. CASE CheckStale(c)
    BY <2>0, <2>2 DEF CheckStale
  <2>3. CASE Scan(c)
    <3>1. {d \in Calls : Exists(temp[d]) /\ temp[d].marker # "PUBLISHED"}
            \in SUBSET Calls
      OBVIOUS
    <3>2. report' \in [Calls -> SUBSET Calls]
      BY <2>0, <2>3, <3>1 DEF Scan
    <3> QED
      BY <2>0, <2>3, <3>2 DEF Scan
  <2> QED
    BY <2>1, <2>2, <2>3
<1>2. PICK to \in Before : pc[c] \in Before /\ pc' = [pc EXCEPT ![c] = to]
  <2>1. CASE Begin(c)
    BY <2>1 DEF Begin, Goto, Before
  <2>2. CASE CheckTarget(c)
    BY <2>2 DEF CheckTarget, Goto, Before
  <2>3. CASE CheckStale(c)
    BY <2>3 DEF CheckStale, Goto, Before
  <2>4. CASE Scan(c)
    BY <2>4 DEF Scan, Goto, Before
  <2> QED
    BY <2>1, <2>2, <2>3, <2>4
<1>3. to \in PCs /\ pc'[c] = to
  BY <1>0, <1>2, PCFacts DEF Before, TypeOK
<1>4. to \notin {"start", "write"} \cup Written \cup Finalizing \cup Published
      /\ to \notin {"manifest", "marking", "mark", "return", "returned"}
  BY <1>2 DEF Before, Written, Finalizing, Published
<1>5. temp[c] = NoDir /\ \A i \in RunIds : visible[i].owner # c
  BY <1>0, <1>2 DEF CallOK
<1>6. CallOK(c)'
  BY <1>1, <1>3, <1>4, <1>5 DEF CallOK
<1> QED
  BY <1>0, <1>1, <1>2, <1>3, <1>5, <1>6, MoveOn DEF TypeOK

\* The steps that write nothing: they move the call on, and what is then
\* said of it holds already.
LEMMA PlainStep ==
  ASSUME PublicationInv, NEW c \in Calls,
         WritesEnd(c) \/ IndexArtifacts(c) \/ FinalTarget(c) \/ Validate(c)
         \/ Return(c) \/ Crash(c)
  PROVE  PublicationInv'
<1>0. /\ TypeOK /\ CallOK(c) /\ TempOK(c) /\ id[c] \in RunIds /\ temp[c] \in Dir
      /\ VisibleOK(id[c]) /\ NoCall # c /\ c \in Calls
  BY CallAssumption DEF PublicationInv, TypeOK
<1>1. /\ id' = id /\ temp' = temp /\ visible' = visible
      /\ report' = report
  BY DEF WritesEnd, IndexArtifacts, FinalTarget, Validate, Return, Crash
<1>2. /\ index' \in [Calls -> SUBSET Artifacts]
      /\ \A d \in Calls \ {c} : index'[d] = index[d]
      /\ IndexArtifacts(c) => index'[c] = temp[c].files
  BY <1>0 DEF WritesEnd, IndexArtifacts, FinalTarget, Validate, Return, Crash,
     TypeOK, Dir
<1>3. PICK to \in PCs :
        /\ pc' = [pc EXCEPT ![c] = to]
        /\ \/ pc[c] = "write" /\ to = "index" /\ Required \subseteq temp[c].files
           \/ pc[c] = "index" /\ to = "manifest" /\ index'[c] = temp[c].files
           \/ pc[c] = "final_target" /\ to = "validate"
           \/ pc[c] = "validate" /\ to = "ready"
           \/ pc[c] = "return" /\ to = "returned"
           \/ to \in {"failed", "raised", "dead"}
  BY <1>2, PCFacts
     DEF WritesEnd, IndexArtifacts, FinalTarget, Validate, Return, Crash, Goto
<1>4. pc'[c] = to
  BY <1>0, <1>3 DEF TypeOK
<1>5. CallOK(c)'
  BY <1>0, <1>1, <1>2, <1>3, <1>4
     DEF CallOK, Before, Written, Finalizing, Published
<1>6. visible[id[c]].owner = c => to \in Published \cup {"failed", "raised", "dead"}
  <2>1. visible[id[c]].owner = c =>
          pc[c] \in Published \cup {"failed", "raised", "dead"}
    BY <1>0 DEF VisibleOK, NoDir
  <2> QED
    BY <1>3, <2>1 DEF Published
<1> QED
  BY <1>0, <1>1, <1>2, <1>3, <1>5, <1>6, MoveOn DEF TypeOK

\* What a step on its own temporary directory needs to show.
LEMMA OwnDirectory ==
  ASSUME PublicationInv, NEW c \in Calls, NEW to \in PCs, NEW d \in Dir,
         pc[c] \notin Published, to \notin Published,
         pc' = [pc EXCEPT ![c] = to], temp' = [temp EXCEPT ![c] = d],
         id' = id, visible' = visible, index' = index, report' = report,
         d.owner = c, d.marker # "PUBLISHED", ~d.stray,
         \A i \in RunIds : visible[i].owner # c,
         CallOK(c)'
  PROVE  PublicationInv'
<1>0. /\ TypeOK /\ id[c] \in RunIds /\ VisibleOK(id[c])
  BY DEF PublicationInv, TypeOK
<1>1. TypeOK'
  BY <1>0 DEF TypeOK, PCs
<1>2. Mine(c)
  BY <1>0 DEF Mine, TypeOK
<1>3. temp'[c] = d
  BY <1>0 DEF TypeOK
<1>4. TempOK(c)'
  BY <1>3 DEF TempOK, Exists
<1>5. VisibleOK(id[c])'
  <2>1. \A e \in Calls \ {c} : pc'[e] = pc[e]
    BY <1>0 DEF TypeOK
  <2> QED
    BY <1>0, <2>1 DEF VisibleOK
<1> QED
  BY <1>1, <1>2, <1>4, <1>5, LocalStep

\* The steps that build the package.
LEMMA BuildStep ==
  ASSUME PublicationInv, NEW c \in Calls,
         Create(c) \/ StartWriter(c) \/ WriteArtifact(c) \/ WriteManifest(c)
         \/ MarkReady(c)
  PROVE  PublicationInv'
<1>0. /\ TypeOK /\ CallOK(c) /\ TempOK(c) /\ id[c] \in RunIds /\ temp[c] \in Dir
      /\ NoCall # c /\ temp \in [Calls -> Dir] /\ index[c] \subseteq Artifacts
      /\ pc \in [Calls -> PCs]
  BY CallAssumption DEF PublicationInv, TypeOK, PCs
<1>1. /\ id' = id /\ visible' = visible /\ index' = index /\ report' = report
  BY DEF Create, StartWriter, WriteArtifact, WriteManifest, MarkReady
<1>2. CASE Create(c)
  <2> DEFINE d == [NoDir EXCEPT !.owner = c]
  <2>1. /\ pc[c] = "create" /\ pc' = [pc EXCEPT ![c] = "start"]
        /\ temp' = [temp EXCEPT ![c] = d]
    BY <1>2 DEF Create, Goto
  <2>2. /\ d \in Dir /\ d.owner = c /\ d.marker = "none" /\ d.stray = FALSE
    BY DEF NoDir, Dir, Markers
  <2> HIDE DEF d
  <2>3. \A i \in RunIds : visible[i].owner # c
    BY <1>0, <2>1 DEF CallOK, Before
  <2>4. CallOK(c)'
    BY <1>0, <2>1, <2>2 DEF CallOK, Before, Written, Finalizing, Published
  <2> QED
    BY <1>1, <2>1, <2>2, <2>3, <2>4, OwnDirectory, PCFacts DEF Published
<1>3. CASE ~Create(c)
  <2>1. pc[c] \in {"start", "write"} \cup Written
    BY <1>3 DEF StartWriter, WriteArtifact, WriteManifest, MarkReady, Goto, Written
  <2>2. temp[c].owner = c
    BY <1>0, <2>1 DEF CallOK
  <2>3. \A i \in RunIds : visible[i].owner # c
    BY <1>0, <2>2 DEF TempOK, Exists
  <2>4. CASE StartWriter(c)
    <3> DEFINE d == [temp[c] EXCEPT !.files = {Keep}, !.marker = "RUNNING"]
    <3>1. /\ pc[c] = "start" /\ pc' = [pc EXCEPT ![c] = "write"]
          /\ temp' = [temp EXCEPT ![c] = d]
      BY <1>0, <2>4 DEF StartWriter, Goto
    <3>2. /\ d \in Dir /\ d.owner = c /\ d.marker = "RUNNING"
          /\ d.stray = temp[c].stray
      BY <1>0, <2>2, ArtifactAssumption DEF Dir, Markers, Artifacts
    <3> HIDE DEF d
    <3>3. CallOK(c)'
      BY <1>0, <3>1, <3>2 DEF CallOK, Before, Written, Finalizing, Published
    <3> QED
      BY <1>0, <1>1, <2>3, <3>1, <3>2, <3>3, OwnDirectory, PCFacts
         DEF Published, TempOK
  <2>5. CASE WriteArtifact(c)
    <3>1. PICK f \in Artifacts : temp' = [temp EXCEPT ![c].files = @ \cup {f}]
      BY <2>5 DEF WriteArtifact
    <3> DEFINE d == [temp[c] EXCEPT !.files = temp[c].files \cup {f}]
    <3>2. /\ pc[c] = "write" /\ pc' = [pc EXCEPT ![c] = "write"]
          /\ temp' = [temp EXCEPT ![c] = d]
      BY <1>0, <2>5, <3>1 DEF WriteArtifact
    <3>3. /\ d \in Dir /\ d.owner = c /\ d.marker = temp[c].marker
          /\ d.stray = temp[c].stray
      BY <1>0, <2>2 DEF Dir
    <3> HIDE DEF d
    <3>4. CallOK(c)'
      BY <1>0, <3>2, <3>3 DEF CallOK, Before, Written, Finalizing, Published
    <3> QED
      BY <1>0, <1>1, <2>3, <3>2, <3>3, <3>4, OwnDirectory, PCFacts
         DEF Published, TempOK
  <2>6. CASE WriteManifest(c)
    <3> DEFINE d == [temp[c] EXCEPT !.manifest = TRUE, !.indexed = index[c]]
    <3>1. /\ pc[c] = "manifest" /\ pc' = [pc EXCEPT ![c] = "final_target"]
          /\ temp' = [temp EXCEPT ![c] = d]
      BY <1>0, <2>6 DEF WriteManifest, Goto
    <3>2. /\ d \in Dir /\ d.owner = c /\ d.marker = temp[c].marker
          /\ d.stray = temp[c].stray
      BY <1>0, <2>2 DEF Dir
    <3>3. d.manifest /\ d.indexed = index[c] /\ d.files = temp[c].files
      BY <1>0 DEF Dir
    <3> HIDE DEF d
    <3>4. /\ index[c] = temp[c].files /\ Required \subseteq temp[c].files
      BY <1>0, <3>1 DEF CallOK, Written
    <3>5. CallOK(c)'
      BY <1>0, <3>1, <3>2, <3>3, <3>4
         DEF CallOK, Before, Written, Finalizing, Published
    <3> QED
      BY <1>0, <1>1, <2>3, <3>1, <3>2, <3>5, OwnDirectory, PCFacts
         DEF Published, TempOK
  <2>7. CASE MarkReady(c)
    <3> DEFINE d == [temp[c] EXCEPT !.marker = "READY_TO_PUBLISH"]
    <3>1. /\ pc[c] = "ready" /\ pc' = [pc EXCEPT ![c] = "rename"]
          /\ temp' = [temp EXCEPT ![c] = d]
      BY <1>0, <2>7 DEF MarkReady, Goto
    <3>2. /\ d \in Dir /\ d.owner = c /\ d.marker = "READY_TO_PUBLISH"
          /\ d.stray = temp[c].stray
      BY <1>0, <2>2 DEF Dir, Markers
    <3>3. /\ d.manifest = temp[c].manifest /\ d.indexed = temp[c].indexed
          /\ d.files = temp[c].files
      BY <1>0 DEF Dir
    <3> HIDE DEF d
    <3>4. /\ temp[c].manifest /\ temp[c].indexed = temp[c].files
          /\ Required \subseteq temp[c].files
      BY <1>0, <3>1 DEF CallOK, Written, Finalizing
    <3>5. CallOK(c)'
      BY <1>0, <3>1, <3>2, <3>3, <3>4
         DEF CallOK, Before, Written, Finalizing, Published
    <3> QED
      BY <1>0, <1>1, <2>3, <3>1, <3>2, <3>5, OwnDirectory, PCFacts
         DEF Published, TempOK
  <2> QED
    BY <1>3, <2>4, <2>5, <2>6, <2>7
<1> QED
  BY <1>2, <1>3

\* The rename turns the temporary directory into the package.
LEMMA RenameStep ==
  ASSUME PublicationInv, NEW c \in Calls, Rename(c)
  PROVE  PublicationInv'
<1>0. /\ TypeOK /\ CallOK(c) /\ TempOK(c) /\ id[c] \in RunIds /\ temp[c] \in Dir
      /\ NoCall # c /\ temp \in [Calls -> Dir] /\ visible \in [RunIds -> Dir]
      /\ pc \in [Calls -> PCs] /\ VisibleOK(id[c])
  BY CallAssumption DEF PublicationInv, TypeOK, PCs
<1>1. /\ id' = id /\ index' = index /\ report' = report
      /\ pc[c] = "rename"
  BY DEF Rename, Goto
<1>2. /\ temp[c].owner = c /\ Whole(temp[c]) /\ temp[c].marker # "PUBLISHED"
      /\ ~temp[c].stray /\ \A i \in RunIds : visible[i].owner # c
  BY <1>0, <1>1 DEF CallOK, TempOK, Written, Finalizing, Whole, Exists
<1>3. CASE Exists(visible[id[c]])
  <2>1. /\ pc' = [pc EXCEPT ![c] = "failed"] /\ temp' = temp /\ visible' = visible
        /\ pc'[c] = "failed"
    BY <1>0, <1>3 DEF Rename, Goto
  <2>2. CallOK(c)'
    BY <2>1 DEF CallOK, Before, Written, Finalizing, Published
  <2>3. report' \in [Calls -> SUBSET Calls] /\ index' \in [Calls -> SUBSET Artifacts]
    BY <1>0, <1>1 DEF TypeOK
  <2> QED
    BY <1>0, <1>1, <1>2, <2>1, <2>2, <2>3, MoveOn, PCFacts
<1>4. CASE ~Exists(visible[id[c]])
  <2>1. /\ pc' = [pc EXCEPT ![c] = "marking"]
        /\ visible' = [visible EXCEPT ![id[c]] = temp[c]]
        /\ temp' = [temp EXCEPT ![c] = NoDir]
    BY <1>4 DEF Rename, Goto
  <2>2. NoDir \in Dir /\ NoDir.owner = NoCall /\ NoDir.marker = "none"
        /\ NoDir.stray = FALSE
    BY DEF NoDir, Dir, Markers
  <2>3. /\ pc'[c] = "marking" /\ temp'[c] = NoDir /\ visible'[id[c]] = temp[c]
        /\ id'[c] = id[c]
    BY <1>0, <1>1, <2>1
  <2>4. TypeOK'
    BY <1>0, <1>1, <2>1, <2>2, PCFacts DEF TypeOK, PCs
  <2>5. Mine(c)
    BY <1>0, <1>1, <1>2, <1>4, <2>1, <2>3 DEF Mine, Exists
  <2>6. CallOK(c)'
    BY <1>2, <2>3 DEF CallOK, Before, Written, Finalizing, Published
  <2>7. TempOK(c)'
    BY <2>2, <2>3 DEF TempOK, Exists
  <2>8. VisibleOK(id[c])'
    BY <1>2, <2>3 DEF VisibleOK, Published
  <2> QED
    BY <2>4, <2>5, <2>6, <2>7, <2>8, LocalStep
<1> QED
  BY <1>3, <1>4

\* The marker of the package, in its two halves, and a write of it that raises.
LEMMA MarkStep ==
  ASSUME PublicationInv, NEW c \in Calls, NEW to \in PCs, NEW v \in Dir,
         pc[c] \in {"marking", "mark"},
         to \in {"mark", "return", "raised"},
         pc' = [pc EXCEPT ![c] = to], visible' = [visible EXCEPT ![id[c]] = v],
         id' = id, temp' = temp, index' = index, report' = report,
         v.owner = visible[id[c]].owner,
         Whole(v) = Whole(visible[id[c]]),
         to = "mark" => v.marker # "PUBLISHED",
         to = "return" => v.marker = "PUBLISHED" /\ ~v.stray,
         to = "raised" => v.marker # "PUBLISHED"
  PROVE  PublicationInv'
<1>0. /\ TypeOK /\ CallOK(c) /\ TempOK(c) /\ id[c] \in RunIds
      /\ NoCall # c /\ visible \in [RunIds -> Dir]
      /\ pc \in [Calls -> PCs] /\ VisibleOK(id[c])
  BY CallAssumption DEF PublicationInv, TypeOK, PCs
<1>1. visible[id[c]].owner = c
  BY <1>0 DEF CallOK, Published
<1>2. visible[id[c]] # NoDir
  BY <1>0, <1>1 DEF NoDir
<1>3. Whole(v) /\ v.owner = c
  BY <1>0, <1>1, <1>2 DEF VisibleOK
<1>4. pc'[c] = to /\ visible'[id[c]] = v /\ id'[c] = id[c] /\ temp'[c] = temp[c]
  BY <1>0
<1>5. TypeOK'
  BY <1>0 DEF TypeOK, PCs
<1>6. Mine(c)
  BY <1>0, <1>1, <1>3, <1>4 DEF Mine
<1>7. CallOK(c)'
  BY <1>3, <1>4 DEF CallOK, Before, Written, Finalizing, Published
<1>8. TempOK(c)'
  <2>1. \A i \in RunIds : visible'[i].owner = visible[i].owner
    BY <1>0, <1>1, <1>3
  <2> QED
    BY <1>0, <1>4, <2>1 DEF TempOK, Exists
<1>9. VisibleOK(id[c])'
  <2>1. v.marker = "PUBLISHED" => ~v.stray
    OBVIOUS
  <2> QED
    BY <1>3, <1>4, <2>1 DEF VisibleOK, Published
<1> QED
  BY <1>5, <1>6, <1>7, <1>8, <1>9, LocalStep

LEMMA StartMarkStep ==
  ASSUME PublicationInv, NEW c \in Calls, StartMark(c)
  PROVE  PublicationInv'
<1> DEFINE v == [visible[id[c]] EXCEPT !.stray = TRUE]
<1>0. /\ CallOK(c) /\ id[c] \in RunIds /\ visible[id[c]] \in Dir
  BY DEF PublicationInv, TypeOK
<1>1. /\ pc[c] = "marking" /\ pc' = [pc EXCEPT ![c] = "mark"]
      /\ visible' = [visible EXCEPT ![id[c]] = v]
      /\ id' = id /\ temp' = temp /\ index' = index /\ report' = report
  BY <1>0 DEF StartMark, Goto
<1>2. /\ v \in Dir /\ v.owner = visible[id[c]].owner
      /\ v.marker = visible[id[c]].marker /\ v.files = visible[id[c]].files
      /\ v.manifest = visible[id[c]].manifest
      /\ v.indexed = visible[id[c]].indexed
  BY <1>0 DEF Dir
<1> HIDE DEF v
<1>3. Whole(v) = Whole(visible[id[c]])
  BY <1>2 DEF Whole
<1>4. v.marker # "PUBLISHED"
  BY <1>0, <1>1, <1>2 DEF CallOK
<1> QED
  BY <1>1, <1>2, <1>3, <1>4, MarkStep, PCFacts

LEMMA MarkPublishedStep ==
  ASSUME PublicationInv, NEW c \in Calls, MarkPublished(c)
  PROVE  PublicationInv'
<1> DEFINE v == [visible[id[c]] EXCEPT !.stray = FALSE, !.marker = "PUBLISHED"]
<1>0. /\ id[c] \in RunIds /\ visible[id[c]] \in Dir
      /\ visible \in [RunIds -> Dir]
  BY DEF PublicationInv, TypeOK
<1>1. /\ pc[c] = "mark" /\ pc' = [pc EXCEPT ![c] = "return"]
      /\ visible' = [visible EXCEPT ![id[c]] = v]
      /\ id' = id /\ temp' = temp /\ index' = index /\ report' = report
  BY <1>0 DEF MarkPublished, Goto
<1>2. /\ v \in Dir /\ v.owner = visible[id[c]].owner
      /\ v.marker = "PUBLISHED" /\ v.stray = FALSE
      /\ v.files = visible[id[c]].files
      /\ v.manifest = visible[id[c]].manifest
      /\ v.indexed = visible[id[c]].indexed
  BY <1>0 DEF Dir, Markers
<1> HIDE DEF v
<1>3. Whole(v) = Whole(visible[id[c]])
  BY <1>2 DEF Whole
<1> QED
  BY <1>1, <1>2, <1>3, MarkStep, PCFacts

LEMMA WriteFailsStep ==
  ASSUME PublicationInv, NEW c \in Calls, WriteFails(c)
  PROVE  PublicationInv'
<1>0. /\ TypeOK /\ CallOK(c) /\ id[c] \in RunIds /\ visible[id[c]] \in Dir
      /\ pc \in [Calls -> PCs]
  BY DEF PublicationInv, TypeOK, PCs
<1>1. /\ pc[c] \in Writing /\ pc' = [pc EXCEPT ![c] = "raised"]
      /\ id' = id /\ temp' = temp /\ index' = index /\ report' = report
      /\ pc'[c] = "raised"
  BY <1>0 DEF WriteFails
<1>2. CASE pc[c] = "mark"
  <2> DEFINE v == [visible[id[c]] EXCEPT !.stray = FALSE]
  <2>1. visible' = [visible EXCEPT ![id[c]] = v]
    BY <1>0, <1>2 DEF WriteFails
  <2>2. /\ v \in Dir /\ v.owner = visible[id[c]].owner
        /\ v.marker = visible[id[c]].marker /\ v.files = visible[id[c]].files
        /\ v.manifest = visible[id[c]].manifest
        /\ v.indexed = visible[id[c]].indexed
    BY <1>0 DEF Dir
  <2> HIDE DEF v
  <2>3. Whole(v) = Whole(visible[id[c]])
    BY <2>2 DEF Whole
  <2>4. v.marker # "PUBLISHED"
    BY <1>0, <1>2, <2>2 DEF CallOK
  <2> QED
    BY <1>1, <1>2, <2>1, <2>2, <2>3, <2>4, MarkStep, PCFacts
<1>3. CASE pc[c] # "mark"
  <2>1. visible' = visible
    BY <1>3 DEF WriteFails
  <2>2. CallOK(c)'
    BY <1>1 DEF CallOK, Before, Written, Finalizing, Published
  <2>3. report' \in [Calls -> SUBSET Calls] /\ index' \in [Calls -> SUBSET Artifacts]
    BY <1>0, <1>1 DEF TypeOK
  <2> QED
    BY <1>0, <1>1, <2>1, <2>2, <2>3, MoveOn, PCFacts
<1> QED
  BY <1>2, <1>3

LEMMA CleanUpStep ==
  ASSUME PublicationInv, NEW c \in Calls, CleanUp(c)
  PROVE  PublicationInv'
<1>0. /\ TypeOK /\ id[c] \in RunIds /\ VisibleOK(id[c])
      /\ NoCall # c /\ temp \in [Calls -> Dir]
  BY CallAssumption DEF PublicationInv, TypeOK
<1>1. /\ pc[c] \in {"failed", "raised", "dead"} /\ temp' = [temp EXCEPT ![c] = NoDir]
      /\ id' = id /\ pc' = pc /\ visible' = visible /\ index' = index
      /\ report' = report
  BY DEF CleanUp
<1>2. NoDir \in Dir /\ NoDir.owner = NoCall /\ NoDir.marker = "none"
      /\ NoDir.stray = FALSE
  BY DEF NoDir, Dir, Markers
<1>3. TypeOK'
  BY <1>0, <1>1, <1>2 DEF TypeOK
<1>4. Mine(c)
  BY <1>0, <1>1 DEF Mine
<1>5. CallOK(c)'
  BY <1>1 DEF CallOK, Before, Written, Finalizing, Published
<1>6. TempOK(c)'
  <2>1. temp'[c] = NoDir
    BY <1>0, <1>1
  <2> QED
    BY <1>2, <2>1 DEF TempOK, Exists
<1>7. VisibleOK(id[c])'
  BY <1>0, <1>1 DEF VisibleOK
<1> QED
  BY <1>3, <1>4, <1>5, <1>6, <1>7, LocalStep

LEMMA StepInv == PublicationInv /\ [Next]_vars => PublicationInv'
<1> SUFFICES ASSUME PublicationInv, [Next]_vars PROVE PublicationInv'
  OBVIOUS
<1>1. ASSUME NEW c \in Calls,
             Begin(c) \/ Step(c) \/ WriteFails(c) \/ Crash(c) \/ CleanUp(c)
      PROVE  PublicationInv'
  BY <1>1, BeforeStep, PlainStep, BuildStep, RenameStep, StartMarkStep,
     MarkPublishedStep, WriteFailsStep, CleanUpStep DEF Step
<1>2. CASE UNCHANGED vars
  BY <1>2 DEF vars, PublicationInv, TypeOK, CallOK, TempOK, VisibleOK, Exists, Whole
<1> QED
  BY <1>1, <1>2 DEF Next

LEMMA Invariance == Spec => []PublicationInv
  BY InitInv, StepInv, PTL DEF Spec

-----------------------------------------------------------------------------
(***************************************************************************)
(* The results.                                                            *)
(***************************************************************************)
\* The variables hold what the transaction code of artifacts.py gives them.
THEOREM TypeCorrect == Spec => []TypeOK
  BY Invariance, PTL DEF PublicationInv

\* However many calls race, write errors and deaths included, a directory
\* that carries the PUBLISHED marker verifies against its manifest.
THEOREM MarkersAreTrue == Spec => []MarkerMeansVerified
<1>1. PublicationInv => MarkerMeansVerified
  <2> SUFFICES ASSUME PublicationInv,
                      NEW d \in {visible[i] : i \in RunIds} \cup
                                {temp[c] : c \in Calls},
                      d.marker = "PUBLISHED"
               PROVE  Verifies(d)
    BY DEF MarkerMeansVerified
  <2>1. ASSUME NEW c \in Calls PROVE d # temp[c]
    BY DEF PublicationInv, TempOK
  <2>2. PICK i \in RunIds : d = visible[i]
    BY <2>1
  <2>3. d # NoDir
    BY DEF NoDir
  <2> QED
    BY <2>2, <2>3 DEF PublicationInv, VisibleOK, Verifies
<1> QED
  BY <1>1, Invariance, PTL

\* The temporary directory of a call, partial evidence included, goes away
\* only by becoming its package or by the operator's hand after the call.
THEOREM EvidenceStays == Spec => EvidenceIsKept
<1> DEFINE Kept == \A c \in Calls : Exists(temp[c]) /\ ~Exists(temp'[c]) =>
                     \/ visible'[id[c]].owner = c
                     \/ pc[c] \in Over /\ pc'[c] = pc[c]
<1>1. PublicationInv /\ [Next]_vars => [Kept]_vars
  <2> SUFFICES ASSUME PublicationInv, Next, NEW c \in Calls, Exists(temp[c]),
                      ~Exists(temp'[c])
               PROVE  \/ visible'[id[c]].owner = c
                      \/ pc[c] \in Over /\ pc'[c] = pc[c]
    OBVIOUS
  <2>0. /\ temp \in [Calls -> Dir] /\ visible \in [RunIds -> Dir]
        /\ TempOK(c) /\ temp[c] \in Dir /\ id[c] \in RunIds /\ c # NoCall
    BY CallAssumption DEF PublicationInv, TypeOK
  <2>1. PICK e \in Calls :
          Begin(e) \/ Step(e) \/ WriteFails(e) \/ Crash(e) \/ CleanUp(e)
    BY DEF Next
  <2>2. CASE Rename(e)
    BY <2>0, <2>2 DEF Rename, TempOK, Exists
  <2>3. CASE CleanUp(e)
    BY <2>0, <2>3 DEF CleanUp, Over
  <2>4. CASE Create(e)
    BY <2>0, <2>4 DEF Create, NoDir, Exists
  <2>5. CASE StartWriter(e) \/ WriteArtifact(e) \/ WriteManifest(e) \/ MarkReady(e)
    BY <2>0, <2>5
       DEF StartWriter, WriteArtifact, WriteManifest, MarkReady, Exists, Dir
  <2>6. CASE temp' = temp
    BY <2>6 DEF Exists
  <2> QED
    BY <2>1, <2>2, <2>3, <2>4, <2>5, <2>6
       DEF Begin, Step, WriteFails, Crash, CheckTarget, CheckStale, Scan,
           WritesEnd, IndexArtifacts, FinalTarget, Validate, StartMark,
           MarkPublished, Return
<1> QED
  BY <1>1, Invariance, PTL DEF Spec, EvidenceIsKept

(***************************************************************************)
(* The output directory implements RunStore.                               *)
(***************************************************************************)
Entry(d) == [owner |-> d.owner, whole |-> Whole(d),
             marked |-> d.marker = "PUBLISHED"]
Runs == [i \in RunIds |-> Entry(visible[i])]
Returned == {c \in Calls : pc[c] = "returned"}

LEMMA Mapping ==
  /\ Store!Next <=>
       \E c \in Calls :
         \/ \E i \in RunIds :
              \/ /\ Runs[i] = Store!Nothing
                 /\ \A j \in RunIds : Runs[j].owner # c
                 /\ Runs' = [Runs EXCEPT ![i] =
                               [owner |-> c, whole |-> TRUE, marked |-> FALSE]]
                 /\ Returned' = Returned
              \/ /\ Runs[i].owner = c /\ ~Runs[i].marked
                 /\ Runs' = [Runs EXCEPT ![i] =
                               [owner |-> c, whole |-> Runs[i].whole,
                                marked |-> TRUE]]
                 /\ Returned' = Returned
         \/ /\ \E i \in RunIds : Runs[i].owner = c /\ Runs[i].marked
            /\ Returned' = Returned \cup {c}
            /\ Runs' = Runs
  /\ Store!Init <=> Runs = [i \in RunIds |-> Store!Nothing] /\ Returned = {}
BY DEF Store!Next, Store!Publish, Store!Mark, Store!Return, Store!Init, Runs,
       Returned, Entry

LEMMA StoreInit == Init => Store!Init
<1> SUFFICES ASSUME Init PROVE Store!Init
  OBVIOUS
<1>1. Entry(NoDir) = Store!Nothing
  BY DEF Entry, NoDir, Whole, Store!Nothing
<1>2. Runs = [i \in RunIds |-> Store!Nothing]
  BY <1>1 DEF Init, Runs
<1>3. Returned = {}
  BY DEF Init, Returned
<1> QED
  BY <1>2, <1>3, Mapping

\* A step that leaves the packages and the return of calls is invisible.
LEMMA Invisible ==
  ASSUME \A i \in RunIds : Entry(visible'[i]) = Entry(visible[i]),
         \A c \in Calls : pc'[c] = "returned" <=> pc[c] = "returned"
  PROVE  Runs' = Runs /\ Returned' = Returned
<1>1. Runs' = [i \in RunIds |-> Entry(visible'[i])]
  BY DEF Runs, Entry, Whole
<1>2. Runs' = Runs
  BY <1>1 DEF Runs
<1>3. Returned' = Returned
  BY DEF Returned
<1> QED
  BY <1>2, <1>3

\* What a step does to the packages when it touches one directory.
LEMMA OnePackage ==
  ASSUME PublicationInv, NEW k \in RunIds, NEW v,
         visible' = [visible EXCEPT ![k] = v]
  PROVE  Runs' = [Runs EXCEPT ![k] = Entry(v)]
<1>1. visible'[k] = v /\ \A i \in RunIds \ {k} : visible'[i] = visible[i]
  BY DEF PublicationInv, TypeOK
<1>2. Runs' = [i \in RunIds |-> Entry(visible'[i])]
  BY DEF Runs, Entry, Whole
<1>3. ASSUME NEW i \in RunIds
      PROVE  Entry(visible'[i]) = [Runs EXCEPT ![k] = Entry(v)][i]
  <2>1. CASE i = k
    BY <1>1, <2>1 DEF Runs
  <2>2. CASE i # k
    BY <1>1, <2>2 DEF Runs
  <2> QED
    BY <2>1, <2>2
<1>4. [Runs EXCEPT ![k] = Entry(v)] =
        [i \in RunIds |-> [Runs EXCEPT ![k] = Entry(v)][i]]
  BY DEF Runs
<1> QED
  BY <1>2, <1>3, <1>4

\* What RunStore sees of a directory.
LEMMA EntryFields ==
  ASSUME NEW d
  PROVE  /\ Entry(d).owner = d.owner
         /\ Entry(d).marked <=> d.marker = "PUBLISHED"
         /\ d = NoDir => Entry(d) = Store!Nothing
<1>1. Entry(d).owner = d.owner
  BY DEF Entry
<1>2. Entry(d).marked <=> d.marker = "PUBLISHED"
  BY DEF Entry
<1>3. ASSUME d = NoDir PROVE Entry(d) = Store!Nothing
  <2>1. d.owner = NoCall /\ Whole(d) = FALSE /\ (d.marker = "PUBLISHED") = FALSE
    BY <1>3 DEF NoDir, Whole
  <2> QED
    BY <2>1 DEF Entry, Store!Nothing
<1> QED
  BY <1>1, <1>2, <1>3

LEMMA StoreStep ==
  ASSUME PublicationInv, PublicationInv', [Next]_vars
  PROVE  Store!Next \/ (Runs' = Runs /\ Returned' = Returned)
<1>1. CASE UNCHANGED vars
  BY <1>1, Invisible DEF vars
<1>2. ASSUME NEW c \in Calls,
             Begin(c) \/ Step(c) \/ WriteFails(c) \/ Crash(c) \/ CleanUp(c)
      PROVE  Store!Next \/ (Runs' = Runs /\ Returned' = Returned)
  <2>0. /\ TypeOK /\ CallOK(c) /\ TempOK(c) /\ id[c] \in RunIds /\ temp[c] \in Dir
        /\ NoCall # c /\ visible \in [RunIds -> Dir] /\ visible[id[c]] \in Dir
        /\ pc \in [Calls -> PCs] /\ VisibleOK(id[c])
        /\ Runs[id[c]] = Entry(visible[id[c]])
    BY CallAssumption DEF PublicationInv, TypeOK, PCs, Runs
  <2>1. CASE Rename(c) /\ ~Exists(visible[id[c]])
    <3>1. /\ pc[c] = "rename" /\ pc' = [pc EXCEPT ![c] = "marking"]
          /\ visible' = [visible EXCEPT ![id[c]] = temp[c]]
      BY <2>1 DEF Rename, Goto
    <3>2. /\ temp[c].owner = c /\ Whole(temp[c]) /\ temp[c].marker # "PUBLISHED"
          /\ \A i \in RunIds : visible[i].owner # c
      BY <2>0, <3>1 DEF CallOK, TempOK, Written, Finalizing, Whole, Exists
    <3>3. Entry(temp[c]) = [owner |-> c, whole |-> TRUE, marked |-> FALSE]
      BY <3>2 DEF Entry
    <3>4. visible[id[c]] = NoDir
      BY <2>0, <2>1, CallAssumption DEF VisibleOK, Exists
    <3>5. Runs[id[c]] = Store!Nothing
      BY <2>0, <3>4, EntryFields
    <3>6. \A j \in RunIds : Runs[j].owner # c
      BY <3>2 DEF Runs, Entry
    <3>7. Runs' = [Runs EXCEPT ![id[c]] =
                     [owner |-> c, whole |-> TRUE, marked |-> FALSE]]
      BY <2>0, <3>1, <3>3, OnePackage
    <3>8. Returned' = Returned
      BY <2>0, <3>1 DEF Returned
    <3> QED
      BY <2>0, <3>5, <3>6, <3>7, <3>8, Mapping
  <2>2. CASE MarkPublished(c)
    <3> DEFINE v == [visible[id[c]] EXCEPT !.stray = FALSE, !.marker = "PUBLISHED"]
    <3>1. /\ pc[c] = "mark" /\ pc' = [pc EXCEPT ![c] = "return"]
          /\ visible' = [visible EXCEPT ![id[c]] = v]
      BY <2>0, <2>2 DEF MarkPublished, Goto
    <3>2. /\ visible[id[c]].owner = c /\ visible[id[c]].marker # "PUBLISHED"
      BY <2>0, <3>1 DEF CallOK, Published
    <3>3. /\ v.owner = c /\ v.marker = "PUBLISHED"
          /\ v.files = visible[id[c]].files
          /\ v.manifest = visible[id[c]].manifest
          /\ v.indexed = visible[id[c]].indexed
      BY <2>0, <3>2 DEF Dir
    <3> HIDE DEF v
    <3>4. Entry(v) = [owner |-> c, whole |-> Entry(visible[id[c]]).whole,
                      marked |-> TRUE]
      <4>1. Whole(v) = Whole(visible[id[c]])
        BY <3>3 DEF Whole
      <4> QED
        BY <3>3, <4>1 DEF Entry
    <3>5. Runs[id[c]].owner = c /\ ~Runs[id[c]].marked
      BY <2>0, <3>2, EntryFields
    <3>6. Runs' = [Runs EXCEPT ![id[c]] =
                     [owner |-> c, whole |-> Runs[id[c]].whole, marked |-> TRUE]]
      BY <2>0, <3>1, <3>4, OnePackage
    <3>7. Returned' = Returned
      BY <2>0, <3>1 DEF Returned
    <3> QED
      BY <2>0, <3>5, <3>6, <3>7, Mapping
  <2>3. CASE Return(c)
    <3>1. /\ pc[c] = "return" /\ pc' = [pc EXCEPT ![c] = "returned"]
          /\ visible' = visible
      BY <2>3 DEF Return, Goto
    <3>2. visible[id[c]].owner = c /\ visible[id[c]].marker = "PUBLISHED"
      BY <2>0, <3>1 DEF CallOK, Published
    <3>3. Runs[id[c]].owner = c /\ Runs[id[c]].marked
      BY <2>0, <3>2, EntryFields
    <3>4. Returned' = Returned \cup {c}
      BY <2>0, <3>1 DEF Returned
    <3>5. Runs' = Runs
      BY <3>1 DEF Runs, Entry, Whole
    <3> QED
      BY <2>0, <3>3, <3>4, <3>5, Mapping
  <2>4. CASE ~(Rename(c) /\ ~Exists(visible[id[c]])) /\ ~MarkPublished(c)
             /\ ~Return(c)
    <3>1. ASSUME NEW v \in {[visible[id[c]] EXCEPT !.stray = TRUE],
                           [visible[id[c]] EXCEPT !.stray = FALSE]},
                 visible' = [visible EXCEPT ![id[c]] = v]
          PROVE  \A i \in RunIds : Entry(visible'[i]) = Entry(visible[i])
      <4>1. /\ v.owner = visible[id[c]].owner
            /\ v.marker = visible[id[c]].marker /\ v.files = visible[id[c]].files
            /\ v.manifest = visible[id[c]].manifest
            /\ v.indexed = visible[id[c]].indexed
        BY <2>0 DEF Dir
      <4>2. Entry(v) = Entry(visible[id[c]])
        BY <4>1 DEF Entry, Whole
      <4> QED
        BY <2>0, <3>1, <4>2
    <3>2. \A i \in RunIds : Entry(visible'[i]) = Entry(visible[i])
      <4>1. CASE visible' = visible
        BY <4>1
      <4>2. CASE StartMark(c)
        BY <2>0, <3>1, <4>2 DEF StartMark
      <4>3. CASE WriteFails(c)
        BY <2>0, <3>1, <4>1, <4>3 DEF WriteFails
      <4> QED
        BY <1>2, <2>4, <4>1, <4>2, <4>3
           DEF Begin, Step, Crash, CheckTarget, CheckStale, Scan, Create,
               StartWriter, WriteArtifact, WriteManifest, WritesEnd, MarkReady,
               IndexArtifacts, FinalTarget, Validate, Rename, CleanUp
    <3>3. PICK to \in PCs : /\ pc' = [pc EXCEPT ![c] = to] \/ pc' = pc
                            /\ to # "returned"
      BY <1>2, <2>4, PCFacts
         DEF Begin, Step, Crash, CheckTarget, CheckStale, Scan, Create,
             StartWriter, WriteArtifact, WriteManifest, WritesEnd, MarkReady,
             IndexArtifacts, FinalTarget, Validate, Rename, CleanUp, StartMark,
             WriteFails, Goto
    <3>4. pc[c] # "returned" \/ pc' = pc
      BY <1>2, <2>4
         DEF Begin, Step, Crash, CheckTarget, CheckStale, Scan, Create,
             StartWriter, WriteArtifact, WriteManifest, WritesEnd, MarkReady,
             IndexArtifacts, FinalTarget, Validate, Rename, CleanUp, StartMark,
             WriteFails, Goto, Active, Writing
    <3> QED
      BY <2>0, <3>2, <3>3, <3>4, Invisible
  <2> QED
    BY <2>1, <2>2, <2>3, <2>4
<1> QED
  BY <1>1, <1>2 DEF Next

\* For any number of calls that race for any run ids, with writes that raise
\* and processes that die, the output directory behaves as RunStore.
THEOREM DirectoryIsAStore == Spec => StoreSpec
<1>1. PublicationInv /\ PublicationInv' /\ [Next]_vars =>
        [Store!Next]_<<Runs, Returned>>
  BY StoreStep
<1>2. <<Runs, Returned>> =
        <<[i \in RunIds |->
             [owner |-> visible[i].owner, whole |-> Whole(visible[i]),
              marked |-> visible[i].marker = "PUBLISHED"]],
          {c \in Calls : pc[c] = "returned"}>>
  BY DEF Runs, Returned, Entry
<1> QED
  BY <1>1, StoreInit, Invariance, PTL
     DEF Spec, StoreSpec, Store!Spec, Runs, Returned, Entry
=============================================================================
