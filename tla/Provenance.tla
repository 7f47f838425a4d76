----------------------------- MODULE Provenance -----------------------------
(***************************************************************************)
(* What a package records about the code that made it.  A run imports its  *)
(* solve path, asks git twice, digests files on disk before it starts and  *)
(* again when it publishes; a person edits, commits and checks out all the *)
(* while (runtime.py, provenance.py, dirty.py, identity.py).               *)
(***************************************************************************)
EXTENDS TimeModel, FiniteSets, TLC

CONSTANTS Runs,       \* calls of Runner.run
          Versions,   \* versions of the solve-path sources
          Jobs,       \* what a run is started with: mode, adapter, route
          Histories,  \* the commits there may be to begin with
          Outcomes,   \* what the loop and its checks may report
          MaxChanges, \* bound: edits, commits and checkouts by the person
          MaxOpen,    \* bound: runs that are open at a time
          NoPin,      \* the pin file names no digest for the backend
          Unreadable, \* the pin file is not the JSON it should be
          NoDigest,   \* a digest an adapter does not record
          None

Pins == Versions \cup {NoPin, Unreadable}
Trees == [source : Versions, pin : Pins, extra : BOOLEAN]
GitStates == {"clean", "dirty", "unknown"}
ReviewStatuses == {"reviewed", "unreviewed", "not_pinned"}
Adapters ==
  [backend : BOOLEAN, declared : BOOLEAN, inside : BOOLEAN, registered : BOOLEAN,
   namedAfterBackend : BOOLEAN, parameters : BOOLEAN, exported : BOOLEAN,
   digest : Versions \cup {"honest", NoDigest}, review : ReviewStatuses \cup {"honest", None}]
VerificationStatuses ==
  {"verified", "unverifiable", "digest_mismatch", "review_status_mismatch",
   "module_outside_solve_path"}
CONTRADICTED_VERIFICATION_STATUSES ==
  {"digest_mismatch", "review_status_mismatch", "module_outside_solve_path"}

ASSUME MarkersAreDistinct ==
  /\ Cardinality({NoPin, Unreadable, NoDigest, None}) = 4
  /\ Versions \cap {NoPin, Unreadable, NoDigest, None} = {}
  /\ {NoPin, Unreadable, NoDigest, None, "honest"} \cap (ReviewStatuses \cup VerificationStatuses) = {}
  /\ "honest" \notin Versions \cup {NoDigest, None}
  /\ MaxChanges \in Nat /\ MaxOpen \in Nat

\* A commit has one version of the sources and one pin; a run has an adapter and
\* at least one component to ask for its solver; a sample is a row of numbers.
ASSUME HistoriesAreTyped ==
  Histories \subseteq Seq([source : Versions, pin : Pins]) \ {<< >>}
ASSUME JobsAreTyped == \A job \in Jobs : job.adapter \in Adapters /\ job.solvers # {}
ASSUME SamplesAreNumbers ==
  \A outcome \in Outcomes : \A signal \in DOMAIN outcome.samples : outcome.samples[signal] \in Int

\* In a run, codeSteady and filesSteady are history: whether the sources stayed as
\* they were imported, and whether sources and pin stayed as the gates saw them.
VARIABLES tree,     \* files of the checkout: sources, pin file, any other path uncommitted
          commits,  \* every commit made, as [source, pin]
          head,     \* the commit checked out
          changes,
          runs
provenanceVars == <<tree, commits, head, changes, runs>>

-----------------------------------------------------------------------------
\* git: what `status --porcelain` says of the tree.
GitStatus ==
  IF ~tree.extra /\ commits[head] = [source |-> tree.source, pin |-> tree.pin]
  THEN "clean" ELSE "dirty"

\* identity.py: a digest against the pin of a tree.  Raises if unreadable.
ReviewStatus(t, digest) ==
  IF t.pin = NoPin THEN "not_pinned"
  ELSE IF t.pin = digest THEN "reviewed" ELSE "unreviewed"

\* What an adapter says of itself.  An honest one digests the files on disk
\* and looks the pin up; another may state anything, or nothing.
RecordedDigest(a, t) == IF a.digest = "honest" THEN t.source ELSE a.digest
RecordedReview(a, t) ==
  IF a.review = "honest" THEN ReviewStatus(t, RecordedDigest(a, t)) ELSE a.review

\* The kernel looks at an adapter that names a backend with a solve path.
Covered(a) == a.backend /\ a.declared
PinsRaise(a, t) == t.pin = Unreadable /\ (a.review = "honest" \/ Covered(a))

VerifyAdapterIdentity(a, t) ==
  LET recorded == RecordedDigest(a, t)
  IN CASE ~a.backend -> None
       [] a.backend /\ (~a.declared \/ recorded = NoDigest) -> "unverifiable"
       [] Covered(a) /\ recorded \notin {NoDigest, t.source} -> "digest_mismatch"
       [] OTHER ->
            IF RecordedReview(a, t) # ReviewStatus(t, t.source) THEN "review_status_mismatch"
            ELSE IF ~a.inside THEN "module_outside_solve_path" ELSE "verified"

ComponentManifest(a, t) ==
  [digest |-> RecordedDigest(a, t), review |-> RecordedReview(a, t),
   verification |-> VerifyAdapterIdentity(a, t)]

\* What an adapter declares of its solver.
DeclaredBackend(b) ==
  CASE b.says = "raises" -> "unavailable"
    [] b.says = "nothing" -> "not_declared"
    [] b.says = "mapping" ->
         LET status == IF b.status # None THEN b.status
                       ELSE IF b.version THEN "known" ELSE "partial"
         IN IF status = "known" /\ ~b.settings THEN "partial" ELSE status
    [] b.says = "attributes" -> IF b.version /\ b.settings THEN "known" ELSE "partial"

Backends(job) ==
  {[status |-> DeclaredBackend(b), version |-> b.version] : b \in job.solvers}
EnvironmentStatus(job) ==
  IF \A b \in Backends(job) : b.status = "known" THEN "known" ELSE "partial"

\* _require_formal_evidence.
\* (A gate without the verdict of the kernel.)
FormalEvidenceUnverified(run, manifest) ==
  /\ run.commit # None /\ run.gitStatus = "clean"
  /\ manifest.review # "unreviewed"
  /\ EnvironmentStatus(run.job) = "known"
FormalEvidence(run, manifest) ==
  /\ run.commit # None
  /\ run.worktree = "clean" /\ run.gitStatus = "clean"
  /\ manifest.review # "unreviewed"
  /\ manifest.verification \notin CONTRADICTED_VERIFICATION_STATUSES
  /\ EnvironmentStatus(run.job) = "known"

\* preflight.json, written before the first window: the gates and their verdicts.
PreflightDocument(run) ==
  LET gate(holds) == IF holds THEN "pass" ELSE "limited"
  IN [source_state |-> gate(run.worktree = "clean"),
      environment_provenance |-> gate(EnvironmentStatus(run.job) = "known"),
      backend_provenance |-> gate(/\ Backends(run.job) # {}
                                  /\ \A b \in Backends(run.job) : b.status = "known"),
      formal_evidence |-> IF run.job.mode = "formal_comparison" THEN "pass" ELSE "not_applicable"]

EvidenceLevel(run, manifest, outcome) ==
  DeriveEvidenceLevel(outcome.status, run.job.mode,
    [clean |-> run.worktree = "clean",
     environmentKnown |-> EnvironmentStatus(run.job) = "known",
     reviewed |-> manifest.review = "reviewed",
     verified |-> manifest.verification = "verified"],
    outcome.level, run.job.route)

Package(run, manifest, outcome) ==
  [mode |-> run.job.mode, experiment |-> run.job.experiment,
   plantIsBackend |-> run.job.adapter.namedAfterBackend,
   identityComplete |-> run.job.adapter.parameters, exportable |-> run.job.adapter.exported,
   worktree |-> run.worktree, gitStatus |-> run.gitStatus, commit |-> run.commit,
   environment |-> EnvironmentStatus(run.job), backends |-> Backends(run.job),
   digest |-> manifest.digest, review |-> manifest.review,
   verification |-> manifest.verification, outcome |-> outcome,
   evidence |-> EvidenceLevel(run, manifest, outcome)]

-----------------------------------------------------------------------------
Stages == {"idle", "imported", "analysed", "headed", "sourced", "running",
           "published", "refused", "lost"}

NewRun == [pc |-> "idle", job |-> None, loaded |-> None, worktree |-> "unknown",
           commit |-> None, gitStatus |-> "unknown", package |-> None,
           codeSteady |-> TRUE, filesSteady |-> TRUE]

ProvenanceInit ==
  /\ commits \in Histories
  /\ head = Len(commits)
  /\ tree = [source |-> commits[head].source, pin |-> commits[head].pin, extra |-> FALSE]
  /\ changes = 0
  /\ runs = [r \in Runs |-> NewRun]

InProgress(r) == runs[r].pc \notin {"idle", "published", "refused", "lost"}
Becomes(r, run) == runs' = [runs EXCEPT ![r] = run]
\* A run that ends without a package leaves nothing to read.
Abandon(r, pc) == Becomes(r, [NewRun EXCEPT !.pc = pc])
Still == UNCHANGED <<tree, commits, head, changes>>

\* The process imports the solve path: from here on it runs this version.
Import(r) ==
  /\ runs[r].pc = "idle"
  /\ Cardinality({s \in Runs : InProgress(s)}) < MaxOpen
  /\ \E job \in Jobs :
       Becomes(r, [runs[r] EXCEPT !.pc = "imported", !.job = job, !.loaded = tree.source])
  /\ Still

\* _require_registered_adapter: what verifies runs under its registered id.
RegistrationHolds(a, t) ==
  /\ ~PinsRaise(a, t)
  /\ VerifyAdapterIdentity(a, t) = "verified" => a.registered

\* The registration, analyze_git_worktree, which may fail, and the first formal gate.
Analyse(r) ==
  LET job == runs[r].job
  IN /\ runs[r].pc = "imported"
     /\ \E status \in {GitStatus, "unknown"} :
          IF \/ ~RegistrationHolds(job.adapter, tree)
             \/ job.mode = "formal_comparison" /\ status # "clean"
          THEN Abandon(r, "refused")
          ELSE Becomes(r, [runs[r] EXCEPT !.pc = "analysed", !.worktree = status])
     /\ Still

\* collect_git_provenance: rev-parse, then status; either may fail.
ReadHead(r) ==
  /\ runs[r].pc = "analysed"
  /\ \/ Becomes(r, [runs[r] EXCEPT !.pc = "headed", !.commit = head])
     \/ Becomes(r, [runs[r] EXCEPT !.pc = "sourced"])
  /\ Still

ReadStatus(r) ==
  /\ runs[r].pc = "headed"
  /\ \/ Becomes(r, [runs[r] EXCEPT !.pc = "sourced", !.gitStatus = GitStatus])
     \/ Becomes(r, [runs[r] EXCEPT !.pc = "sourced", !.commit = None])
  /\ Still

\* The manifests, the formal gate and the model envelope.
Preflight(r) ==
  LET a == runs[r].job.adapter
      refused == \/ PinsRaise(a, tree)
                 \/ /\ runs[r].job.mode = "formal_comparison"
                    /\ ~FormalEvidence(runs[r], ComponentManifest(a, tree))
  IN /\ runs[r].pc = "sourced"
     /\ \/ Abandon(r, "refused")      \* the envelope refuses, if nothing else does
        \/ /\ ~refused
           /\ Becomes(r, [runs[r] EXCEPT !.pc = "running", !.filesSteady = TRUE])
     /\ Still

\* The manifests once more, from the files of now, and the package.
PublishPackage(r) ==
  LET a == runs[r].job.adapter
  IN /\ runs[r].pc = "running"
     /\ \E outcome \in Outcomes :
          IF PinsRaise(a, tree) THEN Abandon(r, "lost")
          ELSE Becomes(r, [runs[r] EXCEPT !.pc = "published",
                          !.package = Package(runs[r], ComponentManifest(a, tree), outcome)])
     /\ Still

-----------------------------------------------------------------------------
\* The person at the checkout.
Put(t) ==
  /\ changes < MaxChanges
  /\ changes' = changes + 1
  /\ tree' = t
  /\ runs' = [r \in Runs |->
       IF InProgress(r)
       THEN [runs[r] EXCEPT
              !.codeSteady = @ /\ t.source = tree.source,
              !.filesSteady = @ /\ t.source = tree.source /\ t.pin = tree.pin]
       ELSE runs[r]]

Edit ==
  \E t \in Trees :
    /\ t # tree
    /\ Cardinality({f \in {"source", "pin", "extra"} : t[f] # tree[f]}) = 1
    /\ Put(t)
    /\ UNCHANGED <<commits, head>>

Commit ==
  /\ GitStatus = "dirty"
  /\ Put([tree EXCEPT !.extra = FALSE])
  /\ commits' = Append(commits, [source |-> tree.source, pin |-> tree.pin])
  /\ head' = Len(commits')

Checkout ==
  /\ GitStatus = "clean"
  /\ \E c \in (1 .. Len(commits)) \ {head} :
       /\ Put([source |-> commits[c].source, pin |-> commits[c].pin, extra |-> FALSE])
       /\ head' = c
  /\ UNCHANGED commits

ProvenanceNext ==
  \/ \E r \in Runs : \/ Import(r) \/ Analyse(r) \/ ReadHead(r) \/ ReadStatus(r)
                     \/ Preflight(r) \/ PublishPackage(r)
  \/ Edit \/ Commit \/ Checkout

ProvenanceSpec == ProvenanceInit /\ [][ProvenanceNext]_provenanceVars

Published == {r \in Runs : runs[r].pc = "published"}

\* A formal run whose package is contradicted by the kernel, or unreviewed, passed
\* gates that saw neither: the sources or the pin were changed while it ran
\* (runtime.py:1134, 1746-1783).
ContradictionMeansChange ==
  \A r \in Published :
    LET p == runs[r].package
    IN /\ p.mode = "formal_comparison"
       /\ p.review = "unreviewed" \/ p.verification \in CONTRADICTED_VERIFICATION_STATUSES
       => ~runs[r].filesSteady
=============================================================================
