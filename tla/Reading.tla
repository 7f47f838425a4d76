------------------------------ MODULE Reading ------------------------------
(***************************************************************************)
(* What a reader makes of published packages: the credibility of one, the  *)
(* claim it supports and how two of them compare (inspection.py,           *)
(* credibility.py, claim.py, compatibility.py, reproducibility.py).        *)
(***************************************************************************)
EXTENDS Provenance

CONSTANTS PackageSchema,   \* the schema minor the packages declare
          Migrations,      \* hops <<from, to>> a reader registers
          Audience,        \* the readers who look at the packages
          Tolerances       \* the tolerance policies they compare them with

ASSUME SchemasAreNumbers == PackageSchema \in Nat /\ Migrations \subseteq Nat \X Nat

\* A reader: its schema, its policy, the verdict on an attestation it was given
\* (None: it was given none), and whether the hashes of the package still hold.
Policies == [{"requireEnvelope", "requireReviewed", "requireKnownBackend"} -> BOOLEAN]
Trusts == {None, "L1_anchored", "L1_pending", "invalid", "unknown"}
Readers == [schema : Nat, policy : Policies, trust : Trusts, intact : BOOLEAN]
ASSUME AudienceAreReaders == Audience \subseteq Readers

\* compatibility.py.
MigrationPath(from, to) ==
  LET within[k \in 0 .. Cardinality(Migrations)] ==
        IF k = 0 THEN {from}
        ELSE LET before == within[k - 1]
             IN before \cup {hop[2] : hop \in {h \in Migrations : h[1] \in before}}
  IN to \in within[Cardinality(Migrations)]
Compatibility(schema, reader) ==
  CASE schema = reader -> "current"
    [] schema < reader /\ MigrationPath(schema, reader) -> "read_only"
    [] OTHER -> "incompatible"

-----------------------------------------------------------------------------
\* credibility.py: each factor reads one aspect of the package p.
IntegrityFactor(intact) == IF intact THEN "pass" ELSE "fail"

SourceStateFactor(p) ==
  CASE p.gitStatus = "clean" /\ p.commit # None -> "pass"
    [] p.gitStatus = "dirty" -> "limited"
    [] OTHER -> "unknown"

RunModeFactor(p) == IF p.mode = "formal_comparison" THEN "pass" ELSE "limited"
EnvironmentFactor(p) == IF p.environment = "known" THEN "pass" ELSE "limited"

BackendFactor(p, policy) ==
  IF \A b \in p.backends : b.status = "known" THEN "pass"
  ELSE IF policy.requireKnownBackend THEN "fail" ELSE "limited"

PlantIdentityFactor(p) == IF p.identityComplete THEN "pass" ELSE "limited"

\* The pin of the reader's checkout t, for the plant id the package names.
CurrentReview(p, t) ==
  IF p.digest = NoDigest \/ t.pin = Unreadable THEN None
  ELSE IF p.plantIsBackend THEN ReviewStatus(t, p.digest) ELSE "not_pinned"

\* (A reader that trusts what the producer recorded.)
RecordedReviewOnly(p, t) == p.review
EffectiveReview(p, t) ==
  IF CurrentReview(p, t) # None THEN CurrentReview(p, t) ELSE p.review

ImplementationReviewFactor(p, t, policy) ==
  CASE p.digest = NoDigest /\ p.review = None -> "unknown"
    [] ~(p.digest = NoDigest /\ p.review = None)
         /\ p.verification \in CONTRADICTED_VERIFICATION_STATUSES -> "fail"
    [] OTHER ->
         LET review == EffectiveReview(p, t)
         IN CASE review = "reviewed" ->
                   IF p.verification = "unverifiable" THEN "limited" ELSE "pass"
              [] review \in {"unreviewed", "not_pinned"} ->
                   IF policy.requireReviewed THEN "fail" ELSE "limited"
              [] OTHER -> "unknown"

QualificationFactor(p) ==
  CASE p.outcome.level = "assessed" -> "pass"
    [] p.outcome.level = "partial" -> "limited"
    [] OTHER -> "fail"

ApplicabilityFactor(p, policy) ==
  CASE p.outcome.envelope = "violated" -> "fail"
    [] p.outcome.envelope = "off" -> IF policy.requireEnvelope THEN "limited" ELSE "unknown"
    [] p.outcome.envelope = "undeclared" -> IF policy.requireEnvelope THEN "limited" ELSE "pass"
    [] p.outcome.envelope \in {"invalid", "left"} -> "limited"
    [] OTHER -> "pass"

NumericalHealthFactor(p) ==
  CASE p.outcome.health \in {"clean", "reference"} -> "pass"
    [] p.outcome.health = "warning" -> "limited"
    [] p.outcome.health = "fatal" -> "fail"
    [] OTHER -> "unknown"

SafetyFactor(p) == IF p.outcome.safe THEN "pass" ELSE "fail"

EvidenceLevelFactor(p) ==
  CASE p.evidence = "comparable" -> "pass"
    [] p.evidence \in {"functional", "limited"} -> "limited"
    [] OTHER -> "unknown"

\* With an attestation, its verdict is one more factor.
AuthenticityFactor(trust) ==
  CASE trust = "L1_anchored" -> "pass"
    [] trust = "L1_pending" -> "limited"
    [] trust = "invalid" -> "fail"
    [] OTHER -> "unknown"

Factors(p, t, reader) ==
  {IntegrityFactor(reader.intact), SourceStateFactor(p), RunModeFactor(p), EnvironmentFactor(p),
   BackendFactor(p, reader.policy), PlantIdentityFactor(p),
   ImplementationReviewFactor(p, t, reader.policy), QualificationFactor(p),
   ApplicabilityFactor(p, reader.policy), NumericalHealthFactor(p), SafetyFactor(p),
   EvidenceLevelFactor(p)}
  \cup (IF reader.trust = None THEN {} ELSE {AuthenticityFactor(reader.trust)})

Aggregate(factors) ==
  CASE "fail" \in factors -> "not_credible"
    [] "fail" \notin factors /\ "limited" \in factors -> "limited"
    [] factors \cap {"fail", "limited"} = {} /\ "unknown" \in factors -> "unknown"
    [] OTHER -> "credible"

AssessCredibility(p, t, reader) == Aggregate(Factors(p, t, reader))

-----------------------------------------------------------------------------
\* claim.py.
CLAIM_CONCLUSIONS == <<"no_claim", "exploratory", "bounded", "comparison_eligible">>
ClaimRank(conclusion) == CHOOSE i \in 1 .. 4 : CLAIM_CONCLUSIONS[i] = conclusion
RunOk(p) == p.outcome.status \in {"RUN_OK", "QUALIFIED", "COMPARABLE"}

EvidenceConclusion(level) ==
  CASE level = "comparable" -> "comparison_eligible"
    [] level = "limited" -> "bounded"
    [] level = "functional" -> "exploratory"
    [] OTHER -> "no_claim"

QualificationCap(level) == IF level = "partial" THEN "bounded" ELSE "comparison_eligible"
CredibilityCap(credibility) ==
  CASE credibility = "limited" -> "bounded"
    [] credibility = "credible" -> "comparison_eligible"
    [] OTHER -> "exploratory"
CompatibilityCap(verdict) == IF verdict = "current" THEN "comparison_eligible" ELSE "bounded"

\* Hard stops first, then the weakest of what the inputs support.
DeriveClaim(p, intact, credibility, compatibility) ==
  IF \/ ~intact \/ ~RunOk(p) \/ p.outcome.level = "failed"
     \/ credibility = "not_credible" \/ compatibility = "incompatible"
  THEN "no_claim"
  ELSE LET caps == {EvidenceConclusion(p.evidence), QualificationCap(p.outcome.level),
                    CredibilityCap(credibility), CompatibilityCap(compatibility)}
       IN CHOOSE c \in caps : \A d \in caps : ClaimRank(c) <= ClaimRank(d)

\* inspect_run at a checkout t, and the claim it ends with.
InspectRun(p, t, reader) ==
  DeriveClaim(p, reader.intact, AssessCredibility(p, t, reader),
              Compatibility(PackageSchema, reader.schema))

-----------------------------------------------------------------------------
\* reproducibility.py.
IntegrityGate(p, intact) == RunOk(p) /\ intact
EnvironmentGate(p) ==
  /\ p.gitStatus = "clean"
  /\ p.commit # None
  /\ \A b \in p.backends :
       /\ b.status \notin {"unknown", "unavailable", "partial"}
       /\ b.status = "known" => b.version

EnvironmentIdentity(p) == p.backends
\* (An identity that forgets the commit.)
IdentityWithoutCommit(p) == [experiment |-> p.experiment, plant |-> p.digest]
ManifestIdentity(p) ==
  [source_commit |-> p.commit, experiment |-> p.experiment,
   plant |-> [digest |-> p.digest, review |-> p.review, complete |-> p.identityComplete]]

\* ToleranceSpec: limits in hundredths and per cent, for every signal and, as
\* <<name, absolute, relative>>, for single ones.
Limits(absolute, relative) == {absolute, relative} \subseteq Nat
PolicyAccepted(policy) ==
  /\ Limits(policy.absolute, policy.relative)
  /\ \A i \in DOMAIN policy.per_signal :
       LET entry == policy.per_signal[i]
       IN /\ Len(entry) = 3 /\ entry[1] # "" /\ Limits(entry[2], entry[3])
          /\ \A j \in 1 .. i - 1 : policy.per_signal[j][1] # entry[1]

ASSUME TolerancesAreAccepted == \A policy \in Tolerances : PolicyAccepted(policy)

\* limit_for: the larger of the two, the relative one of the left value's magnitude.
Magnitude(n) == IF n < 0 THEN -n ELSE n
LimitFor(policy, signal, reference) ==
  LET own == {i \in DOMAIN policy.per_signal : policy.per_signal[i][1] = signal}
      absolute == IF own = {} THEN policy.absolute ELSE policy.per_signal[CHOOSE i \in own : TRUE][2]
      relative == IF own = {} THEN policy.relative ELSE policy.per_signal[CHOOSE i \in own : TRUE][3]
      scaled == relative * Magnitude(reference)
  IN IF scaled > absolute THEN scaled ELSE absolute

\* _numeric_differences: two samples name the same signals, and how they differ.
SameSignals(left, right) == DOMAIN left = DOMAIN right
Distance(a, b) == IF a < b THEN b - a ELSE a - b
Exceeded(left, right, policy) ==
  {signal \in DOMAIN left :
     100 * Distance(left[signal], right[signal]) > LimitFor(policy, signal, left[signal])}

CompareSamples(left, right, policy) ==
  CASE left = right -> "exact_match"
    [] left # right -> IF SameSignals(left, right) /\ Exceeded(left, right, policy) = {}
                       THEN "tolerance_match" ELSE "mismatch"

\* p is the left run.
CompareRuns(p, q, policy) ==
  CASE \E x \in {p, q} : ~(IntegrityGate(x, TRUE) /\ EnvironmentGate(x)) -> "unknown"
    [] EnvironmentIdentity(p) # EnvironmentIdentity(q) -> "unknown"
    [] OTHER -> IF ManifestIdentity(p) # ManifestIdentity(q) THEN "mismatch"
                ELSE CompareSamples(p.outcome.samples, q.outcome.samples, policy)

\* _cross_version_note: whether the outcome may be read as agreement.
CrossVersionNote(p, q, reader) ==
  CASE Compatibility(PackageSchema, reader.schema) = "incompatible" -> "unsupported"
    [] Compatibility(PackageSchema, reader.schema) = "read_only" -> "not_assessed"
    [] OTHER -> IF p.commit # q.commit THEN "not_assessed" ELSE None

\* audit_repeated_runs: every pair of the sequence ps, the earlier one as the left.
AuditRepeatedRuns(ps, policy) ==
  LET pairs == {x \in (DOMAIN ps) \X (DOMAIN ps) : x[1] < x[2]}
      outcomes == {CompareRuns(ps[x[1]], ps[x[2]], policy) : x \in pairs}
  IN CASE "unknown" \in outcomes -> "unknown"
       [] "unknown" \notin outcomes /\ "mismatch" \in outcomes -> "mismatch"
       [] OTHER -> IF "tolerance_match" \in outcomes THEN "tolerance_match" ELSE "exact_match"

\* cross_machine_evidence: the packages ps, made on the platforms of the same index.
CrossMachineEvidence(ps, platforms) ==
  LET commitsOf == {ps[i].commit : i \in DOMAIN ps} \ {None}
      aligned == Cardinality(commitsOf) <= 1
      twoMachines == \E i, j \in DOMAIN ps : platforms[i] # platforms[j]
      blocked == \E i \in DOMAIN ps : ~(IntegrityGate(ps[i], TRUE) /\ EnvironmentGate(ps[i]))
  IN IF aligned /\ twoMachines /\ ~blocked THEN "ready_for_trial" ELSE "not_assessed"

-----------------------------------------------------------------------------
Eligible(r, reader) == InspectRun(runs[r].package, tree, reader) = "comparison_eligible"

\* A package that a reader may compare formally was earned: the reader is of its
\* schema and its hashes hold; and if the sources on disk stayed what the process
\* had imported, every gate passed before its first window and it ran the code of
\* the commit it names, in formal mode, from a solve path the kernel digested, and
\* the pin of the reader's checkout is of that code.  Any other edit, commit or
\* checkout may come between import, gates, publication and reading
\* (runtime.py:575-600, 1134, inspection.py:228).
EligibleIsEarned ==
  \A r \in Published : \A reader \in Audience :
    Eligible(r, reader) =>
      LET run == runs[r] IN
      /\ reader.schema = PackageSchema /\ reader.intact /\ reader.trust \in {None, "L1_anchored"}
      /\ \A g \in DOMAIN PreflightDocument(run) : PreflightDocument(run)[g] = "pass"
      /\ run.job.mode = "formal_comparison" /\ Covered(run.job.adapter) /\ run.job.adapter.inside
      /\ run.codeSteady =>
           /\ commits[run.package.commit].source = run.loaded
           /\ run.package.digest = run.loaded
           /\ tree.pin \in {run.loaded, Unreadable}

\* A policy without a relative part.
Absolute(policy) ==
  policy.relative = 0 /\ \A i \in DOMAIN policy.per_signal : policy.per_signal[i][3] = 0

\* Runs an audit finds reproducible, or fit for a trial across machines, ran one
\* version of the code, from one commit, whatever was edited or committed between
\* them; nothing keeps a reader of their schema from saying so; and the order in
\* which the packages are named changes the verdict only under a relative limit
\* (reproducibility.py:118-138, 458-530, 563-805).
MatchMeansSameCode ==
  \A r, s \in Published :
    r # s =>
      \A ps \in {<<runs[r].package, runs[s].package>>} :
        /\ \/ \E policy \in Tolerances :
                AuditRepeatedRuns(ps, policy) \in {"exact_match", "tolerance_match"}
           \/ CrossMachineEvidence(ps, <<"this", "another">>) = "ready_for_trial"
           => /\ (\A x \in {r, s} : runs[x].codeSteady /\ runs[x].worktree = "clean")
                   => runs[r].loaded = runs[s].loaded
              /\ \A reader \in Audience :
                   reader.schema = PackageSchema => CrossVersionNote(ps[1], ps[2], reader) = None
        /\ \A policy \in Tolerances :
             Absolute(policy) => CompareRuns(ps[1], ps[2], policy) = CompareRuns(ps[2], ps[1], policy)

\* What the claim calls eligible for comparison, compare_runs can compare:
\* two such packages of one environment are never "unknown", save for a solver
\* that is known without a version (reproducibility.py:229-268, claim.py:205-308).
EligibleIsComparable ==
  \A r, s \in Published : \A policy \in Tolerances :
    LET p == runs[r].package  q == runs[s].package
    IN /\ EnvironmentIdentity(p) = EnvironmentIdentity(q)
       /\ \A b \in p.backends : b.version
       /\ CompareRuns(p, q, policy) = "unknown"
       => \A reader \in Audience : ~(Eligible(r, reader) /\ Eligible(s, reader))
=============================================================================
