SPECIFICATION ProvenanceSpec
CONSTANTS
  Runs = {r1, r2}
  v1 = v1
  v2 = v2
  Versions = {v1, v2}
  Jobs <- MCJobs
  Histories <- MCHistories
  Outcomes <- MCOutcomes
  Migrations <- MCMigrations
  Audience <- MCAudience
  Tolerances <- MCTolerances
  MetricTolerances <- MCMetricTolerances
  MaxChanges = 2
  MaxOpen = 1
  PackageSchema = 2
  NoPin = NoPin
  Unreadable = Unreadable
  NoDigest = NoDigest
  None = None
SYMMETRY Symmetry
INVARIANTS EligibleIsSound MatchMeansSameCode ContradictionMeansChange
CHECK_DEADLOCK FALSE
