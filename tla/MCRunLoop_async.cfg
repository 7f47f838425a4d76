SPECIFICATION Spec
CONSTANTS
  Period = 4
  Duration = 11
  Offset = 1
  PlantStep = 1
  Delay = 1
  AllowTargetTime = TRUE
  StartTime = 0
  CheckpointInterval = 2
  Protocol = "snapshot_restore"
  Specs <- TwoSpecs
  MaxRuns = 2
  Faults <- AllFaults
  BoundaryStops = TRUE
  AsyncStops <- AnyStop
  Crashes = TRUE
INVARIANTS
  CompletedRunReachesDeadline
  CheckpointClaimIsHonest
  FailureNeverLooksQualified
CHECK_DEADLOCK FALSE
