SPECIFICATION Spec
CONSTANTS
  Period = 4
  Duration = 7
  Offset = 1
  PlantStep = 1
  Delay = 1
  AllowTargetTime = TRUE
  StartTime = 1
  CheckpointInterval = 1
  Protocol = "reset_serialized_state"
  Specs <- OneSpec
  MaxRuns = 3
  Faults <- AllFaults
  BoundaryStops = TRUE
  AsyncStops = {}
  Crashes = TRUE
INVARIANTS
  CompletedRunIsBaseline
  PackagesHoldBaselinePrefix
CHECK_DEADLOCK FALSE
