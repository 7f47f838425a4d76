SPECIFICATION Spec
CONSTANTS
  Period = 4
  Duration = 11
  Offset = 0
  PlantStep = 2
  Delay = 0
  AllowTargetTime = TRUE
  StartTime = 0
  CheckpointInterval = 2
  Protocol = "snapshot_restore"
  Specs <- OneSpec
  MaxRuns = 2
  Faults = {}
  BoundaryStops = FALSE
  AsyncStops <- Ctrl_C
  Crashes = FALSE
INVARIANTS
  CompletedRunIsBaseline
CHECK_DEADLOCK FALSE
