SPECIFICATION FairSpec
CONSTANTS
  off = off
  on = on
  low = low
  high = high
  Kinds = {"buck", "circuit"}
  Duties = {off, on}
  Inputs = {low, high}
  Durations = {1, 2}
  ControlPeriod = 3
  SwitchingPeriod = 2
  MaxTime = 4
  MaxCalls = 2
  KeepArtifacts = FALSE
  Leavings <- MCLeavings
INVARIANTS TrajectoryIsTrue EvidenceOutlivesTheDirectory
PROPERTIES EveryStepEnds
CHECK_DEADLOCK FALSE
