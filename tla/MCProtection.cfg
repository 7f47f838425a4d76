SPECIFICATION WatchedSpec
CONSTANTS
  Period = 2
  Policies <- FourPolicies
  Nominal = 4
  Rise = 4
  Fall = 2
  Disturbed <- Early
  Samples = 9
  DutyScale = 4
  Watches <- MCWatches
  Loads <- MCLoads
  Vin = 4
  Duty = 2
  CheckpointInterval = 2
INVARIANTS
  EnvelopeIsHonest
  FaultIsDrivenForOneWindowAtMost
  HoldIsNeverCut
  RecoversInTime
PROPERTY ReplayAgrees
CHECK_DEADLOCK FALSE
