SPECIFICATION Spec
CONSTANTS
  transient = transient
  edited = edited
  other = other
  retitled = retitled
  a = a
  b = b
  buck = buck
  boost = boost
  s1 = s1
  s2 = s2
  NoStudy = NoStudy
  NoDoc = NoDoc
  N = 2
  Studies = {s1, s2}
  Docs <- AcceptedDocs
  NotANumber = NotANumber
  PositivePaths <- MCPositive
  Random <- MCRandom
  Scale = 4
  BoxMuller <- MCBoxMuller
  MaxFloat = 1000
  IdOf <- MCIdOf
  PlantOf <- MCPlantOf
  KindOf <- MCKindOf
  Launches <- MCLaunches
  Interruptible = {s1}
  Products <- MCProducts
INVARIANTS OkIsOwnRun ExitZeroIsWhole AggregateIsHonest PointsAreAsPlanned
PROPERTIES LedgerSpec
CHECK_DEADLOCK FALSE
