CONSTANTS
  Dirs <- MCDirs
  RunOf <- MCRunOf
  Serves <- MCServes
  ManifestOf <- MCManifestOf
  Contents = {"v1", "v2"}
  Attesters = {"first", "second"}
  Adds = {"all", "file"}
  MaxCommits = 2
  MaxActs = 3
  Earlier = {"retyped", "retuned", "bare", "array"}
  LeftOut = {{}, {"plant"}, {"timebase"}}
  Absent = Absent
  None = None
  Broken = Broken
SPECIFICATION Spec
INVARIANTS
  AnchoredMeansRecorded
  AttestationsAreKept
  CurrentMeansSeen
  StaleNamesTheChange
PROPERTY AnchorLasts
CHECK_DEADLOCK FALSE
