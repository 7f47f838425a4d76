CONSTANTS
  Versions <- MCVersions
  Reviewers = {ada, bob}
  None = None
  Torn = Torn
  MaxChanges = 3
  MaxCreates = 2
  MaxReviews = 2
SYMMETRY Symmetry
SPECIFICATION Spec
CHECK_DEADLOCK FALSE
INVARIANTS
  ApprovedIsReviewed
  ReleaseIsWhole
  UntouchedVerifies
