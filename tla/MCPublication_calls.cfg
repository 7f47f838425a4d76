SPECIFICATION FairSpec
CONSTANTS
  a = a
  ab = ab
  c1 = c1
  c2 = c2
  keep = keep
  body = body
  npz = npz
  NoCall = NoCall
  Keep = keep
  Required = {keep, body}
  Optional = {npz}
  RunIds <- TwoIds
  Shadows <- Dotted
  Calls = {c1, c2}
  WriteFaults = TRUE
  Crashes = TRUE
INVARIANTS MarkerMeansVerified
PROPERTIES EvidenceIsKept StoreSpec SomeoneWins
CHECK_DEADLOCK FALSE
