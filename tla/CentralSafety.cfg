SPECIFICATION Spec
CONSTANTS
  g1 = g1
  g2 = g2
  g3 = g3
  l1 = l1
  c1 = c1
  c2 = c2
  NoGuid = NoGuid
  Guid = {g1, g2}
  Lane = {l1}
  Caller = {c1, c2}
  laneOf <- OneLane
  Attempts = 2
  MaxInbox = 1
  Launches = FALSE
  CanFail = TRUE
  FalseFailure = TRUE
  CanLose = TRUE
  Silent = TRUE
  CentralStops = TRUE
  RemoteStops = TRUE
INVARIANTS
  CompleteMeansEnded
  RecordedExclusive
SYMMETRY Symmetry
CHECK_DEADLOCK FALSE
