SPECIFICATION Spec
CONSTANTS
  g1 = g1
  g2 = g2
  g3 = g3
  l1 = l1
  c1 = c1
  c2 = c2
  NoGuid = NoGuid
  Guid = {g1, g2}
  Lane = {l1}
  Caller = {c1, c2}
  laneOf <- OneLane
  Attempts = 2
  MaxInbox = 2
  Launches = TRUE
  CanFail = FALSE
  FalseFailure = FALSE
  CanLose = FALSE
  Silent = FALSE
  CentralStops = FALSE
  RemoteStops = FALSE
INVARIANTS
  LaneExclusive
