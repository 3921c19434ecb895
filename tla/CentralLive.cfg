SPECIFICATION FairSpec
CONSTANTS
  g1 = g1
  g2 = g2
  g3 = g3
  l1 = l1
  c1 = c1
  c2 = c2
  NoGuid = NoGuid
  Guid = {g1}
  Lane = {l1}
  Caller = {c1, c2}
  laneOf <- OneLane
  Attempts = 3
  MaxInbox = 3
  Launches = TRUE
  CanFail = TRUE
  FalseFailure = TRUE
  CanLose = FALSE
  Silent = FALSE
  CentralStops = TRUE
  RemoteStops = FALSE
INVARIANTS
  TypeOK
PROPERTIES
  LaneReopens
CHECK_DEADLOCK FALSE
