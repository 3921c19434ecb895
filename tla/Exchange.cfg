SPECIFICATION FairSpec
CONSTANTS
  in = in
  out = out
  Packet = {in, out}
  packets <- PacketList
  Load = {in}
  WithMD = {in}
  Wiped = TRUE
INVARIANTS
  TypeOK
  SuccessVerified
  LaunchBound
  NoProcessLeft
  RecordedTransferred
  NoStaleUpload
  MessageFileRemoved
PROPERTIES
  TaskEnds
CHECK_DEADLOCK FALSE
