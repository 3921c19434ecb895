SPECIFICATION FairSpec
CONSTANTS
  f = f
  pack = pack
  root = root
  sub = sub
  other = other
  File = {f, pack}
  Dir = {root, sub, other}
  roots <- Roots
  entries <- Entries
  Pack = {pack}
  SameSize = {f}
  Attempts = 2
  NoFile = NoFile
  MaxVersion = 2
  MaxRuns = 3
INVARIANTS
  TypeOK
  SuccessCopied
  SuccessUnpacked
  LossNoted
  OneLateDownload
PROPERTIES
  TaskEnds
CHECK_DEADLOCK FALSE
