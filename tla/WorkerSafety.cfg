SPECIFICATION WFairSpec
CONSTANTS
  t1 = t1
  t2 = t2
  t3 = t3
  p1 = p1
  b1 = b1
  b2 = b2
  NoConfig = NoConfig
  NoTask = NoTask
  NoCall = NoCall
  Task = {t1, t2}
  Guid = {"g1", "g2", "g3"}
  Base = {b1, b2}
  Pool = {p1}
  guid <- GuidOf
  base <- BaseOf
  pools <- PoolsOf
  Answer <- AnswerAll
  Volatile = {t1}
  MaxLaunch = 1
  Killable = {t1, t2}
  CanRestart = TRUE
  MaxDate = 3
  confAt <- ConfAt
  Version = {"v1", "v2"}
  versionAt <- VersionLate
  CentralFails = TRUE
  PrepareFails = TRUE
  Interruptible = {t1}
INVARIANTS
  WTypeOK
  ConfDateHonest
PROPERTIES
  NoStaleQueueing
  Spec
  HandlerReturns
