SPECIFICATION Spec
CONSTANTS
  t1 = t1
  t2 = t2
  t3 = t3
  p1 = p1
  p2 = p2
  b1 = b1
  b2 = b2
  NoConfig = NoConfig
  NoTask = NoTask
  Task = {t1, t2, t3}
  Guid = {"g1", "g2", "g3"}
  Base = {b1, b2}
  Pool = {p1, p2}
  guid <- GuidRetried
  base <- BaseOf
  pools <- PoolsMixed
  Answer <- AnswerChanging
  Volatile = {t1}
  MaxLaunch = 1
  Killable = {t1, t2}
  CanRestart = TRUE
INVARIANTS
  TypeOK
  PoolLimit
  ActiveTaskListed
  NoLeakedSlot
  NoLostWakeup
PROPERTIES
  ImplementsTaskService
