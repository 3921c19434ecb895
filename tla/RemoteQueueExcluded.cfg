SPECIFICATION Spec
CONSTANTS
  t1 = t1
  t2 = t2
  t3 = t3
  p1 = p1
  p2 = p2
  b1 = b1
  b2 = b2
  NoConfig = NoConfig
  NoTask = NoTask
  Task = {t1, t2}
  Guid = {"g1", "g2", "g3"}
  Base = {b1, b2}
  Pool = {p1, p2}
  guid <- GuidDistinct
  base <- BaseOf
  pools <- PoolsMixed
  Answer <- AnswerStable
  Volatile = {}
  MaxLaunch = 1
  Killable = {t1, t2}
  CanRestart = FALSE
PROPERTIES
  ExcludedNeverLaunched
