SPECIFICATION FairSpec
CONSTANTS
  exchange = exchange
  ext = ext
  t1 = t1
  a1 = a1
  a2 = a2
  a3 = a3
  Time = {t1}
  components <- Components
  Setting <- Settings
  NoBase = NoBase
  Malformed = {a3}
  NoComponent = NoComponent
  Checker = Checker
  Request = {r1, r2}
  Run = {n1, n2}
  UserRun = {n2}
  MaxSaves = 1
INVARIANTS
  TypeOK
  ScheduleIsDb
PROPERTIES
  CheckFollows
CHECK_DEADLOCK FALSE
