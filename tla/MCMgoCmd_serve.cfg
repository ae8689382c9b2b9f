\* Two objects, three requests; the databases stay empty. No
\* symmetry, for the liveness.
CONSTANTS
  Reqs = {r1, r2, r3}
  MgoReqPoolSize = 2
  DBs = {"a", "b"}
  Absent = Absent
  Bodies <- ServeBodies
  Hids = {"h"}
  MaxNames = 0
  Date <- NoDates
  InitColls <- NoColls
SPECIFICATION FairSpec
\* A diskMonE with no monitor blocks for good: the system may stop there.
CHECK_DEADLOCK FALSE
INVARIANTS
  ServedAsSent
  FlagHasMonitor
  MonitorsAccounted
  MonitorDBStable
PROPERTIES
  PoolPromise
  WaitersServed
  StopAnswered
