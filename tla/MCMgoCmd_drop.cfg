\* Monitors that list and drop while objects are rewritten and collections arrive.
CONSTANTS
  Reqs = {r1, r2, r3}
  MgoReqPoolSize = 2
  DBs = {"a"}
  Absent = Absent
  Bodies <- DropBodies
  Hids = {"h"}
  MaxNames = 4
  Date <- DropDates
  InitColls <- DropColls
SPECIFICATION Spec
SYMMETRY Symmetry
\* When the requests are over and the databases are full nothing is left to do.
CHECK_DEADLOCK FALSE
PROPERTIES
  NewestKept
