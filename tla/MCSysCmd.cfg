\* Two objects, three requests of every kind; no symmetry, for the liveness.
CONSTANTS
  Reqs = {r1, r2, r3}
  SysRequestPoolSize = 2
  Commands = {"DF", "Disk", "df"}
  Lower <- LowerCase
  Absent = Absent
  Bodies <- RunBodies
  MaxLines = 1
SPECIFICATION FairSpec
INVARIANTS
  AnswersAreTrue
PROPERTIES
  PoolPromise
  WaitersServed
