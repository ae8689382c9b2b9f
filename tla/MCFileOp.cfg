\* Either upload type; three requests, two of which can be inside at once, on
\* two names; forms of one or two files.
CONSTANTS
  Reqs = {r1, r2, r3}
  RequestPoolSize = 2
  UploadTypes = {1, 2}
  Names = {a, b}
  MaxLen = 2
  MaxParts = 2
  NoFile = NoFile
  Hole = Hole
SPECIFICATION Spec
SYMMETRY Symmetry
\* When the requests are over nothing is left to do.
CHECK_DEADLOCK FALSE
INVARIANTS
  PoolConserved
  StoredWhole
  FoundIsServed
PROPERTIES
  OkMeansStored
