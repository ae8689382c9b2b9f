\* The four handlers of the daemon, with one pool that is not as the others.
CONSTANTS
  Handlers <- NgxfmdHandlers
  Native <- NgxfmdNative
  Spawning <- NgxfmdSpawning
  Clients <- NgxfmdClients
  Confs <- NgxfmdConfs
SPECIFICATION FairSpec
\* The process ends.
CHECK_DEADLOCK FALSE
INVARIANTS
  OnlyUnconfiguredHang
  
PROPERTIES
  MainMovesOn
