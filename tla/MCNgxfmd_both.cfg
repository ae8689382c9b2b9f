CONSTANTS
  Handlers <- NgxfmdHandlers
  Native <- NgxfmdNative
  Spawning <- NgxfmdSpawning
  Clients <- NgxfmdClients
  Confs <- NgxfmdConfs
SPECIFICATION FairSpec
\* The process ends.
CHECK_DEADLOCK FALSE
PROPERTIES
  BothInterfaces
