\* One object, one writer behind a queue of one, failing commands and Uninit.
CONSTANTS
  Reqs = {r1, r2, r3}
  Visits = {}
  Writers = {w1}
  RequestPoolSize = 1
  EntryPoolSize = 1
  Adds <- LiveAdds
  Rms <- RaceRms
  Links <- DownloadLinks
  Urls <- AllUrls
  Names <- AllNames
  NoName = NoName
  MaxFaults = 1
SPECIFICATION FairSpec
\* When the requests are over the writer waits for entries.
CHECK_DEADLOCK FALSE
PROPERTIES
  ObjectsComeBack
  AddTakesEffect
