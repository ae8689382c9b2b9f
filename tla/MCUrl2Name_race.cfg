\* Two writers, three requests on one key, a download of it, one failing command.
CONSTANTS
  Reqs = {r1, r2, r3}
  Visits = {v1}
  Writers = {w1, w2}
  RequestPoolSize = 2
  EntryPoolSize = 1
  Adds <- RaceAdds
  Rms <- RaceRms
  Links <- DownloadLinks
  Urls <- AllUrls
  Names <- AllNames
  NoName = NoName
  MaxFaults = 1
SPECIFICATION Spec
SYMMETRY Symmetry
\* When the requests are over the writers wait for entries.
CHECK_DEADLOCK FALSE
INVARIANTS
  IndexConsistent
  QuiescentSaved
PROPERTIES
  FirstNameKept
