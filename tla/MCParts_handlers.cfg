CONSTANTS
  PartNames <- HandlerParts
  Reqs <- PartsReqs
  PoolSize = 2
  Sizes <- PartsSizes
  MaxStack = 4
  Absent = "absent"
  FormKeys <- PartsKeys
  PathKeys <- PartsPathKeys
  MaxValues = 3
  NoPath <- PartsNoPath
  pingCount = 3
  MaxErrs = 4
  Daemons <- PartsDaemons
  Registered <- PartsRegistered
  Waiting <- PartsWaiting
  Monitors <- PartsMonitors
  Files <- PartsFiles
  UrlAlphabet <- PartsChars
  MaxRest = 4
  ReaderText <- PartsReaderText
  ReaderSize = 3
  WriterSize = 3
  MaxBytes = 7
  SinkReads = TRUE
  BufferText <- PartsBufferText
  Bootstrap = 2
  MinRead = 2
  MaxDepth = 2
  NameParts <- PartsNames
  MaxNames = 3
  MaxStatements = 6
  MaxTokens = 4
SPECIFICATION Spec
\* Requests end and urls are bounded.
CHECK_DEADLOCK FALSE
INVARIANTS
  AnswersAreTrue
  KeyIsRest
  RunsOwnRequest
  ServesAsEntered
PROPERTIES
  FreshTickExact
  PoolPromise
