CONSTANTS
  PartNames <- LibraryParts
  Reqs <- PartsReqs
  PoolSize = 2
  Sizes <- PartsSizes
  MaxStack = 4
  Absent = "absent"
  FormKeys <- PartsKeys
  PathKeys <- PartsPathKeys
  MaxValues = 3
  NoPath <- PartsNoPath
  pingCount = 3
  MaxErrs = 4
  Daemons <- PartsDaemons
  Registered <- PartsRegistered
  Waiting <- PartsWaiting
  Monitors <- PartsMonitors
  Files <- PartsFiles
  UrlAlphabet <- PartsChars
  MaxRest = 4
  ReaderText <- PartsReaderText
  ReaderSize = 3
  WriterSize = 3
  MaxBytes = 7
  SinkReads = TRUE
  BufferText <- PartsBufferText
  Bootstrap = 2
  MinRead = 2
  MaxDepth = 2
  NameParts <- PartsNames
  MaxNames = 3
  MaxStatements = 6
  MaxTokens = 4
SPECIFICATION LibrarySpec
\* Calls and documents are finite.
CHECK_DEADLOCK FALSE
INVARIANTS
  WrittenInOrder
  ItemsFit
  DefinedOnce
  ReplyParsed
PROPERTIES
  BytesInOrder
  LexEnds
