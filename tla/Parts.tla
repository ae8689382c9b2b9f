------------------------------- MODULE Parts -------------------------------
(* The smaller handlers, the keys of url2name, the daemon cmdset around its *)
(* handlers, and the sequential parts of the vendored libraries, side by    *)
(* side: a behaviour is one of the part chosen at its start, in the         *)
(* variables v1 to v9.                                                      *)
EXTENDS Naturals, Sequences

CONSTANTS
    PartNames,  \* the names of the parts that are to be looked at
    Reqs,       \* the HTTP requests, one goroutine each
    PoolSize,   \* request_pool_size of /sctl and of /qianke/
    Sizes,      \* the pool sizes of /sandbox/
    MaxStack,   \* the slots Lua's stack can grow to
    Absent,     \* a body of /sctl without "op"
    FormKeys,   \* the keys of upload forms
    PathKeys,   \* those with suffix "path"
    MaxValues,  \* bound on the values of a key
    NoPath,     \* the empty UploadPath
    pingCount,  \* 5 in the code
    MaxErrs,    \* bound on the errors a database monitor counts before a tick
    Daemons,    \* processes of cmdset
    Registered, \* the names of their handler map
    Waiting,    \* those with operations that may wait for ever
    Monitors,   \* those with goroutines of their own that may panic
    Files,      \* their configuration files
    UrlAlphabet, \* the characters of urls
    MaxRest,    \* bound on the characters of a url, or on those after its scheme
    ReaderText, \* the bytes that a bufio.Reader meets, by class
    ReaderSize, \* the length of its buffer
    WriterSize, \* the length of the buffer of a bufio.Writer
    MaxBytes,   \* bound on the bytes that are written to it
    SinkReads,  \* whether the writer below it is an io.ReaderFrom
    BufferText, \* the bytes that a Buffer meets
    Bootstrap,  \* the length of its first buffer
    MinRead,    \* the room that its ReadFrom makes
    MaxDepth,   \* bound on the arrays within arrays of a configuration
    NameParts,  \* what is between the dots of its names
    MaxNames,   \* bound on the names of the header of a table
    MaxStatements \* bound on its statements

ASSUME PartsAssumption ==
    /\ {PoolSize, MaxStack, MaxValues, pingCount, MaxErrs, MaxRest, WriterSize} \subseteq Nat
    /\ {MaxNames, MaxStatements} \subseteq Nat
    /\ Sizes \subseteq Nat
    /\ pingCount > 0
    /\ PathKeys \subseteq FormKeys
    /\ NoPath \notin PathKeys \X Nat

VARIABLES part, v1, v2, v3, v4, v5, v6, v7, v8, v9

vars == <<part, v1, v2, v3, v4, v5, v6, v7, v8, v9>>

Unused == "unused"

Form == INSTANCE UploadForm WITH
    Keys <- FormKeys, form <- v1, todo <- v2, infoList <- v3, made <- v4,
    moved <- v5, outcome <- v6

Database == INSTANCE DbMon WITH
    mon <- v1, left <- v2, errCount <- v3, dbMonState <- v4, crashed <- v5,
    fresh <- v6, answered <- v7

Users == INSTANCE Qianke WITH
    pool <- v1, held <- v2, pc <- v3, answer <- v4, db <- v5, tables <- v6,
    rows <- v7, tool <- v8, lost <- v9

Service == INSTANCE Sctl WITH
    pool <- v1, op <- v2, held <- v3, body <- v4, pc <- v5, ran <- v6

Script == INSTANCE Sandbox WITH
    size <- v1, pool <- v2, object <- v3, fields <- v4, pc <- v5, context <- v6, lua <- v7

Daemon == INSTANCE Cmdd WITH
    Handlers <- Registered,
    conf <- v1, pc <- v2, todo <- v3, ready <- v4, blocked <- v5, dir <- v6, entry <- v7

ASSUME FilesAssumption == Files \subseteq Daemon!Configs

Url == INSTANCE UrlKey

Reader == INSTANCE BufReader WITH
    Text <- ReaderText, Size <- ReaderSize,
    b <- v1, taken <- v2, call <- v3, out <- v4, spoiled <- v5

Writer == INSTANCE BufWriter WITH
    Size <- WriterSize,
    w <- v1, sink <- v2, accepted <- v3, call <- v4, out <- v5

Buffer == INSTANCE ByteBuffer WITH
    Text <- BufferText,
    b <- v1, written <- v2, reading <- v3, given <- v4, split <- v5

Lexer == INSTANCE TomlLex WITH
    ahead <- v1, closed <- v2, state <- v3, stack <- v4, digits <- v5, parser <- v6,
    behind <- v7

Document == INSTANCE TomlDoc WITH
    Parts <- NameParts, MaxLen <- MaxNames,
    nodes <- v1, implicits <- v2, types <- v3, context <- v4, said <- v5, past <- v6

\* A url grows at its end.
Longer(url) ==
    /\ Len(url) < MaxRest + IF Url!HasScheme(url) THEN Len(Url!Scheme) ELSE 0
    /\ \E c \in UrlAlphabet : v1' = Append(url, c)

\* The variables from the n-th on are not those of any part.
UnusedFrom7 == v7 = Unused /\ v8 = Unused /\ v9 = Unused
UnusedFrom6 == v6 = Unused /\ UnusedFrom7

Init ==
    /\ part \in PartNames
    /\ \/ part = "form" /\ Form!Init /\ UnusedFrom7
       \/ part = "database" /\ Database!Init /\ v8 = Unused /\ v9 = Unused
       \/ part = "users" /\ Users!Init
       \/ part = "service" /\ Service!Init /\ UnusedFrom7
       \/ part = "script" /\ Script!Init /\ v8 = Unused /\ v9 = Unused
       \/ part = "daemon" /\ Daemon!Init /\ v8 = Unused /\ v9 = Unused
       \/ /\ part = "url" /\ v1 \in {<<>>, Url!Scheme}
          /\ v2 = Unused /\ v3 = Unused /\ v4 = Unused /\ v5 = Unused /\ UnusedFrom6
       \/ part = "reader" /\ Reader!Init /\ UnusedFrom6
       \/ part = "writer" /\ Writer!Init /\ UnusedFrom6
       \/ part = "buffer" /\ Buffer!Init /\ UnusedFrom6
       \/ part = "lexer" /\ Lexer!Init /\ v8 = Unused /\ v9 = Unused
       \/ part = "document" /\ Document!Init /\ UnusedFrom7

Next ==
    \/ part = "form" /\ Form!Next /\ UNCHANGED <<part, v7, v8, v9>>
    \/ part = "database" /\ Database!Next /\ UNCHANGED <<part, v8, v9>>
    \/ part = "users" /\ Users!Next /\ UNCHANGED part
    \/ part = "service" /\ Service!Next /\ UNCHANGED <<part, v7, v8, v9>>
    \/ part = "script" /\ Script!Next /\ UNCHANGED <<part, v8, v9>>
    \/ part = "daemon" /\ Daemon!Next /\ UNCHANGED <<part, v8, v9>>
    \/ part = "url" /\ Longer(v1) /\ UNCHANGED <<part, v2, v3, v4, v5, v6, v7, v8, v9>>
    \/ part = "reader" /\ Reader!Next /\ UNCHANGED <<part, v6, v7, v8, v9>>
    \/ part = "writer" /\ Writer!Next /\ UNCHANGED <<part, v6, v7, v8, v9>>
    \/ part = "buffer" /\ Buffer!Next /\ UNCHANGED <<part, v6, v7, v8, v9>>
    \/ part = "lexer" /\ Lexer!Next /\ UNCHANGED <<part, v8, v9>>
    \/ part = "document" /\ Document!Next /\ UNCHANGED <<part, v7, v8, v9>>

\* The parser asks for the next item until the end.
LexerIsAsked == WF_vars(part = "lexer" /\ Lexer!Lex /\ UNCHANGED <<part, v8, v9>>)

Spec == Init /\ [][Next]_vars /\ LexerIsAsked

----------------------------------------------------------------------------
\* What a handler answers is so: an upload of one path key answered 200 moved
\* every file (fileop.go:297-318), a registration answered 200 is in the table
\* and one refused is not (qianke.go:98-133, dbop.go:35-48), and "db monitor
\* has started" means that one runs (mongo_cmd.go:243-296).
AnswersAreTrue ==
    /\ part = "form" => Form!OkMovesAll
    /\ part = "users" => Users!RegisteredAsTold
    /\ part = "database" => Database!FlagHasMonitor

\* The key of a url is the url without its scheme, but for those that go on
\* with a character of the scheme (url2name_op.go:146, 231).
KeyIsRest == part = "url" => Url!KeyIsRest(v1)

\* A monitor that begins a tick without errors alarms exactly when every ping
\* of it fails (mongo_cmd.go:270-283).
FreshTickExact == [][part = "database" => Database!TickIsExact]_vars

\* The handlers /sctl and /qianke/ keep the promise of a request pool.
PoolPromise ==
    /\ part = "service" => Service!Pool!Init
    /\ part = "users" => Users!Pool!Init
    /\ [][/\ part = "service" => [Service!Pool!Next]_(Service!Pool!poolVars)
          /\ part = "users" => [Users!Pool!Next]_(Users!Pool!poolVars)]_vars

\* An operation of /sctl is the one its own body names
\* (service_ctrl_cmd.go:36-66), and a script of /sandbox/ works on the request
\* it was called for while goroutines keep out of each other's Lua
\* (sandbox.go:78-100, sandbox.c:39-104).
RunsOwnRequest ==
    /\ part = "service" => Service!RanAsSent
    /\ part = "script" => Script!OneAtATime

\* A daemon that serves is in etcd and serves all it is configured for, and
\* what waits for ever or panics has its reason in its configuration or in the
\* handler (main.go, cmds.go:32-51, mongo_cmd.go:237, 259).
ServesAsEntered == part = "daemon" => Daemon!ServesAsEntered

\* What is read from a Reader (bufio.go:63-490) or a Buffer (buffer.go) is
\* what came in, in order, nothing lost and nothing twice, wherever buffers,
\* lines and runes are cut and whatever is put back; and a Flush without an
\* error has passed on all that a Writer accepted (bufio.go:548-575).
BytesInOrder ==
    [][/\ part = "reader" => Reader!GivesNext /\ Reader!LinesWhole'
       /\ part = "buffer" => Buffer!QueueStep
       /\ part = "writer" => Writer!FlushForwards]_vars

\* What a Writer accepted is below it or in its buffer, once and in order,
\* whatever the writer below takes of a flush (bufio.go:509-716).
WrittenInOrder == part = "writer" => Writer!WrittenInOrder

\* The lexer and the parser of TOML agree on the order of items: none comes
\* where the parser takes it for a bug of the lexer (lex.go, parse.go:99-225).
\* What the text of a value may still do to the process is not excluded.
ItemsFit == part = "lexer" => Lexer!ItemsFit

\* The lexer always comes to a character it has not seen, to the end of the
\* document or to an error, unless a string of several lines is left open
\* (lex.go:554-620), or two quotes and a rune of four bytes come after a string
\* in an array (lex.go:376-392).
LexEnds == part = "lexer" ~> part = "lexer" /\ (Lexer!Asks \/ Lexer!Over)

\* What stands twice in a document is an error, what stands once is kept, but
\* for the clashes of dotted names (parse.go:233-371).
DefinedOnce == part = "document" => Document!DefinedOnce
=============================================================================
