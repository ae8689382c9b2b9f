------------------------------ MODULE MCParts ------------------------------
(* The instances of the parts for TLC: three requests share a pool of two   *)
(* objects, or of one in /sandbox/, with a stack that a few errors fill; a  *)
(* form has two path keys and two others, with up to three values each; two *)
(* database monitors run and a third starts, whose three pings show what    *)
(* five do; two daemons share one etcd, in many configurations; a rune and  *)
(* a line end lie across the ends of buffers.                               *)
EXTENDS Parts

CONSTANT MaxTokens \* bound on the tokens that a parser of redis replies reads

HandlerParts == {"form", "database", "users", "service", "script", "daemon", "url"}
LibraryParts == {"reader", "writer", "buffer", "lexer", "document"}

PartsReqs == {"r1", "r2", "r3"}
PartsSizes == 1..2
PartsKeys == {"filename", "file_path", "old_path", "file_size"}
PartsPathKeys == {"file_path", "old_path"}
PartsNoPath == <<>>
PartsDaemons == {"d1", "d2"}
PartsRegistered == {"mongo", "sctl"}
PartsWaiting == {"mongo"}
PartsMonitors == {"mongo"}
PartsFiles == \* whatever is not about pools with two defaults, any two pools with no other fault
    LET Sections(m, s) == [h \in PartsRegistered |-> IF h = "mongo" THEN m ELSE s]
    IN  [text : BOOLEAN, logs : BOOLEAN, port : BOOLEAN, host : BOOLEAN,
         sections : {Sections("some", "some"), Sections("none", "some")}]
        \cup [text : {TRUE}, logs : {TRUE}, port : {TRUE}, host : {TRUE},
              sections : {Sections(m, s) : m, s \in {"none", "bad", "empty", "some"}}]
PartsChars == Url!CutSet \cup {"a", "."}
PartsReaderText == <<"a", "c", "n", "U", "u">>
PartsBufferText == <<"U", "u", "a", "U", "u">>
PartsNames == {"a"}     \* one finds every clash of dotted names

----------------------------------------------------------------------------
\* Two more parts of the libraries, which have no step: a reply of redis to a
\* command, and any tokens before any of its parsers.
Commands == INSTANCE RedisCommands
Parser == INSTANCE RedisParser

Parsers == {Commands!ParserOf(Commands!Kind[m]) : m \in Commands!Methods}
PartsTokens ==
    {Commands!Token(<<1, 1>>, t, 0) : t \in Commands!Str \cup {":", "nil", "-", "tail", "*?", "lf"}}
    \cup {Commands!Token(<<1, 1>>, "*", n) : n \in 0..2}

LibraryInit ==
    \/ Init
    \/ /\ part = "reply"
       /\ v1 \in Commands!Methods /\ v2 \in Commands!Replies(Commands!ServerType(v1), <<1, 1>>)
       /\ v3 = Unused /\ v4 = Unused /\ v5 = Unused /\ UnusedFrom6
    \/ /\ part = "parser"
       /\ v1 \in Parsers /\ v2 \in UNION {[1..n -> PartsTokens] : n \in 0..MaxTokens}
       /\ v3 = Unused /\ v4 = Unused /\ v5 = Unused /\ UnusedFrom6

LibrarySpec == LibraryInit /\ [][Next]_vars /\ LexerIsAsked

\* Each method of the redis client parses every reply of the server to its
\* command, to the last token and without a panic, and its parser reads any
\* tokens as the calls of parser.go do (commands.go, command.go, parser.go).
ReplyParsed ==
    /\ part = "reply" => Commands!ReplyParsed(v1, v2)
    /\ part = "parser" => Parser!ParsedAlike(v1, v2)
=============================================================================
