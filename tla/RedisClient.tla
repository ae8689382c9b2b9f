---------------------------- MODULE RedisClient ----------------------------
(* Which reply a command of the redis client reads (redis.go, pipeline.go,  *)
(* multi.go, pubsub.go, and singleConnPool of pool.go): commands, pipelines,*)
(* transactions and subscriptions over connections that are put back, kept  *)
(* or removed by what the reader and the error tell. The pool is that of    *)
(* RedisPool, in short: an idle connection, or a new one.                   *)
EXTENDS RedisCommands

CONSTANTS Clients,    \* goroutines, each with a Client, a Multi or a PubSub
          Conns,      \* names of connections, reused once removed
          Cmds,       \* the methods that clients call
          Timeouts,   \* BOOLEAN: reads have a deadline
          MaxCmds     \* bound on the operations of all clients

ASSUME ClientAssumption ==
    Cmds \subseteq Methods /\ Timeouts \in BOOLEAN /\ MaxCmds \in Nat /\ "none" \notin Conns

VARIABLES conn,       \* per connection: replies not yet read, and the server's session
          idle,       \* connections in the pool
          client,     \* per goroutine: its session, and the replies it still has to read
          sent        \* operations so far, the last one's number being the latest

vars == <<conn, idle, client, sent>>

None == "none"

\* watch is "no", "yes" or "forgot"; owes is a history variable: why a reply was
\* left before its end, "line" for one of whose lines a deadline cut.
Fresh == [stream |-> <<>>, watch |-> "no", sub |-> FALSE, owes |-> ""]

\* single is the connection of a singleConnPool, queueing that c.cmds is not
\* nil.
Outside == [mode |-> "out", single |-> None, cn |-> None, reads |-> <<>>, err |-> "",
            queueing |-> FALSE]

InUse == {client[c].cn : c \in Clients} \cup {client[c].single : c \in Clients}
Unused == Conns \ (idle \cup InUse)
Ready(c, mode) == client[c].mode = mode /\ client[c].reads = <<>> /\ client[c].err # "panic"
Id(i) == <<sent + 1, i>>
Unasked == <<0, 0>>    \* what the server says to a subscriber answers no command

\* A reply to be parsed: "stop" ends the operation, "go" does not, whatever
\* the error; "close" ends a Multi. It answers a method, or MULTI or a queued
\* command with a status, or it is the header of what EXEC answers.
Expect(id, cmd, then) ==
    [id |-> id, cmd |-> cmd, kind |-> IF cmd \in {"Status", "header"} THEN cmd ELSE Kind[cmd],
     then |-> then]

----------------------------------------------------------------------------
(* Faulty variants, used by no specification. *)

\* The connection is kept whatever the error.
KeepAlways(c, err, buffered) == ~buffered

\* The replies to MULTI and to the queued commands are not read.
QueuedSkipped == <<>>

----------------------------------------------------------------------------
Init ==
    /\ conn = [n \in Conns |-> Fresh]
    /\ idle = {}
    /\ client = [c \in Clients |-> Outside]
    /\ sent = 0

\* Get: the connection of the session, an idle one, or a new one.
Available(c) ==
    IF client[c].single # None THEN {client[c].single} ELSE IF idle # {} THEN idle ELSE Unused

\* The commands are written in one piece; session is what they make of the
\* server's side of the connection, replies what it will answer.
Send(c, n, reads, replies, session) ==
    /\ sent < MaxCmds /\ sent' = sent + 1
    /\ idle' = idle \ {n}
    /\ conn' = [conn EXCEPT ![n] = [session EXCEPT !.stream = @ \o replies]]
    /\ client' = [client EXCEPT ![c] =
         [@ EXCEPT !.cn = n, !.single = IF client[c].mode = "client" THEN None ELSE n,
                   !.reads = reads, !.err = ""]]

\* A connection that cannot be written to is removed.
WriteFails(c) ==
    /\ Ready(c, "client") \/ (Ready(c, "multi") /\ ~client[c].queueing)
    /\ \E n \in Available(c) \ Unused :
          idle' = idle \ {n} /\ conn' = [conn EXCEPT ![n] = Fresh]
    /\ client' = [client EXCEPT ![c].single = None]
    /\ UNCHANGED sent

\* A Client, a Multi or a PubSub begins with no connection.
Open(c) ==
    /\ Ready(c, "out")
    /\ \E mode \in {"client", "multi", "pubsub"} : client' = [client EXCEPT ![c].mode = mode]
    /\ UNCHANGED <<conn, idle, sent>>

\* run: one command, one reply.
Run(c) ==
    /\ Ready(c, "client")
    /\ \E m \in Cmds, n \in Available(c) : \E reply \in Replies(ServerType(m), Id(1)) :
          Send(c, n, <<Expect(Id(1), m, "stop")>>, reply, conn[n])

\* Pipeline.Exec reads every reply, whatever became of the one before.
Piped(id, m) == Expect(id, m, "go")

Pipeline(c) ==
    /\ Ready(c, "client")
    /\ \E l, m \in Cmds, n \in Available(c) :
          \E r1 \in Replies(ServerType(l), Id(1)), r2 \in Replies(ServerType(m), Id(2)) :
             Send(c, n, <<Piped(Id(1), l), Piped(Id(2), m)>>, r1 \o r2, conn[n])

Watch(c) ==
    /\ Ready(c, "multi") /\ ~client[c].queueing
    /\ \E n \in Available(c) : \E reply \in Replies("status", Id(1)) :
          Send(c, n, <<Expect(Id(1), "Watch", "stop")>>, reply,
               [conn[n] EXCEPT !.watch = IF reply[1].t = "+" THEN "yes" ELSE @])

\* The replies to MULTI and to the queued command, which ends the transaction
\* when it is refused, come before the number of replies and the reply.
Queued == <<Expect(Id(1), "Status", "stop"), Expect(Id(2), "Status", "stop")>>

\* Multi.Exec: a void transaction is one whose watched keys have changed.
Exec(c) ==
    /\ Ready(c, "multi") /\ ~client[c].queueing
    /\ \E m \in Cmds, n \in Available(c), outcome \in {"refused", "void", "done"} :
       \E reply \in Replies(ServerType(m), Id(2)) :
          Send(c, n, Queued \o <<Expect(Id(3), "header", "stop"), Expect(Id(2), m, "go")>>,
               Simple(Id(1), "+") \o
               CASE outcome = "refused" -> Simple(Id(2), "-") \o Simple(Id(3), "-")
                 [] outcome = "void" -> Simple(Id(2), "+") \o Simple(Id(3), "nil")
                 [] outcome = "done" -> Simple(Id(2), "+") \o <<Token(Id(3), "*", 1)>> \o reply,
               [conn[n] EXCEPT !.watch = "no"])

\* The function given to Exec fails: c.cmds stays as it is, so the commands
\* that follow are queued and never sent, UNWATCH among them.
ExecFails(c) ==
    /\ Ready(c, "multi") /\ ~client[c].queueing
    /\ client' = [client EXCEPT ![c].queueing = TRUE]
    /\ UNCHANGED <<conn, idle, sent>>

\* Multi.Close: UNWATCH, and without an error the close of the session's pool.
Unwatch(c) ==
    /\ Ready(c, "multi") /\ ~client[c].queueing
    /\ \E n \in Available(c) : \E reply \in Replies("status", Id(1)) :
          Send(c, n, <<Expect(Id(1), "Unwatch", "close")>>, reply,
               [conn[n] EXCEPT !.watch = IF reply[1].t = "+" THEN "no" ELSE @])

----------------------------------------------------------------------------
\* The number of replies of EXEC, which is not looked at; nil is TxFailedErr,
\* and line[0] of an empty line panics.
ReadHeader(s) ==
    IF s = <<>> THEN Result(0, "more", "")
    ELSE Result(1, CASE s[1].t \in {"*", "*?"} -> "" [] s[1].t = "nil" -> "nil"
                     [] s[1].t = "lf" -> "panic" [] OTHER -> "bad", "")

ReadReply(kind, s) == IF kind = "header" THEN ReadHeader(s) ELSE Parse(kind, s)

\* A line that the deadline cuts: ReadLine gives its front as if it were whole,
\* and what is left of it is the next line, which has no type of its own, but
\* that of a negative number. With the length of a string cut, the reader takes
\* a part of what follows for the string; what it leaves counts as one line. A
\* number of one digit, as before what is pushed, has no front.
Cuts(x) ==
    LET T(t) == Token(x.id, t, 0)
        left == {T("tail"), T("lf")}
        signed == left \cup {T("-")}
        shorter == {Token(x.id, "*", n) : n \in 1..IF x.id = Unasked THEN 0 ELSE x.n - 1}
    IN CASE x.t \in {"+", "-"} -> {x} \X left
         [] x.t = ":" -> ({x} \X left) \cup ({T("tail")} \X signed)
         [] x.t = "*" -> ({x} \X {T("lf")}) \cup (shorter \X {T("tail")}) \cup ({T("*?")} \X left)
         [] x.t = "nil" -> ({x} \X {T("lf")}) \cup ({T("tail"), T("*?")} \X signed)
         [] x.t \in {"$", "#"} -> {T("$"), T("#"), T("tail")} \X left
         [] x.t = "tail" -> {x} \X left
         [] OTHER -> {T("tail")} \X {T("lf")}

\* What a goroutine may read on n, of which any part has arrived: up to the end
\* of a line or of a string, up to a string of which the length has come, or
\* with a line cut and perhaps the line that is left of it.
Heard(kind, s) == {ReadReply(kind, SubSeq(s, 1, k)) : k \in 0..Len(s)}
Asked(kind, s) == {k \in 1..Len(s) : ReadReply(kind, SubSeq(s, 1, k - 1)).err = "more"}
Cut(s, k, c) == SubSeq(s, 1, k - 1) \o c \o SubSeq(s, k + 1, Len(s))
Waits(k) == Result(k, "more", "")
Reading(x, r, s, line) ==
    [r |-> r, left |-> [x EXCEPT !.stream = SubSeq(s, r.used + 1, Len(s))], line |-> line]
Readings(kind, n) ==
    LET x == conn[n]
        s == x.stream
        asked == Asked(kind, s)
    IN {Reading(x, r, s, "whole") : r \in Heard(kind, s)}
       \cup {Reading(x, Waits(k), Cut(s, k, <<s[k], Token(s[k].id, t, 0)>>), "whole") :
               k \in {k \in asked : s[k].t \in {"$", "#"}}, t \in {"tail", "lf"}}
       \cup UNION {{Reading(x, ReadReply(kind, SubSeq(Cut(s, k, c), 1, j)), Cut(s, k, c), "cut") :
                      c \in Cuts(s[k]), j \in {k, k + 1}} : k \in asked}

\* putConn and freeConn. A session's pool has no look at the buffer when
\* there is no error.
Keep(c, err, buffered) ==
    \/ err = "" /\ (~buffered \/ client[c].mode = "multi")
    \/ err \in RedisErrors /\ ~buffered

\* What singleConnPool.Close does with its connection.
Reusable(mode) == mode = "multi"
CloseSingle(n, now, mode, buffered) ==
    IF Reusable(mode) /\ ~buffered
    THEN conn' = [conn EXCEPT ![n] = now] /\ idle' = idle \cup {n}
    ELSE conn' = [conn EXCEPT ![n] = Fresh] /\ idle' = idle

\* The end of an operation. What is left may or may not be in the buffer.
Release(c, err, now, then) ==
    \E buffered \in {FALSE} \cup {b \in {TRUE} : now.stream # <<>>} :
        LET n == client[c].cn
            keep == Keep(c, err, buffered)
            mode == client[c].mode
        IN IF then = "close" /\ err = ""
           THEN /\ CloseSingle(n, now, mode, buffered)
                /\ client' = [client EXCEPT ![c] = Outside]
           ELSE /\ conn' = [conn EXCEPT ![n] = IF keep THEN now ELSE Fresh]
                /\ idle' = IF keep /\ mode = "client" THEN idle \cup {n} ELSE idle
                /\ client' = [client EXCEPT ![c] =
                     IF mode = "client" THEN Outside
                     ELSE [@ EXCEPT !.cn = None, !.reads = <<>>, !.err = err,
                                    !.single = IF keep THEN n ELSE None]]

\* One reply is parsed, or its reader reaches the deadline in the middle. The
\* first error is that of the operation; a panic leaves the connection with
\* the goroutine for ever.
Read(c) ==
    /\ client[c].reads # <<>> /\ client[c].err # "panic"
    /\ \E reading \in Readings(Head(client[c].reads).kind, client[c].cn) :
       LET n == client[c].cn
           read == Head(client[c].reads)
           r == reading.r
           err == IF r.err = "more" THEN "net" ELSE r.err
           first == IF client[c].err # "" THEN client[c].err ELSE err
           over == Len(client[c].reads) = 1 \/ (read.then = "stop" /\ err # "")
           rest == reading.left
           left == rest.stream # <<>> /\ (rest.stream[1].id = read.id \/ over)
           why == IF err = "net" THEN IF first = "net" THEN "net" ELSE "hidden"
                  ELSE IF reading.line = "cut" THEN "line" ELSE "unread"
           now == [rest EXCEPT !.owes =
                    IF @ = "" /\ (reading.line = "cut" \/ (left /\ err # "panic")) THEN why ELSE @]
       IN /\ r.err = "more" \/ reading.line = "cut" => Timeouts
          /\ IF over /\ err # "panic"
             THEN Release(c, first, now, read.then)
             ELSE /\ conn' = [conn EXCEPT ![n] = now]
                  /\ client' = [client EXCEPT ![c] =
                       IF err = "panic" THEN [@ EXCEPT !.err = err]
                       ELSE [@ EXCEPT !.reads = Tail(client[c].reads), !.err = first]]
                  /\ UNCHANGED idle
    /\ UNCHANGED sent

----------------------------------------------------------------------------
\* A Multi that still queues is closed: its UNWATCH is queued too.
CloseQueueing(c) ==
    /\ Ready(c, "multi") /\ client[c].queueing
    /\ LET n == client[c].single IN
       IF n = None THEN UNCHANGED <<conn, idle>>
       ELSE CloseSingle(n, [conn[n] EXCEPT !.watch = IF @ = "yes" THEN "forgot" ELSE @], "multi", FALSE)
    /\ client' = [client EXCEPT ![c] = Outside]
    /\ UNCHANGED sent

\* PubSub.Subscribe writes and reads nothing.
Subscribe(c) ==
    /\ Ready(c, "pubsub")
    /\ sent < MaxCmds /\ sent' = sent + 1
    /\ \E n \in Available(c) :
          /\ idle' = idle \ {n}
          /\ conn' = [conn EXCEPT ![n].stream = @ \o Array(Unasked, <<"$", "$", ":">>), ![n].sub = TRUE]
          /\ client' = [client EXCEPT ![c].single = n]

\* The server sends a message to a subscriber.
Message(n) ==
    /\ conn[n].sub /\ conn[n].stream = <<>>
    /\ conn' = [conn EXCEPT ![n].stream = Array(Unasked, <<"$", "$", "$">>)]
    /\ UNCHANGED <<idle, client, sent>>

\* ReceiveTimeout: the connection stays with the session even if the deadline
\* came in the middle of a message.
Receive(c) ==
    /\ Ready(c, "pubsub") /\ client[c].single # None
    /\ \E reading \in Readings("Slice", client[c].single) :
       LET n == client[c].single
           r == reading.r
       IN /\ reading.left # conn[n]
          /\ r.err = "more" \/ reading.line = "cut" => Timeouts
          /\ conn' = [conn EXCEPT ![n] = [reading.left EXCEPT
               !.owes = IF r.err = "more" THEN "cut" ELSE IF reading.line = "cut" THEN "line" ELSE @]]
          /\ client' = [client EXCEPT ![c].err = r.err]
    /\ UNCHANGED <<idle, sent>>

\* PubSub.Close.
CloseSub(c) ==
    /\ Ready(c, "pubsub")
    /\ LET n == client[c].single IN
       IF n = None THEN UNCHANGED <<conn, idle>> ELSE CloseSingle(n, conn[n], "pubsub", FALSE)
    /\ client' = [client EXCEPT ![c] = Outside]
    /\ UNCHANGED sent

Next ==
    \/ \E c \in Clients :
          \/ Open(c) \/ WriteFails(c) \/ Run(c) \/ Pipeline(c) \/ Watch(c) \/ Exec(c) \/ ExecFails(c)
          \/ Unwatch(c) \/ Read(c) \/ CloseQueueing(c) \/ Subscribe(c) \/ Receive(c) \/ CloseSub(c)
    \/ \E n \in Conns : Message(n)

Spec == Init /\ [][Next]_vars

----------------------------------------------------------------------------
\* A command reads its own reply, and once the server has answered it finds it
\* whole, so without a deadline it does not wait for ever, unless a reply before
\* it on the connection was left unread.
OwnReply ==
    \A c \in Clients : client[c].reads # <<>> /\ client[c].err # "panic" =>
        LET now == conn[client[c].cn]
            read == Head(client[c].reads)
        IN \/ now.owes # ""
           \/ /\ now.stream # <<>> /\ now.stream[1].id = read.id
              /\ ReadReply(read.kind, now.stream).err # "more"

\* A connection in the pool owes no reply, but for what an error of redis let
\* go: the rest of an array, of a transaction, of a pipeline that timed out
\* after such an error, and for the rest of a line that a deadline cut. It is
\* not subscribed, nor does it watch keys, unless a Multi was closed after its
\* function failed or took a late reply for that to UNWATCH.
IdleIsClean ==
    \A n \in idle :
        /\ conn[n].stream # <<>> => conn[n].owes \in {"unread", "hidden", "line"}
        /\ ~conn[n].sub
        /\ conn[n].watch = "yes" => conn[n].owes # ""

\* Nothing panics in the reading of a reply (a type assertion, a parser that is
\* nil, the first character of an empty line, a slice that is too short), but
\* for a SORT that stores, on a connection that owed a reply, and in a reply of
\* which a deadline has cut a line: the commands' types are those of the
\* server's replies, and only a deadline can be taken for the end of a line.
OnlyOwedPanics ==
    \A c \in Clients : client[c].err = "panic" =>
        IF client[c].mode = "pubsub" THEN conn[client[c].single].owes # ""
        ELSE conn[client[c].cn].owes # "" \/ Head(client[c].reads).cmd = "Sort"
=============================================================================
