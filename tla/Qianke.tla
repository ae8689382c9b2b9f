------------------------------ MODULE Qianke -------------------------------
(* The handler /qianke/ of ngxfmd: its pool, the registration of a user in  *)
(* mysql, and the tool qkdb that makes the table. External: mysql.          *)
EXTENDS Naturals, Sequences

CONSTANTS Reqs,      \* the HTTP requests, one goroutine each
          PoolSize   \* request_pool_size of the configuration

VARIABLES pool,      \* opReqPool
          held,      \* the object each goroutine holds, NoObj for none
          pc,        \* where each goroutine is
          answer,    \* what it answered
          db,        \* the handle of database/sql, TRUE while it is open
          tables,    \* the databases with a table qkuser
          rows,      \* the requests whose user is in that of qianke
          tool,      \* the step of qkdb, and the database its connection is in
          lost       \* history: requests whose user was dropped with the
                     \* table, or whose insert got no answer

vars == <<pool, held, pc, answer, db, tables, rows, tool, lost>>

Objs == 1..PoolSize
NoObj == 0
Goto(r, at) == pc' = [pc EXCEPT ![r] = at]
AnswerWith(r, what) == answer' = [answer EXCEPT ![r] = what] /\ Goto(r, "recycle")

Init ==
    /\ pool = [i \in Objs |-> i]
    /\ held = [r \in Reqs |-> NoObj]
    /\ pc = [r \in Reqs |-> "get"]
    /\ answer = [r \in Reqs |-> ""]
    /\ db = TRUE
    /\ tables \in {{}, {"qianke"}}
    /\ rows = {} /\ lost = {}
    /\ tool = [step |-> "create database", in |-> "mysql", moved |-> FALSE]

\* A path without a slash takes no object.
Refuse(r) ==
    /\ pc[r] = "get"
    /\ Goto(r, "done") /\ answer' = [answer EXCEPT ![r] = "forbidden"]
    /\ UNCHANGED <<pool, held, db, tables, rows, tool, lost>>

GetAvalibleReq(r) ==
    /\ pc[r] = "get" /\ pool # <<>>
    /\ held' = [held EXCEPT ![r] = Head(pool)]
    /\ pool' = Tail(pool)
    /\ Goto(r, "handle")
    /\ UNCHANGED <<answer, db, tables, rows, tool, lost>>

\* login answers what it always answers; a body that cannot be read or, for
\* register, decoded is an error, as is a path of no handler.
Handle(r) ==
    /\ pc[r] = "handle"
    /\ \/ AnswerWith(r, "login")
       \/ AnswerWith(r, "error")
       \/ Goto(r, "register") /\ UNCHANGED answer
    /\ UNCHANGED <<pool, held, db, tables, rows, tool, lost>>

(* Faulty variants, used by no specification. *)

\* No connection, no table, or a handle closed by Uninit.
InsertFails(r) == AnswerWith(r, "error") /\ UNCHANGED <<rows, lost>>

\* A result without a row: err is nil, err.Error() panics, the deferred recycle
\* runs, and SafeHandler answers.
PanicOnNoRow(r) == AnswerWith(r, "panic") /\ UNCHANGED <<rows, lost>>

\* RegisterUser. The answer to an insert may be lost.
RegisterUser(r) ==
    /\ pc[r] = "register"
    /\ \/ InsertFails(r)
       \/ PanicOnNoRow(r)
       \/ /\ db /\ "qianke" \in tables
          /\ rows' = rows \cup {r}
          /\ \/ AnswerWith(r, "ok") /\ UNCHANGED lost
             \/ AnswerWith(r, "error") /\ lost' = lost \cup {r}
    /\ UNCHANGED <<pool, held, db, tables, tool>>

Recycle(r) ==
    /\ pc[r] = "recycle" /\ Len(pool) < PoolSize
    /\ pool' = Append(pool, held[r])
    /\ held' = [held EXCEPT ![r] = NoObj]
    /\ Goto(r, "done")
    /\ UNCHANGED <<answer, db, tables, rows, tool, lost>>

\* Uninit closes the handle under the requests.
Uninit ==
    /\ db
    /\ db' = FALSE
    /\ UNCHANGED <<pool, held, pc, answer, tables, rows, tool, lost>>

----------------------------------------------------------------------------
\* The steps of qkdb, and the end at the first error.
After(step) ==
    CASE step = "create database" -> "use"
      [] step = "use" -> "drop"
      [] step = "drop" -> "create table"
      [] step = "create table" -> "done"

ToolStep ==
    /\ tool.step \notin {"done", "failed"}
    /\ \/ tool' = [tool EXCEPT !.step = "failed"] /\ UNCHANGED <<tables, rows, lost>>
       \/ /\ tool.step = "create table" => tool.in \notin tables
          /\ tool' = [tool EXCEPT !.step = After(@), !.in = IF tool.step = "use" THEN "qianke" ELSE @]
          /\ tables' = CASE tool.step = "drop" -> tables \ {tool.in}
                         [] tool.step = "create table" -> tables \cup {tool.in}
                         [] OTHER -> tables
          /\ IF tool.step = "drop" /\ tool.in = "qianke"
             THEN lost' = lost \cup rows /\ rows' = {} ELSE UNCHANGED <<rows, lost>>
    /\ UNCHANGED <<pool, held, pc, answer, db>>

\* database/sql opens another connection for the next statement, which is in
\* the database of the data source again.
Reconnect ==
    /\ tool.step \notin {"done", "failed"} /\ ~tool.moved
    /\ tool' = [tool EXCEPT !.in = "mysql", !.moved = TRUE]
    /\ UNCHANGED <<pool, held, pc, answer, db, tables, rows, lost>>

Next ==
    \/ \E r \in Reqs :
          Refuse(r) \/ GetAvalibleReq(r) \/ Handle(r) \/ RegisterUser(r) \/ Recycle(r)
    \/ Uninit \/ ToolStep \/ Reconnect

Spec == Init /\ [][Next]_vars

----------------------------------------------------------------------------
\* A registration answered 200 is in the table and one refused is not, unless
\* the tool dropped the table or the answer of mysql was lost. The tool has
\* made the table where the handler looks for it, unless it lost its
\* connection on the way.
RegisteredAsTold ==
    /\ \A r \in Reqs \ lost : answer[r] = "ok" <=> r \in rows
    /\ tool.step = "done" /\ ~tool.moved => "qianke" \in tables

Stage(r) ==
    CASE pc[r] = "get" -> "outside" [] pc[r] = "done" -> "left" [] OTHER -> "inside"

\* What /qianke/ promises of its pool is what RequestPool says.
Pool == INSTANCE RequestPool WITH
    free <- {pool[i] : i \in 1..Len(pool)},
    owned <- held,
    stage <- [r \in Reqs |-> Stage(r)]

\* The inductive invariant, but for the partition of the objects: who holds an
\* object, who was answered, and which database the tool is in.
Steps == {"create database", "use", "drop", "create table", "done", "failed"}

TypeOK ==
    /\ pool \in Seq(Objs)
    /\ held \in [Reqs -> Objs \cup {NoObj}]
    /\ pc \in [Reqs -> {"get", "handle", "register", "recycle", "done"}]
    /\ answer \in [Reqs -> {"", "forbidden", "login", "error", "panic", "ok"}]
    /\ tool \in [step : Steps, in : {"mysql", "qianke"}, moved : BOOLEAN]

Holders == \A r \in Reqs : held[r] # NoObj <=> Stage(r) = "inside"

Answered ==
    \A r \in Reqs : pc[r] \in {"get", "handle", "register"} => r \notin rows /\ answer[r] = ""

ToolInPlace ==
    ~tool.moved =>
        /\ tool.step \in {"drop", "create table"} => tool.in = "qianke"
        /\ tool.step = "done" => "qianke" \in tables

IInv == TypeOK /\ Holders /\ Answered /\ ToolInPlace /\ RegisteredAsTold
=============================================================================
