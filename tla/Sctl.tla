------------------------------- MODULE Sctl --------------------------------
(* The handler /sctl of cmdset: its pool of request objects, the operation  *)
(* that decoding leaves in one, and three handlers that do nothing yet.     *)
EXTENDS Naturals, Sequences

CONSTANTS Reqs,      \* the HTTP requests, one goroutine each
          PoolSize,  \* request_pool_size of the configuration
          Absent     \* a body without "op"

VARIABLES pool,      \* cmdReqPool
          op,        \* ScRequest.Op of each object
          held,      \* the object each goroutine holds, NoObj for none
          body,      \* what the body of each request says
          pc, ran    \* where each goroutine is, and the operation it ran

vars == <<pool, op, held, body, pc, ran>>

Objs == 1..PoolSize
NoObj == 0
Handlers == {"start", "stop", "monitor"}    \* cmdHandlers
Bodies == [op : {"start", "stop", "unknown", Absent}, bad : BOOLEAN]
Goto(r, at) == pc' = [pc EXCEPT ![r] = at]

Init ==
    /\ pool = [i \in Objs |-> i]
    /\ op = [o \in Objs |-> ""]
    /\ held = [r \in Reqs |-> NoObj]
    /\ body \in [Reqs -> Bodies]
    /\ pc = [r \in Reqs |-> "read"]
    /\ ran = [r \in Reqs |-> ""]

\* The body is read before an object is taken; an error answers at once.
ReadBody(r) ==
    /\ pc[r] = "read"
    /\ Goto(r, "get") \/ Goto(r, "done")
    /\ UNCHANGED <<pool, op, held, body, ran>>

GetAvalibleReq(r) ==
    /\ pc[r] = "get" /\ pool # <<>>
    /\ held' = [held EXCEPT ![r] = Head(pool)]
    /\ pool' = Tail(pool)
    /\ Goto(r, "decode")
    /\ UNCHANGED <<op, body, ran>>

(* Faulty variants, used by no specification. *)

\* A body that does not decode keeps its object.
DecodeKeepsObject(r) ==
    /\ pc[r] = "decode"
    /\ IF body[r].bad THEN Goto(r, "done") /\ UNCHANGED ran
       ELSE ran' = [ran EXCEPT ![r] = op[held[r]]] /\ Goto(r, "recycle")
    /\ UNCHANGED <<pool, op, held, body>>

\* json.Unmarshal leaves alone what the body does not name.
Merge(old, new) == IF new = Absent THEN old ELSE new

\* The decoding and the handler. A body may be bad in a field other than op.
Decode(r) ==
    /\ pc[r] = "decode"
    /\ LET now == Merge(op[held[r]], body[r].op) IN
         /\ op' = [op EXCEPT ![held[r]] = now]
         /\ ran' = [ran EXCEPT ![r] = IF ~body[r].bad /\ now \in Handlers THEN now ELSE ""]
    /\ Goto(r, "recycle")
    /\ UNCHANGED <<pool, held, body>>

Recycle(r) ==
    /\ pc[r] = "recycle" /\ Len(pool) < PoolSize
    /\ pool' = Append(pool, held[r])
    /\ held' = [held EXCEPT ![r] = NoObj]
    /\ Goto(r, "done")
    /\ UNCHANGED <<op, body, ran>>

Next == \E r \in Reqs : ReadBody(r) \/ GetAvalibleReq(r) \/ Decode(r) \/ Recycle(r)

Spec == Init /\ [][Next]_vars

----------------------------------------------------------------------------
\* The handler that runs is the one the body names, though objects are reused
\* as they are; without an op the one of an earlier request runs.
RanAsSent == \A r \in Reqs : ran[r] # "" /\ body[r].op # Absent => ran[r] = body[r].op

Stage(r) ==
    CASE pc[r] \in {"read", "get"} -> "outside"
      [] pc[r] \in {"decode", "recycle"} -> "inside"
      [] OTHER -> "left"

\* What /sctl promises of its pool is what RequestPool says.
Pool == INSTANCE RequestPool WITH
    free <- {pool[i] : i \in 1..Len(pool)},
    owned <- held,
    stage <- [r \in Reqs |-> Stage(r)]

\* The inductive invariant, but for the partition of the objects: types, and
\* who holds an object.
TypeOK ==
    /\ pool \in Seq(Objs)
    /\ held \in [Reqs -> Objs \cup {NoObj}]
    /\ body \in [Reqs -> Bodies]
    /\ pc \in [Reqs -> {"read", "get", "decode", "recycle", "done"}]
    /\ DOMAIN ran = Reqs /\ DOMAIN op = Objs

Holders == \A r \in Reqs : held[r] # NoObj <=> Stage(r) = "inside"

IInv == TypeOK /\ Holders /\ RanAsSent
=============================================================================
