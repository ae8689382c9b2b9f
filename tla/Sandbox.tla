------------------------------ MODULE Sandbox ------------------------------
(* The handler /sandbox/ of ngxfmd: request goroutines that call one Lua    *)
(* function through one lua_State, on whose stack they push the function    *)
(* and the address of their request object. External: Lua and the script.   *)
EXTENDS Naturals, Sequences

CONSTANTS Reqs,      \* the HTTP requests, one goroutine each
          Sizes,     \* the values of request_pool_size
          MaxStack   \* the slots Lua's stack can grow to

VARIABLES size,      \* request_pool_size
          pool,      \* the objects in opReqPool
          object,    \* the object each goroutine holds, NoObj for none
          fields,    \* the request whose w and req an object holds
          pc,        \* where each goroutine is
          context,   \* the object Lua passes to the callbacks of a call
          lua        \* the lua_State: its stack, whether process_request is
                     \* defined, and what became of it

vars == <<size, pool, object, fields, pc, context, lua>>

NoObj == 0
NoReq == "none"

\* Values on the stack of Lua.
Message == <<"error">>
Function == <<"function">>
Nil == <<"nil">>
Context(o) == <<"context", o>>

Objs == 1..size
InLua == {r \in Reqs : pc[r] \in {"pushed", "ready", "called"}}
Goto(r, at) == pc' = [pc EXCEPT ![r] = at]

\* Init of the handler. load_lua_file tells its result to errno only: a file
\* that does not compile or run may pass for one that does.
Init ==
    /\ size \in Sizes
    /\ pool = [i \in Objs |-> i]
    /\ object = [r \in Reqs |-> NoObj]
    /\ fields = [o \in Objs |-> NoReq]
    /\ pc = [r \in Reqs |-> "start"]
    /\ context = [r \in Reqs |-> NoObj]
    /\ \E loaded \in BOOLEAN :
          lua = [state |-> "open", aborted |-> FALSE, defined |-> loaded,
                 stack |-> IF loaded THEN <<>> ELSE <<Message>>]

GetAvalibleReq(r) ==
    /\ pc[r] = "start" /\ pool # <<>>
    /\ object' = [object EXCEPT ![r] = Head(pool)]
    /\ pool' = Tail(pool)
    /\ Goto(r, "got")
    /\ UNCHANGED <<size, fields, context, lua>>

(* Faulty variants, used by no specification. *)

\* The object keeps the request it was first used for.
FillOnce(r) ==
    /\ pc[r] = "got"
    /\ fields' = IF fields[object[r]] = NoReq THEN [fields EXCEPT ![object[r]] = r] ELSE fields
    /\ Goto(r, "filled")
    /\ UNCHANGED <<size, pool, object, context, lua>>

Fill(r) ==
    /\ pc[r] = "got"
    /\ fields' = [fields EXCEPT ![object[r]] = r]
    /\ Goto(r, "filled")
    /\ UNCHANGED <<size, pool, object, context, lua>>

----------------------------------------------------------------------------
\* Only one goroutine at a time may be in a lua_State, and none in a closed
\* one: after that anything may happen.
Proper(r) == lua.state = "open" /\ InLua \ {r} = {}
Push(value) ==
    lua' = IF Len(lua.stack) = MaxStack THEN [lua EXCEPT !.aborted = TRUE]
           ELSE [lua EXCEPT !.stack = Append(@, value)]

PushFunction(r) ==
    /\ pc[r] = "filled" /\ Proper(r)
    /\ Push(IF lua.defined THEN Function ELSE Nil)
    /\ Goto(r, "pushed")
    /\ UNCHANGED <<size, pool, object, fields, context>>

PushContext(r) ==
    /\ pc[r] = "pushed" /\ Proper(r)
    /\ Push(Context(object[r]))
    /\ Goto(r, "ready")
    /\ UNCHANGED <<size, pool, object, fields, context>>

\* lua_pcall takes the function and its argument off the stack.
Popped(stack) == SubSeq(stack, 1, Len(stack) - 2)

Call(r) ==
    /\ pc[r] = "ready" /\ Proper(r)
    /\ IF lua.stack[Len(lua.stack) - 1] = Function
       THEN /\ context' = [context EXCEPT ![r] = lua.stack[Len(lua.stack)][2]]
            /\ lua' = [lua EXCEPT !.stack = Popped(@)]
            /\ Goto(r, "called")
       ELSE /\ lua' = [lua EXCEPT !.stack = Append(Popped(@), Message)]
            /\ Goto(r, "recycle")
            /\ UNCHANGED context
    /\ UNCHANGED <<size, pool, object, fields>>

\* The script has read and written through the callbacks. A message of its
\* error, or of one of theirs, stays on the stack; the answer is 200 anyway.
Returned(r) ==
    /\ pc[r] = "called" /\ Proper(r)
    /\ Push(Message) \/ UNCHANGED lua
    /\ Goto(r, "recycle")
    /\ UNCHANGED <<size, pool, object, fields, context>>

\* Two goroutines in Lua, or one in a closed state.
Undefined(r) ==
    /\ pc[r] \in {"filled", "pushed", "ready", "called"} /\ ~Proper(r)
    /\ \E dies \in BOOLEAN :
          lua' = [lua EXCEPT !.aborted = dies, !.state = IF @ = "open" THEN "undefined" ELSE @]
    /\ \E o \in Objs : context' = [context EXCEPT ![r] = o]
    /\ Goto(r, IF pc[r] = "filled" THEN "called" ELSE "recycle")
    /\ UNCHANGED <<size, pool, object, fields>>

Recycle(r) ==
    /\ pc[r] = "recycle"
    /\ pool' = Append(pool, object[r])
    /\ object' = [object EXCEPT ![r] = NoObj]
    /\ Goto(r, "done")
    /\ UNCHANGED <<size, fields, context, lua>>

\* lua_close, whoever is in it.
Uninit ==
    /\ lua.state # "closed"
    /\ lua' = [lua EXCEPT !.state = "closed"]
    /\ UNCHANGED <<size, pool, object, fields, pc, context>>

Request(r) ==
    \/ GetAvalibleReq(r) \/ Fill(r) \/ PushFunction(r) \/ PushContext(r) \/ Call(r) \/ Returned(r)
    \/ Undefined(r) \/ Recycle(r)

Next == ~lua.aborted /\ (Uninit \/ \E r \in Reqs : Request(r))

Spec == Init /\ [][Next]_vars

----------------------------------------------------------------------------
\* A pool of one keeps goroutines out of each other's Lua. While the state is
\* sound a script works on the request it was called for, the stack holds one
\* message for each call that failed, and the process ends only when those
\* have used the stack up.
OneAtATime ==
    /\ size = 1 => lua.state # "undefined"
    /\ lua.state = "open" =>
          /\ \A r \in Reqs : pc[r] = "called" => fields[context[r]] = r
          /\ InLua = {} => \A i \in 1..Len(lua.stack) : lua.stack[i] = Message
    /\ size = 1 /\ lua.aborted => lua.state = "closed" \/ Len(lua.stack) = MaxStack

\* The inductive invariant: an object is held once, filled for its holder, and
\* on the stack of a sound state lie messages below what one call pushed.
Values == {Message, Function, Nil} \cup {Context(o) : o \in Nat}
Active == {"got", "filled", "pushed", "ready", "called", "recycle"}

TypeOK ==
    /\ size \in Sizes /\ pool \in Seq(Objs)
    /\ object \in [Reqs -> Objs \cup {NoObj}]
    /\ DOMAIN fields = Objs
    /\ pc \in [Reqs -> {"start", "done"} \cup Active]
    /\ context \in [Reqs -> Objs \cup {NoObj}]
    /\ lua \in [state : {"open", "undefined", "closed"}, aborted : BOOLEAN, defined : BOOLEAN,
                stack : Seq(Values)]

Apart ==
    /\ \A i, j \in 1..Len(pool) : pool[i] = pool[j] => i = j
    /\ \A r \in Reqs, i \in 1..Len(pool) : object[r] # pool[i]
    /\ \A r, s \in Reqs : object[r] = object[s] /\ object[r] # NoObj => r = s
    /\ \A r \in Reqs : object[r] # NoObj <=> pc[r] \in Active

Filled == \A r \in Reqs : pc[r] \in Active \ {"got"} => fields[object[r]] = r

Messages(n) == \A i \in 1..n : lua.stack[i] = Message

Sound ==
    lua.state = "open" =>
        /\ \A r, s \in InLua : r = s
        /\ \A r \in Reqs : pc[r] = "called" => context[r] = object[r]
        /\ (\A r \in Reqs : pc[r] \notin {"pushed", "ready"}) => Messages(Len(lua.stack))
        /\ \A r \in Reqs : pc[r] = "pushed" /\ ~lua.aborted =>
              /\ Len(lua.stack) >= 1 /\ Messages(Len(lua.stack) - 1)
        /\ \A r \in Reqs : pc[r] = "ready" /\ ~lua.aborted =>
              /\ Len(lua.stack) >= 2 /\ Messages(Len(lua.stack) - 2)
              /\ lua.stack[Len(lua.stack)] = Context(object[r])

IInv == TypeOK /\ Apart /\ Filled /\ Sound /\ OneAtATime
=============================================================================
