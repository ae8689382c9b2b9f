----------------------------- MODULE RedisPool -----------------------------
(* The connection pool of the redis client (pool.go, rate_limit.go) under   *)
(* concurrent commands: a channel of idle connections, a counter that       *)
(* limits how many exist, a rate limit on dialling, Filter and Close.       *)
EXTENDS Integers, Sequences, FiniteSets

CONSTANTS Clients,   \* goroutines that run commands
          Conns,     \* names of network connections, reused once closed
          PoolSize,  \* opt.PoolSize
          Evict,     \* BOOLEAN: opt.IdleTimeout > 0
          Auth,      \* BOOLEAN: a password or a database is set
          Failover,  \* BOOLEAN: a sentinel may filter the pool
          MaxTwice   \* bound on network errors while a connection is set up

ASSUME PoolAssumption ==
    /\ PoolSize \in Nat \ {0}
    /\ MaxTwice \in Nat
    /\ {Evict, Auth, Failover} \subseteq BOOLEAN

VARIABLES conns,    \* the channel of idle connections
          size,     \* p.size
          closed,   \* p.closed
          rate,     \* rl.v, the dials left
          open,     \* connections that the client has not closed
          pc, cn,   \* where a client is and the connection it holds
          closer,   \* Close: "no", "loop", "done"
          filter,   \* Filter: "no", "loop", "done"
          lost,     \* history: open connections nothing will return or close
          twice,    \* history: connections counted down a second time
          busy      \* history: clients that were inside when Close began

vars == <<conns, size, closed, rate, open, pc, cn, closer, filter, lost, twice, busy>>

None == "none"
Bucket == 2 * PoolSize
Holding == {"evictFirst", "evictWait", "init", "initRemove", "use", "put", "send", "remove", "drop"}
Idle == {conns[i] : i \in 1..Len(conns)}
Held == {c \in Clients : pc[c] \in Holding}
Unused == Conns \ (open \cup Idle \cup {cn[c] : c \in Held})
Goto(c, at) == pc' = [pc EXCEPT ![c] = at]
Hold(c, n, at) == cn' = [cn EXCEPT ![c] = n] /\ Goto(c, at)
LeaveAs(c) == cn' = [cn EXCEPT ![c] = None] /\ Goto(c, "idle")

----------------------------------------------------------------------------
(* Faulty variants, used by no specification. *)

\* The test of the limit lets one connection too many in.
GrowPastLimit(c) ==
    /\ pc[c] = "grow"
    /\ size' = size + 1
    /\ Goto(c, IF size <= PoolSize THEN "dial" ELSE "full")
    /\ UNCHANGED <<conns, closed, rate, open, cn, closer, filter, lost, twice, busy>>

\* An eviction closes the connection and forgets to count it down.
EvictUncounted(c) ==
    /\ pc[c] \in {"evictFirst", "evictWait"}
    /\ open' = open \ {cn[c]}
    /\ Hold(c, None, IF pc[c] = "evictFirst" THEN "first" ELSE "wait")
    /\ UNCHANGED <<conns, size, closed, rate, closer, filter, lost, twice, busy>>

----------------------------------------------------------------------------
Init ==
    /\ conns = <<>> /\ size = 0 /\ closed = FALSE /\ rate = Bucket
    /\ open = {} /\ lost = {} /\ twice = 0 /\ busy = {}
    /\ pc = [c \in Clients |-> "idle"]
    /\ cn = [c \in Clients |-> None]
    /\ closer = "no" /\ filter = "no"

\* Get: a closed pool refuses, which changes nothing.
Get(c) ==
    /\ pc[c] = "idle" /\ ~closed
    /\ Goto(c, "first")
    /\ UNCHANGED <<conns, size, closed, rate, open, cn, closer, filter, lost, twice, busy>>

\* A connection received in first or wait is used, or is stale and evicted.
Receive(c, evict) ==
    /\ conns # <<>>
    /\ conns' = Tail(conns)
    /\ \/ Hold(c, Head(conns), "use")
       \/ Evict /\ Hold(c, Head(conns), evict)
    /\ UNCHANGED <<size, closed, rate, open, closer, filter, lost, twice, busy>>

First(c) ==
    /\ pc[c] = "first"
    /\ \/ Receive(c, "evictFirst")
       \/ /\ conns = <<>>
          /\ Goto(c, "grow")
          /\ UNCHANGED <<conns, size, closed, rate, open, cn, closer, filter, lost, twice, busy>>

\* A stale connection is removed and the next one tried.
EvictStale(c) ==
    /\ pc[c] \in {"evictFirst", "evictWait"}
    /\ size' = size - 1
    /\ open' = open \ {cn[c]}
    /\ Hold(c, None, IF pc[c] = "evictFirst" THEN "first" ELSE "wait")
    /\ UNCHANGED <<conns, closed, rate, closer, filter, lost, twice, busy>>

Grow(c) ==
    /\ pc[c] = "grow"
    /\ size' = size + 1
    /\ Goto(c, IF size + 1 <= PoolSize THEN "dial" ELSE "full")
    /\ UNCHANGED <<conns, closed, rate, open, cn, closer, filter, lost, twice, busy>>

\* new: without a dial left or when the dial fails the count is taken back.
Dial(c) ==
    /\ pc[c] = "dial"
    /\ rate' = IF rate > 0 THEN rate - 1 ELSE 0
    /\ \/ Goto(c, "undo") /\ UNCHANGED <<cn, open>>
       \/ /\ rate > 0
          /\ Unused # {}
          /\ LET n == CHOOSE n \in Unused : TRUE
             IN open' = open \cup {n} /\ Hold(c, n, IF Auth THEN "init" ELSE "use")
    /\ UNCHANGED <<conns, size, closed, closer, filter, lost, twice, busy>>

DialFailed(c) ==
    /\ pc[c] = "undo"
    /\ size' = size - 1
    /\ Goto(c, "idle")
    /\ UNCHANGED <<conns, closed, rate, open, cn, closer, filter, lost, twice, busy>>

\* The undo of a count past the limit, before waiting.
Full(c) ==
    /\ pc[c] = "full"
    /\ size' = size - 1
    /\ Goto(c, "wait")
    /\ UNCHANGED <<conns, closed, rate, open, cn, closer, filter, lost, twice, busy>>

Wait(c) ==
    /\ pc[c] = "wait"
    /\ \/ Receive(c, "evictWait")
       \/ /\ Goto(c, "idle")                                    \* PoolTimeout
          /\ UNCHANGED <<conns, size, closed, rate, open, cn, closer, filter, lost, twice, busy>>

\* initConn: AUTH and SELECT. An error of redis leaves the connection to
\* conn(), which removes it; a network error has it removed by both.
InitConn(c) ==
    /\ pc[c] = "init"
    /\ \/ Goto(c, "use")
       \/ Goto(c, "remove")
       \/ twice < MaxTwice /\ Goto(c, "initRemove")
    /\ UNCHANGED <<conns, size, closed, rate, open, cn, closer, filter, lost, twice, busy>>

\* The removal by the inner client; conn() removes it once more.
InitRemove(c) ==
    /\ pc[c] = "initRemove"
    /\ IF closed THEN UNCHANGED <<size, open, twice>>
                 ELSE /\ size' = size - 1
                      /\ open' = open \ {cn[c]}
                      /\ twice' = twice + 1
    /\ Goto(c, "remove")
    /\ UNCHANGED <<conns, closed, rate, cn, closer, filter, lost, busy>>

\* The command runs; what freeConn and putConn decide from its outcome is
\* the subject of RedisClient.
Run(c) ==
    /\ pc[c] = "use"
    /\ Goto(c, "put") \/ Goto(c, "remove")
    /\ UNCHANGED <<conns, size, closed, rate, open, cn, closer, filter, lost, twice, busy>>

\* A closed pool takes no connection, and nobody closes the one refused.
Forget(c) == lost' = (lost \cup {cn[c]}) \cap open /\ LeaveAs(c)

Put(c) ==
    /\ pc[c] = "put"
    /\ IF closed THEN Forget(c) ELSE Goto(c, "send") /\ UNCHANGED <<cn, lost>>
    /\ UNCHANGED <<conns, size, closed, rate, open, closer, filter, twice, busy>>

Send(c) ==
    /\ pc[c] = "send" /\ Len(conns) < PoolSize
    /\ conns' = Append(conns, cn[c])
    /\ LeaveAs(c)
    /\ UNCHANGED <<size, closed, rate, open, closer, filter, lost, twice, busy>>

Remove(c) ==
    /\ pc[c] = "remove"
    /\ IF closed THEN Forget(c) ELSE Goto(c, "drop") /\ UNCHANGED <<cn, lost>>
    /\ UNCHANGED <<conns, size, closed, rate, open, closer, filter, twice, busy>>

Drop(c) ==
    /\ pc[c] = "drop"
    /\ size' = size - 1
    /\ open' = open \ {cn[c]}
    /\ LeaveAs(c)
    /\ UNCHANGED <<conns, closed, rate, closer, filter, lost, twice, busy>>

\* The goroutine of the rate limiter adds a dial each second until closed.
Refill ==
    /\ ~closed /\ rate < Bucket
    /\ rate' = rate + 1
    /\ UNCHANGED <<conns, size, closed, open, pc, cn, closer, filter, lost, twice, busy>>

\* Filter takes every idle connection; those the function approves of are
\* not put back.
FilterStart ==
    /\ Failover /\ filter = "no"
    /\ filter' = "loop"
    /\ UNCHANGED <<conns, size, closed, rate, open, pc, cn, closer, lost, twice, busy>>

Filter ==
    /\ filter = "loop"
    /\ \/ /\ conns # <<>>
          /\ conns' = Tail(conns)
          /\ \/ lost' = lost \cup {Head(conns)} /\ UNCHANGED <<size, open>>
             \/ /\ size' = size - 1
                /\ open' = open \ {Head(conns)}
                /\ UNCHANGED lost
          /\ UNCHANGED filter
       \/ conns = <<>> /\ filter' = "done" /\ UNCHANGED <<conns, size, open, lost>>
    /\ UNCHANGED <<closed, rate, pc, cn, closer, twice, busy>>

CloseStart ==
    /\ ~closed
    /\ closed' = TRUE /\ closer' = "loop"
    /\ busy' = {c \in Clients : pc[c] # "idle"}
    /\ UNCHANGED <<conns, size, rate, open, pc, cn, filter, lost, twice>>

\* Close receives and closes until the counter says that none is left.
CloseLoop ==
    /\ closer = "loop"
    /\ IF size < 1
       THEN closer' = "done" /\ UNCHANGED <<conns, size, open>>
       ELSE /\ conns # <<>>
            /\ conns' = Tail(conns)
            /\ size' = size - 1
            /\ open' = open \ {Head(conns)}
            /\ UNCHANGED closer
    /\ UNCHANGED <<closed, rate, pc, cn, filter, lost, twice, busy>>

Client(c) ==
    \/ Get(c) \/ First(c) \/ EvictStale(c) \/ Grow(c) \/ Dial(c) \/ DialFailed(c) \/ Full(c)
    \/ Wait(c) \/ InitConn(c) \/ InitRemove(c) \/ Run(c) \/ Put(c) \/ Send(c) \/ Remove(c) \/ Drop(c)

Next ==
    \/ \E c \in Clients : Client(c)
    \/ Refill \/ FilterStart \/ Filter \/ CloseStart \/ CloseLoop

Spec == Init /\ [][Next]_vars

\* Goroutines that can run do run, and calls of the network end.
FairSpec ==
    /\ Spec
    /\ \A c \in Clients : WF_vars(pc[c] # "idle" /\ Client(c))
    /\ WF_vars(Filter) /\ WF_vars(CloseLoop)

----------------------------------------------------------------------------
\* No connection is in two places, and every open one is idle in the channel,
\* held by a client, or was given up by Filter or after Close.
NoneAstray ==
    /\ Cardinality(Idle) = Len(conns)
    /\ \A c, d \in Held : cn[c] = cn[d] => c = d
    /\ \A c \in Held : cn[c] \notin Idle
    /\ open \subseteq Idle \cup {cn[c] : c \in Held} \cup lost
    /\ ~closed /\ filter = "no" => lost = {}

\* No more connections are open than PoolSize, and a connection put back
\* always finds room in the channel, but for the connections that failed
\* while being set up and were counted down twice.
PoolBound ==
    /\ Cardinality(open) <= PoolSize + twice
    /\ twice = 0 => \A c \in Clients : pc[c] = "send" => Len(conns) < PoolSize

\* A pool that nobody uses can serve: the counter is what is idle in it.
SizeReturns ==
    (\A c \in Clients : pc[c] = "idle") /\ ~closed /\ filter = "no"
        => size = Len(conns) - twice

\* The connections and their count agree (pool.go:106-261).
ConnsAccounted == NoneAstray /\ PoolBound /\ SizeReturns

\* Close returns unless a client was inside when it began, or connections
\* were lost to Filter.
CloseEnds == (closer = "loop" /\ busy = {} /\ filter = "no") ~> (closer = "done" \/ filter # "no")
=============================================================================
