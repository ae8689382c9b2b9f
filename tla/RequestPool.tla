---------------------------- MODULE RequestPool ----------------------------
(***************************************************************************)
(* What every request pool of the two daemons promises.  A handler keeps a *)
(* fixed set of request objects in a buffered channel; a goroutine serving *)
(* an HTTP request takes one before it runs a command and puts it back     *)
(* when the command is over.  The promise is that of a counting semaphore  *)
(* with identities: an object belongs to at most one goroutine, none is    *)
(* ever lost, and a goroutine goes through the pool at most once.  The     *)
(* handlers' own modules implement this one.                               *)
(***************************************************************************)
EXTENDS Naturals

CONSTANTS
  Reqs,       \* the HTTP requests, one goroutine each
  PoolSize    \* request_pool_size of the configuration

VARIABLES
  free,       \* the objects nobody holds
  owned,      \* the object each goroutine holds, NoObj when it holds none
  stage       \* where each goroutine stands with respect to the pool

poolVars == <<free, owned, stage>>

\* The pointers to the objects that Init allocates, and the nil pointer.
Objs  == 1..PoolSize
NoObj == 0

TypeOK ==
  /\ free \in SUBSET Objs
  /\ owned \in [Reqs -> Objs \cup {NoObj}]
  /\ stage \in [Reqs -> {"outside", "inside", "left"}]

Init ==
  /\ free = Objs
  /\ owned = [r \in Reqs |-> NoObj]
  /\ stage = [r \in Reqs |-> "outside"]

\* The receive of getAvalibleReq: it blocks while no object is free.
Acquire(r) ==
  /\ stage[r] = "outside"
  /\ \E o \in free :
       /\ owned' = [owned EXCEPT ![r] = o]
       /\ free' = free \ {o}
  /\ stage' = [stage EXCEPT ![r] = "inside"]

\* The send of recycle.
Release(r) ==
  /\ stage[r] = "inside"
  /\ free' = free \cup {owned[r]}
  /\ owned' = [owned EXCEPT ![r] = NoObj]
  /\ stage' = [stage EXCEPT ![r] = "left"]

\* A request refused before it reaches the pool (its body cannot be read,
\* its path has no action).
Refuse(r) ==
  /\ stage[r] = "outside"
  /\ stage' = [stage EXCEPT ![r] = "left"]
  /\ UNCHANGED <<free, owned>>

Next == \E r \in Reqs : Acquire(r) \/ Release(r) \/ Refuse(r)

Spec == Init /\ [][Next]_poolVars

-----------------------------------------------------------------------------
(* The bound README.md gives for request_pool_size: the goroutines inside  *)
(* each own an object, no two the same one.                                *)
Inside == {r \in Reqs : stage[r] = "inside"}

Exclusive ==
  /\ \A r \in Reqs : stage[r] = "inside" <=> owned[r] # NoObj
  /\ \A r, s \in Inside : owned[r] = owned[s] => r = s
  /\ \A r \in Inside : owned[r] \notin free
  /\ \A o \in Objs : o \in free \/ \E r \in Inside : owned[r] = o
=============================================================================
