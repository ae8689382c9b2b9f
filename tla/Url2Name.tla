------------------------------ MODULE Url2Name ------------------------------
(***************************************************************************)
(* The /url2name/ handler of ngxfmd and the index it keeps in redis: the   *)
(* hash url2name from keys to file names and the sorted set urltime of the *)
(* keys, to which the download handler of /files/ writes too.              *)
(*                                                                         *)
(* An add is queued and answered at once; the writer goroutines take the   *)
(* queue's entries one by one through HMGet, ZADD, HMSET and SAVE.  A rm   *)
(* runs HDEL, ZREM and SAVE itself.  The redis server executes one command *)
(* at a time; a command fails before it is executed, or its answer is lost *)
(* after.  Scores are left out: nothing here reads them.                   *)
(*                                                                         *)
(* The process may end at any time, and main returns as soon as Uninit has *)
(* closed the queue: nobody waits for the writers.  Redis stays as it is.  *)
(***************************************************************************)
EXTENDS Naturals, Sequences, FiniteSets, UrlKey

CONSTANTS
  Reqs,             \* the HTTP requests to /url2name/, one goroutine each
  Visits,           \* the download requests, one goroutine each
  Writers,          \* the writeToRedis goroutines
  RequestPoolSize,  \* request_pool_size
  EntryPoolSize,    \* url_pool_size
  Adds, Rms,        \* the entries add and rm requests carry
  Links,            \* the link parameters downloads carry
  Urls, Names,      \* the urls and names of entries
  NoName,           \* no field in the hash
  MaxFaults         \* bound on the redis commands that fail

Entry  == [name : Names, url : Urls]
Key(e) == TrimLeft(e.url)
Keys   == {TrimLeft(u) : u \in Urls} \cup Links

ASSUME Url2NameAssumption ==
  /\ RequestPoolSize \in Nat \ {0}
  /\ EntryPoolSize \in Nat \ {0}
  /\ Adds \cup Rms \subseteq Entry
  /\ NoName \notin Names
  /\ MaxFaults \in Nat

VARIABLES
  pc,       \* where each request stands in ServeHTTP
  entry,    \* the entry it decoded
  reply,    \* "ok" or "error" once it is answered
  free,     \* how many request objects opReqPool holds
  queue,    \* entryPool, a buffered channel
  closed,   \* Uninit closed it
  wpc,      \* where each writer stands in its loop
  wentry,   \* the entry it works on
  vpc,      \* where each download stands
  vlink,    \* the link it asks for
  hash,     \* redis: the hash url2name
  zset,     \* redis: the members of urltime
  saved,    \* redis: the snapshot a restart would load
  faults,   \* the commands that failed so far
  ended,    \* the process is over
  crossed,  \* history: keys two writers found absent at the same time
  raced     \* history: keys a rm and a write of which interleaved

reqVars   == <<pc, entry, reply, free>>
queueVars == <<queue, closed>>
wrtVars   == <<wpc, wentry>>
visVars   == <<vpc, vlink>>
redisVars == <<hash, zset, saved, faults>>
vars      == <<reqVars, queueVars, wrtVars, visVars, redisVars, ended, crossed, raced>>

NoEntry == [name |-> NoName, url |-> <<>>]

Init ==
  /\ pc = [r \in Reqs |-> "start"]
  /\ entry = [r \in Reqs |-> NoEntry]
  /\ reply = [r \in Reqs |-> ""]
  /\ free = RequestPoolSize
  /\ queue = <<>>
  /\ closed = FALSE
  /\ wpc = [w \in Writers |-> "receive"]
  /\ wentry = [w \in Writers |-> NoEntry]
  /\ vpc = [v \in Visits |-> "get"]
  /\ vlink \in [Visits -> Links]
  /\ hash = [k \in Keys |-> NoName]
  /\ zset = {}
  /\ saved = [hash |-> hash, zset |-> zset]
  /\ faults = 0
  /\ ended = FALSE
  /\ crossed = {}
  /\ raced = {}

\* What becomes of a redis command: "err" it fails before it is executed,
\* "lost" it is executed and the client gets an error instead of the answer.
Outcome(o) ==
  /\ o \in {"ok", "err", "lost"}
  /\ o # "ok" => faults < MaxFaults
  /\ faults' = IF o = "ok" THEN faults ELSE faults + 1

\* SAVE: the code ignores its result.
Save ==
  /\ \E o \in {"ok", "err", "lost"} :
       /\ Outcome(o)
       /\ saved' = IF o = "err" THEN saved ELSE [hash |-> hash, zset |-> zset]
  /\ UNCHANGED <<hash, zset>>

-----------------------------------------------------------------------------
(* Faulty variants of operations below; the specification uses none.       *)

InWindow(w) == wpc[w] \in {"zadd", "hmset"}

\* The duplicate check is forgotten.
HMGetNoCheck(w) ==
  /\ wpc[w] = "get"
  /\ wpc' = [wpc EXCEPT ![w] = "zadd"]
  /\ UNCHANGED <<reqVars, queueVars, wentry, visVars, redisVars, crossed, raced>>

\* A rm takes the url out of the sorted set only.
HDelSkipped(r) ==
  /\ pc[r] = "hdel"
  /\ pc' = [pc EXCEPT ![r] = "zrem"]
  /\ UNCHANGED <<entry, reply, free, queueVars, wrtVars, visVars, redisVars, crossed, raced>>

\* A rm returns without saving.
ZRemNoSave(r) ==
  /\ pc[r] = "zrem"
  /\ zset' = zset \ {Key(entry[r])}
  /\ raced' = raced \cup {Key(wentry[w]) : w \in {x \in Writers : wpc[x] = "hmset"}}
  /\ reply' = [reply EXCEPT ![r] = "ok"]
  /\ pc' = [pc EXCEPT ![r] = "recycle"]
  /\ UNCHANGED <<entry, free, queueVars, wrtVars, visVars, hash, saved, faults, crossed>>

\* The writer leaves as soon as the queue is closed.
ReceiveNoDrain(w) ==
  /\ wpc[w] = "receive"
  /\ \/ /\ queue # <<>> /\ ~closed
        /\ wentry' = [wentry EXCEPT ![w] = Head(queue)]
        /\ queue' = Tail(queue)
        /\ wpc' = [wpc EXCEPT ![w] = "get"]
     \/ /\ closed
        /\ wpc' = [wpc EXCEPT ![w] = "exited"]
        /\ UNCHANGED <<queue, wentry>>
  /\ UNCHANGED <<reqVars, closed, visVars, redisVars, crossed, raced>>

\* The writer gives up on the first error.
HMSetQuits(w) ==
  /\ wpc[w] = "hmset"
  /\ \/ /\ hash' = [hash EXCEPT ![Key(wentry[w])] = wentry[w].name]
        /\ wpc' = [wpc EXCEPT ![w] = "save"]
        /\ UNCHANGED faults
     \/ /\ Outcome("err")
        /\ wpc' = [wpc EXCEPT ![w] = "exited"]
        /\ UNCHANGED hash
  /\ UNCHANGED <<reqVars, queueVars, wentry, visVars, zset, saved, crossed, raced>>

-----------------------------------------------------------------------------
(* The request goroutines.                                                 *)

Answer(r, status) ==
  /\ reply' = [reply EXCEPT ![r] = status]
  /\ pc' = [pc EXCEPT ![r] = "recycle"]

\* A path without "/" is refused before an object is taken.
ServeHTTP(r) ==
  /\ pc[r] = "start"
  /\ \/ /\ reply' = [reply EXCEPT ![r] = "error"]
        /\ pc' = [pc EXCEPT ![r] = "done"]
        /\ UNCHANGED free
     \/ /\ free > 0
        /\ free' = free - 1
        /\ pc' = [pc EXCEPT ![r] = "dispatch"]
        /\ UNCHANGED reply
  /\ UNCHANGED <<entry, queueVars, wrtVars, visVars, redisVars, crossed, raced>>

\* The action's handler, up to its first effect: no handler, another method
\* than POST, a body that cannot be read or decoded, help, or an entry.
Dispatch(r) ==
  /\ pc[r] = "dispatch"
  /\ \/ /\ \E status \in {"ok", "error"} : Answer(r, status)
        /\ UNCHANGED entry
     \/ /\ \E e \in Adds : entry' = [entry EXCEPT ![r] = e]
        /\ pc' = [pc EXCEPT ![r] = "send"]
        /\ UNCHANGED reply
     \/ /\ \E e \in Rms : entry' = [entry EXCEPT ![r] = e]
        /\ pc' = [pc EXCEPT ![r] = "hdel"]
        /\ UNCHANGED reply
  /\ UNCHANGED <<free, queueVars, wrtVars, visVars, redisVars, crossed, raced>>

\* The send on entryPool blocks while it is full; on the closed channel it
\* panics, which SafeHandler turns into an error after the deferred recycle.
Send(r) ==
  /\ pc[r] = "send"
  /\ \/ /\ closed
        /\ Answer(r, "error")
        /\ UNCHANGED queue
     \/ /\ ~closed
        /\ Len(queue) < EntryPoolSize
        /\ queue' = Append(queue, entry[r])
        /\ Answer(r, "ok")
  /\ UNCHANGED <<entry, free, closed, wrtVars, visVars, redisVars, crossed, raced>>

HDel(r) ==
  /\ pc[r] = "hdel"
  /\ \E o \in {"ok", "err", "lost"} :
       /\ Outcome(o)
       /\ hash' = IF o = "err" THEN hash ELSE [hash EXCEPT ![Key(entry[r])] = NoName]
       /\ \/ o = "ok" /\ pc' = [pc EXCEPT ![r] = "zrem"] /\ UNCHANGED reply
          \/ o # "ok" /\ Answer(r, "error")
  /\ UNCHANGED <<entry, free, queueVars, wrtVars, visVars, zset, saved, crossed, raced>>

ZRem(r) ==
  /\ pc[r] = "zrem"
  /\ \E o \in {"ok", "err", "lost"} :
       /\ Outcome(o)
       /\ zset' = IF o = "err" THEN zset ELSE zset \ {Key(entry[r])}
       /\ \/ o = "ok" /\ pc' = [pc EXCEPT ![r] = "save"] /\ UNCHANGED reply
          \/ o # "ok" /\ Answer(r, "error")
  /\ raced' = raced \cup ({Key(entry[r])} \cap
                {Key(wentry[w]) : w \in {x \in Writers : wpc[x] = "hmset"}})
  /\ UNCHANGED <<entry, free, queueVars, wrtVars, visVars, hash, saved, crossed>>

SaveRemoval(r) ==
  /\ pc[r] = "save"
  /\ Save
  /\ Answer(r, "ok")
  /\ UNCHANGED <<entry, free, queueVars, wrtVars, visVars, crossed, raced>>

Recycle(r) ==
  /\ pc[r] = "recycle"
  /\ free' = free + 1
  /\ pc' = [pc EXCEPT ![r] = "done"]
  /\ entry' = [entry EXCEPT ![r] = NoEntry]
  /\ UNCHANGED <<reply, queueVars, wrtVars, visVars, redisVars, crossed, raced>>

Request(r) ==
  \/ ServeHTTP(r)
  \/ Dispatch(r)
  \/ Send(r)
  \/ HDel(r)
  \/ ZRem(r)
  \/ SaveRemoval(r)
  \/ Recycle(r)

Uninit ==
  /\ ~closed
  /\ closed' = TRUE
  /\ UNCHANGED <<reqVars, queue, wrtVars, visVars, redisVars, crossed, raced>>

-----------------------------------------------------------------------------
(* The writers.                                                            *)

\* A step of w ends the handling of its entry, or leads on to stage next.
Proceed(w, next) ==
  /\ wpc' = [wpc EXCEPT ![w] = next]
  /\ UNCHANGED wentry

Continue(w) ==
  /\ wpc' = [wpc EXCEPT ![w] = "receive"]
  /\ wentry' = [wentry EXCEPT ![w] = NoEntry]

\* range over entryPool: the next entry, or the end of the closed channel.
Receive(w) ==
  /\ wpc[w] = "receive"
  /\ \/ /\ queue # <<>>
        /\ wentry' = [wentry EXCEPT ![w] = Head(queue)]
        /\ queue' = Tail(queue)
        /\ wpc' = [wpc EXCEPT ![w] = "get"]
     \/ /\ queue = <<>> /\ closed
        /\ wpc' = [wpc EXCEPT ![w] = "exited"]
        /\ UNCHANGED <<queue, wentry>>
  /\ UNCHANGED <<reqVars, closed, visVars, redisVars, crossed, raced>>

HMGet(w) ==
  LET k == Key(wentry[w]) IN
  /\ wpc[w] = "get"
  /\ \E o \in {"ok", "err"} :
       /\ Outcome(o)
       /\ \/ /\ o = "err" \/ hash[k] # NoName
             /\ Continue(w)
             /\ UNCHANGED crossed
          \/ /\ o = "ok" /\ hash[k] = NoName
             /\ Proceed(w, "zadd")
             /\ crossed' = crossed \cup ({k} \cap
                  {Key(wentry[x]) : x \in {y \in Writers \ {w} : InWindow(y)}})
  /\ UNCHANGED <<reqVars, queueVars, visVars, hash, zset, saved, raced>>

ZAdd(w) ==
  /\ wpc[w] = "zadd"
  /\ \E o \in {"ok", "err", "lost"} :
       /\ Outcome(o)
       /\ zset' = IF o = "err" THEN zset ELSE zset \cup {Key(wentry[w])}
       /\ IF o = "ok" THEN Proceed(w, "hmset") ELSE Continue(w)
  /\ UNCHANGED <<reqVars, queueVars, visVars, hash, saved, crossed, raced>>

HMSet(w) ==
  /\ wpc[w] = "hmset"
  /\ \E o \in {"ok", "err", "lost"} :
       /\ Outcome(o)
       /\ hash' = IF o = "err" THEN hash
                  ELSE [hash EXCEPT ![Key(wentry[w])] = wentry[w].name]
       /\ IF o = "ok" THEN Proceed(w, "save") ELSE Continue(w)
  /\ raced' = raced \cup ({Key(wentry[w])} \cap
                {Key(entry[r]) : r \in {x \in Reqs : pc[x] = "zrem"}})
  /\ UNCHANGED <<reqVars, queueVars, visVars, zset, saved, crossed>>

SaveEntry(w) ==
  /\ wpc[w] = "save"
  /\ Save
  /\ Continue(w)
  /\ UNCHANGED <<reqVars, queueVars, visVars, crossed, raced>>

WriteToRedis(w) ==
  \/ Receive(w)
  \/ HMGet(w)
  \/ ZAdd(w)
  \/ HMSet(w)
  \/ SaveEntry(w)

-----------------------------------------------------------------------------
(* The downloads of /files/: the link is looked up as it is, its visit is  *)
(* recorded and the result of recording it ignored.                        *)

Lookup(v) ==
  /\ vpc[v] = "get"
  /\ \E o \in {"ok", "err"} :
       /\ Outcome(o)
       /\ vpc' = [vpc EXCEPT ![v] = IF o = "ok" /\ hash[vlink[v]] # NoName
                                    THEN "visit" ELSE "refused"]
  /\ UNCHANGED <<reqVars, queueVars, wrtVars, vlink, hash, zset, saved, crossed, raced>>

Visit(v) ==
  /\ vpc[v] = "visit"
  /\ \E o \in {"ok", "err", "lost"} :
       /\ Outcome(o)
       /\ zset' = IF o = "err" THEN zset ELSE zset \cup {vlink[v]}
  /\ vpc' = [vpc EXCEPT ![v] = "serve"]
  /\ UNCHANGED <<reqVars, queueVars, wrtVars, vlink, hash, saved, crossed, raced>>

-----------------------------------------------------------------------------
\* main returns after Uninit, or the process is killed: all goroutines end
\* where they stand.
End ==
  /\ ~ended
  /\ ended' = TRUE
  /\ UNCHANGED <<reqVars, queueVars, wrtVars, visVars, redisVars, crossed, raced>>

\* A step of a goroutine of the process.
Runs(A) == ~ended /\ A /\ UNCHANGED ended

Next ==
  \/ \E r \in Reqs : Runs(Request(r))
  \/ \E w \in Writers : Runs(WriteToRedis(w))
  \/ \E v \in Visits : Runs(Lookup(v) \/ Visit(v))
  \/ Runs(Uninit)
  \/ End

Spec == Init /\ [][Next]_vars

-----------------------------------------------------------------------------
TypeOK ==
  /\ pc \in [Reqs -> {"start", "dispatch", "send", "hdel", "zrem", "save", "recycle", "done"}]
  /\ entry \in [Reqs -> Adds \cup Rms \cup {NoEntry}]
  /\ reply \in [Reqs -> {"", "ok", "error"}]
  /\ free \in Nat
  /\ queue \in Seq(Adds) /\ Len(queue) <= EntryPoolSize
  /\ closed \in BOOLEAN
  /\ wpc \in [Writers -> {"receive", "get", "zadd", "hmset", "save", "exited"}]
  /\ wentry \in [Writers -> Adds \cup {NoEntry}]
  /\ vpc \in [Visits -> {"get", "visit", "serve", "refused"}]
  /\ vlink \in [Visits -> Links]
  /\ hash \in [Keys -> Names \cup {NoName}]
  /\ zset \in SUBSET Keys
  /\ saved \in [hash : [Keys -> Names \cup {NoName}], zset : SUBSET Keys]
  /\ faults \in 0..MaxFaults
  /\ ended \in BOOLEAN
  /\ crossed \in SUBSET Keys
  /\ raced \in SUBSET Keys

(***************************************************************************)
(* The first name stays (url2name_op.go:148-157, 193): a key that has a    *)
(* name loses it to a rm and to nothing else, whatever is queued, unless   *)
(* two writers found the key absent in overlapping windows.                *)
(***************************************************************************)
FirstNameKept ==
  [][\A k \in Keys : hash[k] # NoName /\ hash'[k] # hash[k] =>
       hash'[k] = NoName \/ k \in crossed]_vars

(***************************************************************************)
(* The two halves of the index agree (url2name_op.go:186-193, 249-257):    *)
(* a key with a name is in urltime, in redis and in the snapshot a restart *)
(* would load, whichever commands failed - unless a rm and a write of the  *)
(* key interleaved.                                                        *)
(***************************************************************************)
Indexed(h, z) == \A k \in Keys : h[k] # NoName => k \in z \cup raced

IndexConsistent == Indexed(hash, zset) /\ Indexed(saved.hash, saved.zset)

(***************************************************************************)
(* The snapshot keeps up (url2name_op.go:204, 264): when no writer and no  *)
(* rm is between its first command and its save, a restart would bring     *)
(* back exactly the names of now - as long as no command failed, for the   *)
(* results of the saves are ignored.                                       *)
(***************************************************************************)
QuiescentSaved ==
  (/\ faults = 0
   /\ \A w \in Writers : wpc[w] # "save"
   /\ \A r \in Reqs : pc[r] \notin {"zrem", "save"})
  => saved.hash = hash

-----------------------------------------------------------------------------
(***************************************************************************)
(* Fairness.  Every goroutine past the pool runs on and every redis        *)
(* command comes to an end; senders blocked on the queue are served first  *)
(* in first out by the Go runtime, hence the strong fairness.  Requests    *)
(* and signals need not arrive, and the process need not end, after Uninit *)
(* either: the Uninit of another handler may block.                        *)
(***************************************************************************)
Fairness ==
  /\ \A r \in Reqs :
       /\ SF_vars(Runs(Send(r)))
       /\ WF_vars(Runs(Dispatch(r)))
       /\ WF_vars(Runs(HDel(r)))
       /\ WF_vars(Runs(ZRem(r)))
       /\ WF_vars(Runs(SaveRemoval(r)))
       /\ WF_vars(Runs(Recycle(r)))
  /\ \A w \in Writers : WF_vars(Runs(WriteToRedis(w)))

FairSpec == Spec /\ Fairness

\* Every object taken belongs to a request inside, and a request inside comes
\* to give it back (url2name_op.go:63-76, 298, 310-316) while the process lasts:
\* no failing command, no full queue and no panic on the closed one keeps the
\* pool's objects.
ObjectsComeBack ==
  /\ [](free + Cardinality({r \in Reqs : pc[r] \notin {"start", "done"}}) = RequestPoolSize)
  /\ \A r \in Reqs : pc[r] = "dispatch" ~> (pc[r] = "done" \/ ended)

\* Where an add still is before its key has the name.
OnItsWay(r, e) ==
  \/ pc[r] = "send"
  \/ \E i \in 1..Len(queue) : queue[i] = e
  \/ \E w \in Writers : wentry[w] = e

\* An add is refused or names its url (url2name_op.go:145-206, 298) unless a
\* command failed: though the answer precedes the write, and although Uninit may
\* close the queue in between, the key has a name from then on or later.  What
\* the end of the process loses (ngxfm.go:104-107) are the accepted adds that are
\* then in the queue or in a writer's hand, and no others.
AddTakesEffect ==
  \A r \in Reqs : \A e \in Adds :
    (pc[r] = "send" /\ entry[r] = e)
      ~> \/ reply[r] = "error" \/ hash[Key(e)] # NoName \/ faults > 0
         \/ ended /\ OnItsWay(r, e)
=============================================================================
