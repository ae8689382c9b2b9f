------------------------------- MODULE MgoCmd -------------------------------
(***************************************************************************)
(* The /mongo handler of cmdset (package mgocmd): the request goroutines   *)
(* that share the pool of MgoRequest objects, and the disk monitor         *)
(* goroutines that diskMonB starts and diskMonE stops.  A monitor is given *)
(* the pointer of the request object that started it and goes on reading   *)
(* the object's DB after the object went back to the pool.                 *)
(*                                                                         *)
(* The mongod server is external: collections appear in it (NewColl), its  *)
(* commands succeed or fail.  The database monitor of dbMonB has a module  *)
(* of its own; here dbMonB only answers.                                   *)
(***************************************************************************)
EXTENDS Naturals, Sequences, FiniteSets

CONSTANTS
  Reqs,            \* the HTTP requests to /mongo, one goroutine each
  MgoReqPoolSize,  \* request_pool_size
  DBs,             \* the database names a body may carry
  Absent,          \* a field the body does not mention
  Bodies,          \* the bodies clients send, a set of Body
  Hids,            \* the <hid> part of the names filterCollNames matches
  MaxNames,        \* bound on the names of one hid's collections
  Date,            \* the date that each of these names spells
  InitColls        \* the collections of each database at the start

Objs  == 1..MgoReqPoolSize
NoObj == 0

\* "" is the zero value of both fields; for mgo it names the default database.
DBNames  == DBs \cup {""}
Handlers == {"dbStats", "diskMonB", "diskMonE", "dbMonB"}
Cmds     == Handlers \cup {"", "other"}
Content  == [db : DBNames, cmd : Cmds]

\* What json.Unmarshal finds in a body: the fields present, and whether it
\* reports an error.  A syntax error is a bad body with both fields absent; a
\* type error leaves the well-typed fields stored.
Body == [db : DBs \cup {Absent}, cmd : (Cmds \ {""}) \cup {Absent}, bad : BOOLEAN]

\* A collection <hid>_<y>_<m>_<d>; name is the rank of its name under
\* sort.Strings.  The rank need not agree with the date: \d+ takes months and
\* days without padding, and "2014_10_1" sorts before "2014_9_1".
Colls == [hid : Hids, name : 1..MaxNames]

ASSUME MgoCmdAssumption ==
  /\ MgoReqPoolSize \in Nat
  /\ Absent \notin DBNames \cup Cmds
  /\ Bodies \subseteq Body
  /\ MaxNames \in Nat
  /\ Date \in [1..MaxNames -> Nat]
  /\ InitColls \in [DBNames -> SUBSET Colls]

VARIABLES
  pc,              \* where each request goroutine stands in ServeHTTP
  body,            \* what it read from the connection
  hold,            \* the pool object it holds
  reply,           \* what it answered, "" before it does
  pool,            \* cmdReqPool: a buffered channel, first in first out
  obj,             \* the contents of the pool objects
  writer,          \* history: the request that last decoded into the object
  mon,             \* the diskMon goroutine each diskMonB request started
  diskMonState,    \* the flag diskMonStartHandler tests
  colls,           \* the collections of each database
  astray           \* history: the databases in which a monitor dropped a name
                   \* it had listed in another

reqVars == <<pc, body, hold, reply>>
objVars == <<pool, obj, writer>>
dbVars  == <<colls, astray>>
monVars == <<mon, diskMonState, dbVars>>
vars    == <<reqVars, objVars, monVars>>

Replies ==
  {"", "read error", "decode error", "not implemented", "stats", "stats error",
   "disk monitor has started.", "disk monitor started", "disk monitor stopped",
   "db monitor has started.", "db monitor started"}

NoReq  == [req |-> 0]
NoBody == [db |-> Absent, cmd |-> Absent, bad |-> TRUE]

\* st: "select" waits for a tick or a stop, "list" and "drop" are the work of
\* a tick, "stopping" has received the stop.  from is history: the database
\* whose listing names came from; db is history: the database it was started for.
NoMon == [st |-> "none", ptr |-> NoObj, db |-> "", from |-> "", names |-> {}]

Ended  == {"stopping", "exited"}
Active == {"select", "list", "drop", "stopping"}

Init ==
  /\ pc = [r \in Reqs |-> "read"]
  /\ body = [r \in Reqs |-> NoBody]
  /\ hold = [r \in Reqs |-> NoObj]
  /\ reply = [r \in Reqs |-> ""]
  /\ pool = [i \in 1..MgoReqPoolSize |-> i]
  /\ obj = [o \in Objs |-> [db |-> "", cmd |-> ""]]
  /\ writer = [o \in Objs |-> NoReq]
  /\ mon = [r \in Reqs |-> NoMon]
  /\ diskMonState = 0
  /\ colls = InitColls
  /\ astray = {}

-----------------------------------------------------------------------------
(* Faulty variants: each is an operation below with a bug a change could   *)
(* plausibly introduce.  The specification uses none of them; they show    *)
(* that the properties tell the difference.                                *)

\* A field an earlier request filled in wins over the body.
MergeOldWins(old, b) ==
  [db  |-> IF old.db # "" \/ b.db = Absent THEN old.db ELSE b.db,
   cmd |-> IF old.cmd # "" \/ b.cmd = Absent THEN old.cmd ELSE b.cmd]

\* The deferred recycle is missing.
RecycleMissing(r) ==
  /\ pc[r] = "recycle"
  /\ hold' = [hold EXCEPT ![r] = NoObj]
  /\ body' = [body EXCEPT ![r] = NoBody]
  /\ pc' = [pc EXCEPT ![r] = "done"]
  /\ UNCHANGED <<reply, objVars, monVars>>

\* The object is cleared on its way back to the pool.
RecycleClears(r) ==
  /\ pc[r] = "recycle"
  /\ pool' = Append(pool, hold[r])
  /\ obj' = [obj EXCEPT ![hold[r]] = [db |-> "", cmd |-> ""]]
  /\ hold' = [hold EXCEPT ![r] = NoObj]
  /\ body' = [body EXCEPT ![r] = NoBody]
  /\ pc' = [pc EXCEPT ![r] = "done"]
  /\ UNCHANGED <<reply, writer, monVars>>

\* The flag is not set.
MonStartSilent(m) ==
  /\ mon[m].st = "spawned"
  /\ mon' = [mon EXCEPT ![m].st = "select"]
  /\ UNCHANGED <<reqVars, objVars, diskMonState, dbVars>>

\* The share that is dropped is rounded up.
VictimsRoundedUp(names) ==
  {c \in names : Cardinality({d \in names : d.hid = c.hid /\ d.name < c.name})
                   <= Cardinality({d \in names : d.hid = c.hid}) \div 3}

\* The tick goes on until the disk is free again.
MonTickRepeats(m) ==
  /\ mon[m].st = "drop"
  /\ mon[m].names = {}
  /\ mon' = [mon EXCEPT ![m].st = "list", ![m].from = ""]
  /\ UNCHANGED <<reqVars, objVars, diskMonState, dbVars>>

\* The flag stays up when the monitor leaves.
MonExitKeepsFlag(m) ==
  /\ mon[m].st = "stopping"
  /\ mon' = [mon EXCEPT ![m].st = "exited"]
  /\ UNCHANGED <<reqVars, objVars, diskMonState, dbVars>>

-----------------------------------------------------------------------------
(* The request goroutines.                                                 *)

\* Every answer leads to the deferred recycle.
Answer(r, msg) ==
  /\ reply' = [reply EXCEPT ![r] = msg]
  /\ pc' = [pc EXCEPT ![r] = "recycle"]

\* ioutil.ReadAll fails before an object is taken, or gives some body.
ReadBody(r) ==
  /\ pc[r] = "read"
  /\ \/ /\ reply' = [reply EXCEPT ![r] = "read error"]
        /\ pc' = [pc EXCEPT ![r] = "done"]
        /\ UNCHANGED body
     \/ /\ \E b \in Bodies : body' = [body EXCEPT ![r] = b]
        /\ pc' = [pc EXCEPT ![r] = "wait"]
        /\ UNCHANGED reply
  /\ UNCHANGED <<hold, objVars, monVars>>

GetAvalibleReq(r) ==
  /\ pc[r] = "wait"
  /\ pool # <<>>
  /\ hold' = [hold EXCEPT ![r] = Head(pool)]
  /\ pool' = Tail(pool)
  /\ pc' = [pc EXCEPT ![r] = "decode"]
  /\ UNCHANGED <<body, reply, obj, writer, monVars>>

\* json.Unmarshal stores the fields the body has and leaves the others as the
\* object's previous holder left them.
Merge(old, b) ==
  [db  |-> IF b.db = Absent THEN old.db ELSE b.db,
   cmd |-> IF b.cmd = Absent THEN old.cmd ELSE b.cmd]

\* Unmarshal, then the lookup of the command in cmdHandlers.
Decode(r) ==
  /\ pc[r] = "decode"
  /\ LET new == Merge(obj[hold[r]], body[r]) IN
       /\ obj' = [obj EXCEPT ![hold[r]] = new]
       /\ writer' = [writer EXCEPT ![hold[r]] = [req |-> r]]
       /\ \/ body[r].bad /\ Answer(r, "decode error")
          \/ /\ ~body[r].bad
             /\ new.cmd \notin Handlers
             /\ Answer(r, "not implemented")
          \/ /\ ~body[r].bad
             /\ new.cmd \in Handlers
             /\ pc' = [pc EXCEPT ![r] = new.cmd]
             /\ UNCHANGED reply
  /\ UNCHANGED <<body, hold, pool, monVars>>

StatsHandler(r) ==
  /\ pc[r] = "dbStats"
  /\ \E msg \in {"stats", "stats error"} : Answer(r, msg)
  /\ UNCHANGED <<body, hold, objVars, monVars>>

\* The flag is loaded here; the new goroutine stores 1 only when it runs.
DiskMonStartHandler(r) ==
  /\ pc[r] = "diskMonB"
  /\ \/ /\ diskMonState > 0
        /\ Answer(r, "disk monitor has started.")
        /\ UNCHANGED mon
     \/ /\ diskMonState = 0
        /\ mon' = [mon EXCEPT ![r] = [NoMon EXCEPT !.st = "spawned",
                                                   !.ptr = hold[r],
                                                   !.db = obj[hold[r]].db]]
        /\ Answer(r, "disk monitor started")
  /\ UNCHANGED <<body, hold, objVars, diskMonState, dbVars>>

\* The send on the unbuffered stopDiskMonCh meets the receive of some monitor
\* that waits in its select; until then the request keeps its object.
DiskMonEndHandler(r) ==
  /\ pc[r] = "diskMonE"
  /\ \E m \in Reqs :
       /\ mon[m].st = "select"
       /\ mon' = [mon EXCEPT ![m].st = "stopping"]
  /\ Answer(r, "disk monitor stopped")
  /\ UNCHANGED <<body, hold, objVars, diskMonState, dbVars>>

\* Its effects are the subject of the database monitor's own module.
DbMonStartHandler(r) ==
  /\ pc[r] = "dbMonB"
  /\ \E msg \in {"db monitor started", "db monitor has started."} : Answer(r, msg)
  /\ UNCHANGED <<body, hold, objVars, monVars>>

Recycle(r) ==
  /\ pc[r] = "recycle"
  /\ pool' = Append(pool, hold[r])
  /\ hold' = [hold EXCEPT ![r] = NoObj]
  /\ body' = [body EXCEPT ![r] = NoBody]
  /\ pc' = [pc EXCEPT ![r] = "done"]
  /\ UNCHANGED <<reply, obj, writer, monVars>>

ServeHTTP(r) ==
  \/ ReadBody(r)
  \/ GetAvalibleReq(r)
  \/ Decode(r)
  \/ StatsHandler(r)
  \/ DiskMonStartHandler(r)
  \/ DiskMonEndHandler(r)
  \/ DbMonStartHandler(r)
  \/ Recycle(r)

-----------------------------------------------------------------------------
(* The disk monitors.  Each evaluation of req.DB reads the pool object.    *)

CurrentDB(m) == obj[mon[m].ptr].db

MonStart(m) ==
  /\ mon[m].st = "spawned"
  /\ mon' = [mon EXCEPT ![m].st = "select"]
  /\ diskMonState' = 1
  /\ UNCHANGED <<reqVars, objVars, dbVars>>

\* A tick that finds less free disk than lru_percent; other ticks change nothing.
MonTick(m) ==
  /\ mon[m].st = "select"
  /\ mon' = [mon EXCEPT ![m].st = "list"]
  /\ UNCHANGED <<reqVars, objVars, diskMonState, dbVars>>

\* The names a tick drops: of each hid, the first third in the sorted order.
Victims(names) ==
  LET SameHid(c) == {d \in names : d.hid = c.hid}
  IN  {c \in names : Cardinality({d \in SameHid(c) : d.name < c.name})
                       < Cardinality(SameHid(c)) \div 3}

\* CollectionNames fails (the tick is over) or lists the current database.
MonList(m) ==
  /\ mon[m].st = "list"
  /\ \/ mon' = [mon EXCEPT ![m].st = "select"]
     \/ mon' = [mon EXCEPT ![m].st = "drop",
                           ![m].from = CurrentDB(m),
                           ![m].names = Victims(colls[CurrentDB(m)])]
  /\ UNCHANGED <<reqVars, objVars, diskMonState, dbVars>>

\* One DropCollection, in the sorted order; it may fail, and names the database
\* the object holds now.
MonDrop(m) ==
  /\ mon[m].st = "drop"
  /\ \E c \in mon[m].names :
       /\ \A d \in mon[m].names : d.hid = c.hid => d.name >= c.name
       /\ mon' = [mon EXCEPT ![m].names = @ \ {c}]
       /\ \/ /\ colls' = [colls EXCEPT ![CurrentDB(m)] = @ \ {c}]
             /\ astray' = IF mon[m].from = CurrentDB(m) THEN astray ELSE astray \cup {CurrentDB(m)}
          \/ UNCHANGED dbVars
  /\ UNCHANGED <<reqVars, objVars, diskMonState>>

MonTickDone(m) ==
  /\ mon[m].st = "drop"
  /\ mon[m].names = {}
  /\ mon' = [mon EXCEPT ![m].st = "select", ![m].from = ""]
  /\ UNCHANGED <<reqVars, objVars, diskMonState, dbVars>>

MonExit(m) ==
  /\ mon[m].st = "stopping"
  /\ mon' = [mon EXCEPT ![m].st = "exited"]
  /\ diskMonState' = 0
  /\ UNCHANGED <<reqVars, objVars, dbVars>>

DiskMon(m) ==
  \/ MonStart(m)
  \/ MonTick(m)
  \/ MonList(m)
  \/ MonDrop(m)
  \/ MonTickDone(m)
  \/ MonExit(m)

-----------------------------------------------------------------------------
\* External: whoever fills the databases creates a collection, of any date.
NewColl(d) ==
  /\ \E c \in Colls \ colls[d] : colls' = [colls EXCEPT ![d] = @ \cup {c}]
  /\ UNCHANGED <<reqVars, objVars, mon, diskMonState, astray>>

Next ==
  \/ \E r \in Reqs : ServeHTTP(r) \/ DiskMon(r)
  \/ \E d \in DBNames : NewColl(d)

Spec == Init /\ [][Next]_vars

-----------------------------------------------------------------------------
TypeOK ==
  /\ pc \in [Reqs -> Handlers \cup {"read", "wait", "decode", "recycle", "done"}]
  /\ body \in [Reqs -> Body]
  /\ hold \in [Reqs -> Objs \cup {NoObj}]
  /\ reply \in [Reqs -> Replies]
  /\ pool \in Seq(Objs)
  /\ obj \in [Objs -> Content]
  /\ writer \in [Objs -> {NoReq} \cup [req : Reqs]]
  /\ mon \in [Reqs -> [st    : {"none", "spawned", "exited"} \cup Active,
                       ptr   : Objs \cup {NoObj},
                       db    : DBNames,
                       from  : DBNames,
                       names : SUBSET Colls]]
  /\ diskMonState \in {0, 1}
  /\ colls \in [DBNames -> SUBSET Colls]
  /\ astray \in SUBSET DBNames

(***************************************************************************)
(* Pool ownership (mongo_cmd.go:56-58, 138-145).  Every object is in the   *)
(* channel once or held by one request, never both and never lost, through *)
(* every error path of ServeHTTP and across every interleaving.            *)
(***************************************************************************)
Holding(r) == pc[r] \in Handlers \cup {"decode", "recycle"}

PoolPartition ==
  /\ \A r \in Reqs : Holding(r) <=> hold[r] # NoObj
  /\ \A i, j \in 1..Len(pool) : pool[i] = pool[j] => i = j
  /\ \A r, s \in Reqs : hold[r] = hold[s] /\ hold[r] # NoObj => r = s
  /\ \A r \in Reqs : \A i \in 1..Len(pool) : pool[i] # hold[r]
  /\ \A o \in Objs : (\E i \in 1..Len(pool) : pool[i] = o) \/ (\E r \in Reqs : hold[r] = o)

(***************************************************************************)
(* A request is served as it was sent (mongo_cmd.go:59-66).  Whatever its  *)
(* body names - the command, the database - is what the handler runs with  *)
(* for as long as it runs, although objects are reused and not cleared.    *)
(***************************************************************************)
ServedAsSent ==
  \A r \in Reqs : pc[r] \in Handlers =>
    /\ ~body[r].bad
    /\ body[r].cmd \in {Absent, pc[r]}
    /\ body[r].db \in {Absent, obj[hold[r]].db}

(***************************************************************************)
(* "disk monitor has started." is never wrong (mongo_cmd.go:188, 221,      *)
(* 228-231): while the flag is up some monitor is running, even when two   *)
(* monitors got started and their stores interleave.                       *)
(***************************************************************************)
FlagHasMonitor == diskMonState = 1 => \E m \in Reqs : mon[m].st \in Active

(***************************************************************************)
(* Monitors are accounted for (mongo_cmd.go:188-192, 221, 237): the flag   *)
(* is exact as long as one monitor was started - it is the second one,     *)
(* started in the window between load and store, that makes it lie - and   *)
(* as many monitors have left their loop as requests were told "stopped".  *)
(***************************************************************************)
MonitorsAccounted ==
  /\ \A m \in Reqs :
       (mon[m].st # "none" /\ \A k \in Reqs \ {m} : mon[k].st = "none")
         => (diskMonState = 1 <=> mon[m].st \in Active)
  /\ Cardinality({r \in Reqs : reply[r] = "disk monitor stopped"})
       = Cardinality({m \in Reqs : mon[m].st \in Ended})

(***************************************************************************)
(* A monitor works on the database it was started for until another        *)
(* request decodes into its object (mongo_cmd.go:181, 200, 211, 232): the  *)
(* recycling itself must leave the object alone, since it is still read.   *)
(***************************************************************************)
MonitorDBStable ==
  \A m \in Reqs :
    mon[m].st # "none" /\ writer[mon[m].ptr] = [req |-> m] => CurrentDB(m) = mon[m].db

(***************************************************************************)
(* What is dropped leaves behind, in its database, a collection of its hid *)
(* whose name sorts after it (mongo_cmd.go:205-211), with several monitors *)
(* at work, stale listings and collections of any date arriving - unless a *)
(* monitor has dropped in that database the names it had listed in         *)
(* another: its object changed database in between.  So the newest of a    *)
(* hid is safe as long as the names of the hid sort as their dates do;     *)
(* where they do not (163, 176), it is the newest that may go.             *)
(***************************************************************************)
SortAsDated(cs) == \A e, f \in cs : e.name < f.name => Date[e.name] <= Date[f.name]

LeftBehind(d, c) ==
  LET SameHid == {e \in colls[d] : e.hid = c.hid}
  IN  \E e \in SameHid \cap colls'[d] :
        /\ e.name > c.name
        /\ SortAsDated(SameHid) => Date[e.name] >= Date[c.name]

NewestKept ==
  [][\A d \in DBNames : \A c \in colls[d] \ colls'[d] : LeftBehind(d, c) \/ d \in astray']_vars

-----------------------------------------------------------------------------
(***************************************************************************)
(* The handler keeps the promise of a request pool: RequestPool!Spec with  *)
(* the channel's contents as the free set.                                 *)
(***************************************************************************)
StageOf(r) ==
  IF pc[r] \in {"read", "wait"} THEN "outside"
  ELSE IF pc[r] = "done" THEN "left"
  ELSE "inside"

RP == INSTANCE RequestPool WITH
        PoolSize <- MgoReqPoolSize,
        free     <- {pool[i] : i \in 1..Len(pool)},
        owned    <- hold,
        stage    <- [r \in Reqs |-> StageOf(r)]

PoolPromise == RP!Spec

-----------------------------------------------------------------------------
(***************************************************************************)
(* Fairness.  Goroutines that can run do run; goroutines blocked on a      *)
(* channel are queued first in first out by the Go runtime, hence strong   *)
(* fairness for the receive from the pool and for the stop to be taken by  *)
(* a monitor that keeps coming back to its select.  Reading a body depends *)
(* on the client and ticks on the disk: neither is fair.                   *)
(***************************************************************************)
Fairness ==
  /\ \A r \in Reqs :
       /\ SF_vars(GetAvalibleReq(r))
       /\ SF_vars(DiskMonEndHandler(r))
       /\ WF_vars(Decode(r))
       /\ WF_vars(StatsHandler(r))
       /\ WF_vars(DiskMonStartHandler(r))
       /\ WF_vars(DbMonStartHandler(r))
       /\ WF_vars(Recycle(r))
  /\ \A m \in Reqs :
       /\ WF_vars(MonStart(m))
       /\ WF_vars(MonList(m))
       /\ WF_vars(MonDrop(m))
       /\ WF_vars(MonTickDone(m))
       /\ WF_vars(MonExit(m))

FairSpec == Spec /\ Fairness

\* Every object is held by a stop request that no monitor answers.
PoolStuck == \A o \in Objs : \E r \in Reqs : hold[r] = o /\ pc[r] = "diskMonE"

\* A request waiting for an object is answered, or waits for a monitor to
\* stop, unless stops without a monitor have eaten the whole pool
\* (mongo_cmd.go:56, 237): no other path starves the queue.
WaitersServed ==
  \A r \in Reqs : pc[r] = "wait" ~> (pc[r] \in {"diskMonE", "done"} \/ PoolStuck)

\* A stop is answered as long as there is a monitor left to take it
\* (mongo_cmd.go:190-192, 237), however busy the monitor is.
StopAnswered ==
  \A r \in Reqs :
    pc[r] = "diskMonE" ~> (pc[r] = "done" \/ \A m \in Reqs : mon[m].st \notin Active \ {"stopping"})
=============================================================================
