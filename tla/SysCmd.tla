------------------------------- MODULE SysCmd -------------------------------
(***************************************************************************)
(* The /syscmd handler of cmdset (package syscmd): requests that share a   *)
(* pool of SysRequest objects and run a command whose output they stream,  *)
(* and the disk monitors that op "monitor" starts.                         *)
(*                                                                         *)
(* External: the commands, which write lines and close their output when   *)
(* they please, and the disk.                                              *)
(***************************************************************************)
EXTENDS Naturals, Sequences, FiniteSets

CONSTANTS
  Reqs,                \* the HTTP requests to /syscmd, one goroutine each
  SysRequestPoolSize,  \* request_pool_size
  Commands,            \* what a body can name as Args[0], "disk" and "mem" apart
  Absent,              \* a field the body does not mention
  Lower,               \* strings.ToLower of Args[0]
  Bodies,              \* the bodies clients send, a set of Body
  MaxLines             \* bound on the lines a command writes

Objs  == 1..SysRequestPoolSize
NoObj == 0

\* Op after strings.ToLower, and Args by its first element; "" is the zero
\* value of Op and stands for a slice without elements.
Ops  == {"monitor", "syscmd", "other", ""}
Args == Commands \cup {"disk", "mem", ""}

\* The fields present in a body, and whether Unmarshal reports an error.
Body == [op : Ops \cup {Absent}, args : Args \cup {Absent}, bad : BOOLEAN]

ASSUME SysCmdAssumption ==
  /\ SysRequestPoolSize \in Nat
  /\ Absent \notin Ops \cup Args
  /\ Lower \in [Args -> Args]
  /\ \A a \in Args : Lower[a] = "" <=> a = ""
  /\ Bodies \subseteq Body
  /\ MaxLines \in Nat

VARIABLES
  pc,            \* where each request goroutine stands in ServeHTTP
  body,          \* what it read from the connection
  hold,          \* the pool object it holds
  pool,          \* cmdReqPool
  obj,           \* the contents of the pool objects
  cmd,           \* the command a request started
  out,           \* its output: the lines written, whether it is closed, and
                 \* whether it ends in a rest without a newline
  sent,          \* the lines passed on to the client
  mon,           \* the diskMon goroutine each request started
  diskMonState,  \* the flag monitorHandler tests
  low            \* the disk has less left than disk_left_notify percent

reqVars == <<pc, body, hold>>
objVars == <<pool, obj>>
runVars == <<cmd, out, sent>>
monVars == <<mon, diskMonState, low>>
vars    == <<reqVars, objVars, runVars, monVars>>

NoBody == [op |-> Absent, args |-> Absent, bad |-> TRUE]
NoOut  == [lines |-> 0, rest |-> FALSE, closed |-> FALSE]

Init ==
  /\ pc = [r \in Reqs |-> "read"]
  /\ body = [r \in Reqs |-> NoBody]
  /\ hold = [r \in Reqs |-> NoObj]
  /\ pool = [i \in 1..SysRequestPoolSize |-> i]
  /\ obj = [o \in Objs |-> [op |-> "", args |-> ""]]
  /\ cmd = [r \in Reqs |-> ""]
  /\ out = [r \in Reqs |-> NoOut]
  /\ sent = [r \in Reqs |-> 0]
  /\ mon = [r \in Reqs |-> "none"]
  /\ diskMonState = 0
  /\ low \in BOOLEAN

-----------------------------------------------------------------------------
(* Faulty variants of operations below; the specification uses none.       *)

\* The loop ends with the output, lines not yet read or not.
StreamEarlyEnd(r) ==
  /\ pc[r] = "stream"
  /\ \/ /\ sent[r] < out[r].lines
        /\ sent' = [sent EXCEPT ![r] = @ + 1]
        /\ UNCHANGED pc
     \/ /\ out[r].closed
        /\ pc' = [pc EXCEPT ![r] = "recycle"]
        /\ UNCHANGED sent
  /\ UNCHANGED <<body, hold, objVars, cmd, out, monVars>>

\* A request that ran a command does not give its object back.
RecycleUnlessRan(r) ==
  /\ pc[r] = "recycle"
  /\ pool' = IF cmd[r] # "" THEN pool ELSE Append(pool, hold[r])
  /\ hold' = [hold EXCEPT ![r] = NoObj]
  /\ pc' = [pc EXCEPT ![r] = "done"]
  /\ UNCHANGED <<body, obj, runVars, monVars>>

-----------------------------------------------------------------------------
(* The request goroutines.                                                 *)

GoTo(r, l) == pc' = [pc EXCEPT ![r] = l]

\* ioutil.ReadAll fails before an object is taken, or gives some body.
ReadBody(r) ==
  /\ pc[r] = "read"
  /\ \/ GoTo(r, "done") /\ UNCHANGED body
     \/ GoTo(r, "wait") /\ \E b \in Bodies : body' = [body EXCEPT ![r] = b]
  /\ UNCHANGED <<hold, objVars, runVars, monVars>>

GetAvalibleReq(r) ==
  /\ pc[r] = "wait"
  /\ pool # <<>>
  /\ hold' = [hold EXCEPT ![r] = Head(pool)]
  /\ pool' = Tail(pool)
  /\ GoTo(r, "decode")
  /\ UNCHANGED <<body, obj, runVars, monVars>>

Merge(old, b) ==
  [op   |-> IF b.op = Absent THEN old.op ELSE b.op,
   args |-> IF b.args = Absent THEN old.args ELSE b.args]

\* Unmarshal into the object as it is, and the lookup of the op; a handler
\* panics on Args[0] of an empty slice.
Decode(r) ==
  /\ pc[r] = "decode"
  /\ LET new   == Merge(obj[hold[r]], body[r])
         known == ~body[r].bad /\ new.op \in {"monitor", "syscmd"}
     IN  /\ obj' = [obj EXCEPT ![hold[r]] = new]
         /\ GoTo(r, IF known /\ new.args # "" THEN new.op ELSE "recycle")
  /\ UNCHANGED <<body, hold, pool, runVars, monVars>>

\* The flag is loaded here; the new goroutine stores 1 only when it runs.
MonitorHandler(r) ==
  /\ pc[r] = "monitor"
  /\ \/ /\ Lower[obj[hold[r]].args] = "disk" /\ diskMonState = 0
        /\ mon' = [mon EXCEPT ![r] = "spawned"]
     \/ /\ Lower[obj[hold[r]].args] # "disk" \/ diskMonState > 0
        /\ UNCHANGED mon
  /\ GoTo(r, "recycle")
  /\ UNCHANGED <<body, hold, objVars, runVars, diskMonState, low>>

\* StdoutPipe and Start of the command, whose name is lower-cased: it may fail.
Start(r) ==
  /\ pc[r] = "syscmd"
  /\ \/ GoTo(r, "recycle") /\ UNCHANGED cmd
     \/ GoTo(r, "stream") /\ cmd' = [cmd EXCEPT ![r] = Lower[obj[hold[r]].args]]
  /\ UNCHANGED <<body, hold, objVars, out, sent, monVars>>

\* One ReadBytes: a line, or the end of the output, with which ReadBytes returns
\* a rest that has no newline: it is not sent.
Stream(r) ==
  /\ pc[r] = "stream"
  /\ \/ /\ sent[r] < out[r].lines
        /\ sent' = [sent EXCEPT ![r] = @ + 1]
        /\ UNCHANGED pc
     \/ /\ sent[r] = out[r].lines /\ out[r].closed
        /\ GoTo(r, "recycle")
        /\ UNCHANGED sent
  /\ UNCHANGED <<body, hold, objVars, cmd, out, monVars>>

Recycle(r) ==
  /\ pc[r] = "recycle"
  /\ pool' = Append(pool, hold[r])
  /\ hold' = [hold EXCEPT ![r] = NoObj]
  /\ GoTo(r, "done")
  /\ UNCHANGED <<body, obj, runVars, monVars>>

ServeHTTP(r) ==
  \/ ReadBody(r)
  \/ GetAvalibleReq(r)
  \/ Decode(r)
  \/ MonitorHandler(r)
  \/ Start(r)
  \/ Stream(r)
  \/ Recycle(r)

-----------------------------------------------------------------------------
(* The disk monitors.                                                      *)

MonStart(m) ==
  /\ mon[m] = "spawned"
  /\ mon' = [mon EXCEPT ![m] = "running"]
  /\ diskMonState' = 1
  /\ UNCHANGED <<reqVars, objVars, runVars, low>>

\* A tick that finds the disk low: the mails, the end, and the deferred store.
\* A Statfs that fails counts as low: 0/0 is NaN, and int(NaN) is negative.
MonTick(m) ==
  /\ mon[m] = "running"
  /\ low
  /\ mon' = [mon EXCEPT ![m] = "exited"]
  /\ diskMonState' = 0
  /\ UNCHANGED <<reqVars, objVars, runVars, low>>

-----------------------------------------------------------------------------
(* The environment.                                                        *)

\* The command writes a line that ends in a newline, or closes its output (by
\* exiting, say), with or without a rest after the last newline.
Output(r) ==
  /\ cmd[r] # "" /\ ~out[r].closed
  /\ \/ /\ out[r].lines < MaxLines
        /\ out' = [out EXCEPT ![r].lines = @ + 1]
     \/ \E rest \in BOOLEAN :
          out' = [out EXCEPT ![r] = [lines |-> @.lines, rest |-> rest, closed |-> TRUE]]
  /\ UNCHANGED <<reqVars, objVars, cmd, sent, monVars>>

Disk ==
  /\ low' = ~low
  /\ UNCHANGED <<reqVars, objVars, runVars, mon, diskMonState>>

Next ==
  \/ \E r \in Reqs : ServeHTTP(r) \/ MonStart(r) \/ MonTick(r) \/ Output(r)
  \/ Disk

Spec == Init /\ [][Next]_vars

-----------------------------------------------------------------------------
(***************************************************************************)
(* What runs is what was sent (system_cmd.go:46, 165-166), its name in     *)
(* lower case: a body that names a command runs that one and nothing else, *)
(* though it may be another one for the system.  A body without args runs  *)
(* the arguments of some other body, for the objects are not cleared.      *)
(***************************************************************************)
SentFor(r, a) ==
  \/ body[r].args = a
  \/ body[r].args = Absent /\ \E q \in Reqs \ {r} : body[q].args = a

RanAsSent ==
  \A r \in Reqs : cmd[r] # "" => \E a \in Args \ {""} : cmd[r] = Lower[a] /\ SentFor(r, a)

(***************************************************************************)
(* A request that ran a command answers every complete line of its output  *)
(* (system_cmd.go:74-83), though the command may close the output before   *)
(* they are read; what follows the last newline, and only that, is lost.   *)
(***************************************************************************)
AllLinesSent ==
  \A r \in Reqs : cmd[r] # "" /\ pc[r] = "done" => out[r].closed /\ sent[r] = out[r].lines

(***************************************************************************)
(* "disk monitor has started" is never wrong (system_cmd.go:119-122,       *)
(* 150-154): while the flag is up some monitor runs, even when two got     *)
(* started in the window between the load and the store.                   *)
(***************************************************************************)
FlagHasMonitor == diskMonState = 1 => \E m \in Reqs : mon[m] = "running"

(***************************************************************************)
(* What /syscmd answers is so: the command in lower case, the complete     *)
(* lines of its output, and that a monitor runs.                           *)
(***************************************************************************)
AnswersAreTrue == RanAsSent /\ AllLinesSent /\ FlagHasMonitor

(***************************************************************************)
(* The handler keeps the promise of a request pool (RequestPool), also     *)
(* when a handler panics and while commands run.                           *)
(***************************************************************************)
StageOf(r) ==
  IF pc[r] \in {"read", "wait"} THEN "outside"
  ELSE IF pc[r] = "done" THEN "left"
  ELSE "inside"

RP == INSTANCE RequestPool WITH
        PoolSize <- SysRequestPoolSize,
        free     <- {pool[i] : i \in 1..Len(pool)},
        owned    <- hold,
        stage    <- [r \in Reqs |-> StageOf(r)]

PoolPromise == RP!Spec

-----------------------------------------------------------------------------
(***************************************************************************)
(* Fairness.  Request goroutines that can run do run, and the receivers of *)
(* a channel are served first in first out.  Clients, commands, monitors   *)
(* and the disk are not fair.                                              *)
(***************************************************************************)
Fairness ==
  \A r \in Reqs :
    /\ SF_vars(GetAvalibleReq(r))
    /\ WF_vars(Decode(r) \/ MonitorHandler(r) \/ Start(r) \/ Stream(r) \/ Recycle(r))

FairSpec == Spec /\ Fairness

OpenCommands == {r \in Reqs : cmd[r] # "" /\ ~out[r].closed}

\* Only commands that keep their output open can starve the pool
\* (system_cmd.go:43, 74-83).
WaitersServed ==
  \A r \in Reqs :
    pc[r] = "wait" ~> \/ pc[r] \in {"stream", "done"}
                      \/ Cardinality(OpenCommands) = SysRequestPoolSize
=============================================================================
