------------------------------- MODULE DbMon -------------------------------
(***************************************************************************)
(* The database monitor that the command dbMonB of /mongo starts: every    *)
(* two seconds it pings mongod pingCount times, and when its error count   *)
(* is pingCount it mails an alarm and ends.  The count is not reset by     *)
(* pings that succeed.  External: mongod, which answers a ping or does not.*)
(***************************************************************************)
EXTENDS Naturals

CONSTANTS
  Reqs,       \* the requests dbMonB
  pingCount,  \* 5 in the code
  MaxErrs     \* bound on the errors a monitor counts before a tick

VARIABLES
  mon,         \* where the monitor of each request stands
  left,        \* the pings left in its tick
  errCount,    \* the errors it counted
  dbMonState,  \* the flag dbMonStartHandler tests
  crashed,     \* a monitor panicked and took the process with it
  fresh,       \* history: errCount was 0 when the tick began
  answered     \* history: some ping of the tick was answered

history == <<fresh, answered>>
vars    == <<mon, left, errCount, dbMonState, crashed, history>>

Init ==
  /\ mon = [m \in Reqs |-> "none"]
  /\ left = [m \in Reqs |-> 0]
  /\ errCount = [m \in Reqs |-> 0]
  /\ dbMonState = 0
  /\ crashed = FALSE
  /\ fresh = [m \in Reqs |-> FALSE]
  /\ answered = [m \in Reqs |-> FALSE]

Running == {"dial", "select", "ping"}

-----------------------------------------------------------------------------
(* Faulty variants of operations below; the specification uses none.       *)

\* One ping more than the alarm expects.
TickOneMore(m) ==
  /\ ~crashed /\ mon[m] = "select" /\ errCount[m] <= MaxErrs
  /\ mon' = [mon EXCEPT ![m] = "ping"]
  /\ left' = [left EXCEPT ![m] = pingCount + 1]
  /\ fresh' = [fresh EXCEPT ![m] = errCount[m] = 0]
  /\ answered' = [answered EXCEPT ![m] = FALSE]
  /\ UNCHANGED <<errCount, dbMonState, crashed>>

-----------------------------------------------------------------------------
\* The flag is loaded here; the new goroutine stores 1 only when it runs.
DbMonStartHandler(m) ==
  /\ ~crashed /\ mon[m] = "none"
  /\ mon' = [mon EXCEPT ![m] = IF dbMonState > 0 THEN "refused" ELSE "spawned"]
  /\ UNCHANGED <<left, errCount, dbMonState, crashed, history>>

Start(m) ==
  /\ ~crashed /\ mon[m] = "spawned"
  /\ mon' = [mon EXCEPT ![m] = "dial"]
  /\ dbMonState' = 1
  /\ UNCHANGED <<left, errCount, crashed, history>>

\* A failed dial gives a nil session, which SetSocketTimeout dereferences
\* before the error is looked at: nobody recovers in this goroutine.
Dial(m) ==
  /\ ~crashed /\ mon[m] = "dial"
  /\ \/ mon' = [mon EXCEPT ![m] = "select"] /\ UNCHANGED crashed
     \/ crashed' = TRUE /\ UNCHANGED mon
  /\ UNCHANGED <<left, errCount, dbMonState, history>>

Tick(m) ==
  /\ ~crashed /\ mon[m] = "select" /\ errCount[m] <= MaxErrs
  /\ mon' = [mon EXCEPT ![m] = "ping"]
  /\ left' = [left EXCEPT ![m] = pingCount]
  /\ fresh' = [fresh EXCEPT ![m] = errCount[m] = 0]
  /\ answered' = [answered EXCEPT ![m] = FALSE]
  /\ UNCHANGED <<errCount, dbMonState, crashed>>

Ping(m) ==
  /\ ~crashed /\ mon[m] = "ping" /\ left[m] > 0
  /\ left' = [left EXCEPT ![m] = @ - 1]
  /\ \/ errCount' = [errCount EXCEPT ![m] = @ + 1] /\ UNCHANGED answered
     \/ answered' = [answered EXCEPT ![m] = TRUE] /\ UNCHANGED errCount
  /\ UNCHANGED <<mon, dbMonState, crashed, fresh>>

\* The alarm, the end and the deferred store; or back to the ticker.
Check(m) ==
  /\ ~crashed /\ mon[m] = "ping" /\ left[m] = 0
  /\ IF errCount[m] = pingCount
       THEN mon' = [mon EXCEPT ![m] = "exited"] /\ dbMonState' = 0
       ELSE mon' = [mon EXCEPT ![m] = "select"] /\ UNCHANGED dbMonState
  /\ UNCHANGED <<left, errCount, crashed, history>>

Monitor(m) == Start(m) \/ Dial(m) \/ Tick(m) \/ Ping(m) \/ Check(m)

Next == \E m \in Reqs : DbMonStartHandler(m) \/ Monitor(m)

Spec == Init /\ [][Next]_vars

-----------------------------------------------------------------------------
(***************************************************************************)
(* A fresh tick tells the truth (mongo_cmd.go:270-283): a monitor that     *)
(* began its tick without errors gives the alarm exactly when every ping   *)
(* of the tick failed.  With errors left over it may miss an outage for    *)
(* ever or take single failures for one, which this leaves open.           *)
(***************************************************************************)
TickIsExact ==
  \A m \in Reqs : mon[m] = "ping" /\ mon'[m] # "ping" /\ fresh[m] =>
    (mon'[m] = "exited" <=> ~answered[m])

FreshTickExact == [][TickIsExact]_vars

(***************************************************************************)
(* "db monitor has started." is never wrong (mongo_cmd.go:243, 252-255,    *)
(* 292-296): while the flag is up some monitor runs, or the process ended. *)
(***************************************************************************)
FlagHasMonitor == dbMonState = 1 => \E m \in Reqs : mon[m] \in Running

(***************************************************************************)
(* The inductive invariant: a tick that began without errors has counted   *)
(* one error for each ping but those that were answered.                   *)
(***************************************************************************)
TypeOK ==
  /\ mon \in [Reqs -> {"none", "refused", "spawned", "exited"} \cup Running]
  /\ left \in [Reqs -> 0..pingCount]
  /\ errCount \in [Reqs -> Nat]
  /\ {fresh, answered} \subseteq [Reqs -> BOOLEAN]

Tallied ==
  \A m \in Reqs : mon[m] = "ping" /\ fresh[m] =>
    /\ errCount[m] + left[m] <= pingCount
    /\ answered[m] <=> errCount[m] + left[m] < pingCount

IInv == TypeOK /\ Tallied /\ FlagHasMonitor
=============================================================================
