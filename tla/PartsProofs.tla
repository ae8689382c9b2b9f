----------------------------- MODULE PartsProofs -----------------------------
(***************************************************************************)
(* The smaller handlers, the database monitor, the daemon cmdset, the keys *)
(* of urls, the writer of bufio.v1 and the lexer and the documents of      *)
(* TOML, for every value of their constants.  The inductive invariant of a *)
(* handler is IInv of its module; v1 to v9 are the variables of a part in  *)
(* the order of its INSTANCE in Parts.                                     *)
(***************************************************************************)
EXTENDS Parts, SequenceTheorems, WellFoundedInduction, TLAPS

-----------------------------------------------------------------------------
(* The daemon cmdset: its entry in etcd and its handlers.                  *)

LEMMA DaemonInit == Daemon!Init => Daemon!IInv
BY FilesAssumption DEF Daemon!Init, Daemon!IInv, Daemon!TypeOK, Daemon!Visited, Daemon!ServesAsEntered

\* What a configuration has in it that makes a start panic, or a server fall.
Panics(f) ==
  ~f.text \/ ~f.logs \/ ~f.port \/ \E h \in Registered : f.sections[h] = "bad"
Falls(f) == \E h \in Monitors : h \in Registered /\ f.sections[h] = "some"

\* A daemon that ends, or has not got to its handlers, with nothing else
\* changed that says who serves what.
LEMMA DaemonGoes ==
  ASSUME Daemon!IInv, NEW d \in Daemons,
         NEW at \in {"address", "dir", "entry", "exit", "panic", "fallen"},
         v2' = [v2 EXCEPT ![d] = at],
         at = "panic" => Panics(v1[d]), at = "fallen" => Falls(v1[d]),
         v3' = v3 \/ v3' = [v3 EXCEPT ![d] = Registered],
         v4' = v4, v5' = v5, v1' = v1, v7 \subseteq v7'
  PROVE  Daemon!IInv'
<1>1. \A e \in Daemons : v2'[e] = IF e = d THEN at ELSE v2[e]
  BY DEF Daemon!IInv, Daemon!TypeOK
<1>2. v3' \in [Daemons -> SUBSET Registered] /\ \A e \in Daemons \ {d} : v3'[e] = v3[e]
  BY DEF Daemon!IInv, Daemon!TypeOK
<1>3. Daemon!TypeOK'
  BY <1>2 DEF Daemon!IInv, Daemon!TypeOK
<1>4. Daemon!Visited'
  BY <1>1, <1>2 DEF Daemon!IInv, Daemon!Visited
<1>5. Daemon!ServesAsEntered'
  BY <1>1 DEF Daemon!IInv, Daemon!ServesAsEntered, Panics, Falls
<1> QED BY <1>3, <1>4, <1>5 DEF Daemon!IInv

LEMMA DaemonLoads ==
  ASSUME Daemon!IInv, NEW d \in Daemons, Daemon!Load(d)
  PROVE  Daemon!IInv'
<1>1. PICK at \in {"address", "exit", "panic"} :
        v2' = [v2 EXCEPT ![d] = at] /\ (at = "panic" => ~v1[d].text)
  BY DEF Daemon!Load, Daemon!Goto
<1>2. /\ \A e \in Daemons : v2'[e] = IF e = d THEN at ELSE v2[e]
      /\ \A e \in Daemons : v4'[e] = IF e = d THEN {} ELSE v4[e]
      /\ \A e \in Daemons : v5'[e] = IF e = d THEN {} ELSE v5[e]
      /\ v1' = v1 /\ v3' = v3 /\ v7' = v7
  BY <1>1 DEF Daemon!IInv, Daemon!TypeOK, Daemon!Load
<1>3. Daemon!TypeOK'
  BY <1>1 DEF Daemon!IInv, Daemon!TypeOK, Daemon!Load
<1>4. Daemon!Visited' /\ Daemon!ServesAsEntered'
  BY <1>1, <1>2 DEF Daemon!IInv, Daemon!Visited, Daemon!ServesAsEntered
<1> QED BY <1>3, <1>4 DEF Daemon!IInv

LEMMA DaemonEnters ==
  ASSUME Daemon!IInv, NEW d \in Daemons, Daemon!SetEntry(d)
  PROVE  Daemon!IInv'
<1>1. /\ v3' = [v3 EXCEPT ![d] = Registered] /\ v1' = v1 /\ v4' = v4 /\ v5' = v5
      /\ v7 \subseteq v7'
  BY DEF Daemon!SetEntry
<1>2. CASE Daemon!EntryFails(d)
  <2>1. PICK at \in {"exit", "panic"} :
          v2' = [v2 EXCEPT ![d] = at] /\ (at = "panic" => Panics(v1[d]))
    BY <1>2 DEF Daemon!EntryFails, Daemon!FailsAt, Daemon!Goto, Panics
  <2> QED BY <1>1, <2>1, DaemonGoes
<1>3. CASE v7' = v7 \cup {d} /\ Daemon!Goto(d, "handlers")
  <2>1. /\ \A e \in Daemons : v2'[e] = IF e = d THEN "handlers" ELSE v2[e]
        /\ \A e \in Daemons : v3'[e] = IF e = d THEN Registered ELSE v3[e]
        /\ d \in v7'
    BY <1>1, <1>3 DEF Daemon!IInv, Daemon!TypeOK, Daemon!Goto
  <2>2. Daemon!TypeOK'
    BY <1>1, <1>3 DEF Daemon!IInv, Daemon!TypeOK, Daemon!Goto
  <2>4. Daemon!Visited'
    BY <1>1, <2>1 DEF Daemon!IInv, Daemon!Visited
  <2>5. Daemon!ServesAsEntered'
    BY <1>1, <2>1 DEF Daemon!IInv, Daemon!ServesAsEntered
  <2> QED BY <2>2, <2>4, <2>5 DEF Daemon!IInv
<1> QED BY <1>2, <1>3 DEF Daemon!SetEntry

LEMMA DaemonVisits ==
  ASSUME Daemon!IInv, NEW d \in Daemons, Daemon!InitHandler(d)
  PROVE  Daemon!IInv'
<1>1. v2[d] = "handlers" /\ UNCHANGED <<v1, v5, v6, v7>>
  BY DEF Daemon!InitHandler
<1>2. PICK h \in v3[d] :
        \/ /\ v1[d].sections[h] = "none"
           /\ v3' = [v3 EXCEPT ![d] = @ \ {h}] /\ UNCHANGED <<v4, v2>>
        \/ /\ v1[d].sections[h] \in {"empty", "some"}
           /\ v3' = [v3 EXCEPT ![d] = @ \ {h}]
           /\ v4' = [v4 EXCEPT ![d] = @ \cup {h}] /\ UNCHANGED v2
        \/ Daemon!InitFails(d, h)
  BY DEF Daemon!InitHandler
<1>3. CASE Daemon!InitFails(d, h)
  <2>1. h \in Registered
    BY DEF Daemon!IInv, Daemon!TypeOK
  <2>2. PICK at \in {"exit", "panic"} :
          v2' = [v2 EXCEPT ![d] = at] /\ (at = "panic" => Panics(v1[d]))
    BY <1>3, <2>1 DEF Daemon!InitFails, Daemon!FailsAt, Daemon!Goto, Panics
  <2>3. UNCHANGED <<v3, v4>>
    BY <1>3 DEF Daemon!InitFails
  <2> QED BY <1>1, <2>2, <2>3, DaemonGoes
<1>4. CASE ~Daemon!InitFails(d, h)
  <2>1. /\ \A e \in Daemons : v3'[e] = IF e = d THEN v3[d] \ {h} ELSE v3[e]
        /\ \A e \in Daemons \ {d} : v4'[e] = v4[e]
        /\ v4[d] \subseteq v4'[d] /\ (v1[d].sections[h] # "none" => h \in v4'[d])
        /\ v2' = v2
    BY <1>2, <1>4 DEF Daemon!IInv, Daemon!TypeOK
  <2>2. Daemon!TypeOK'
    BY <1>1, <1>2, <1>4 DEF Daemon!IInv, Daemon!TypeOK
  <2>3. Daemon!Visited'
    BY <1>1, <2>1 DEF Daemon!IInv, Daemon!Visited
  <2>4. Daemon!ServesAsEntered'
    BY <1>1, <2>1 DEF Daemon!IInv, Daemon!ServesAsEntered
  <2> QED BY <2>2, <2>3, <2>4 DEF Daemon!IInv
<1> QED BY <1>2, <1>3, <1>4

LEMMA DaemonListens ==
  ASSUME Daemon!IInv, NEW d \in Daemons, Daemon!Listen(d)
  PROVE  Daemon!IInv'
<1>1. v2[d] = "handlers" /\ v3[d] = {} /\ UNCHANGED <<v1, v3, v4, v5, v7>>
  BY DEF Daemon!Listen
<1>2. CASE Daemon!Goto(d, "exit")
  BY <1>1, <1>2, DaemonGoes DEF Daemon!Goto
<1>3. CASE Daemon!Goto(d, "serve")
  <2>1. \A e \in Daemons : v2'[e] = IF e = d THEN "serve" ELSE v2[e]
    BY <1>3 DEF Daemon!IInv, Daemon!TypeOK, Daemon!Goto
  <2>2. Daemon!TypeOK'
    BY <1>1, <1>3 DEF Daemon!IInv, Daemon!TypeOK, Daemon!Goto
  <2>3. Daemon!Visited'
    BY <1>1, <2>1 DEF Daemon!IInv, Daemon!Visited
  <2>4. Daemon!ServesAsEntered'
    BY <1>1, <2>1 DEF Daemon!IInv, Daemon!Visited, Daemon!ServesAsEntered
  <2> QED BY <2>2, <2>3, <2>4 DEF Daemon!IInv
<1> QED BY <1>2, <1>3 DEF Daemon!Listen

LEMMA DaemonRequest ==
  ASSUME Daemon!IInv, NEW d \in Daemons, NEW h \in Registered, Daemon!Request(d, h)
  PROVE  Daemon!IInv'
<1>1. v2[d] = "serve" /\ UNCHANGED <<v1, v2, v3, v4, v7>>
  BY DEF Daemon!Request
<1>2. v1[d].sections[h] \in {"none", "empty"} \/ h \in Waiting
  BY <1>1 DEF Daemon!Request, Daemon!IInv, Daemon!ServesAsEntered
<1>3. \A e \in Daemons : v5'[e] = IF e = d THEN v5[d] \cup {h} ELSE v5[e]
  BY DEF Daemon!Request, Daemon!IInv, Daemon!TypeOK
<1>4. Daemon!TypeOK' /\ Daemon!Visited'
  BY <1>1 DEF Daemon!Request, Daemon!IInv, Daemon!TypeOK, Daemon!Visited
<1>5. Daemon!ServesAsEntered'
  BY <1>1, <1>2, <1>3 DEF Daemon!IInv, Daemon!ServesAsEntered
<1> QED BY <1>4, <1>5 DEF Daemon!IInv

LEMMA DaemonNext ==
  ASSUME Daemon!IInv, Daemon!Next
  PROVE  Daemon!IInv'
<1>1. PICK d \in Daemons :
        \/ Daemon!Main(d)
        \/ Daemon!Die(d)
        \/ \E h \in Registered : Daemon!Request(d, h) \/ Daemon!MonitorPanics(d, h)
  BY DEF Daemon!Next
<1>2. CASE Daemon!Address(d)
  <2>1. PICK at \in {"dir", "exit", "panic"} :
          v2' = [v2 EXCEPT ![d] = at] /\ (at = "panic" => Panics(v1[d]))
    BY <1>2 DEF Daemon!Address, Daemon!FailsAt, Daemon!Goto, Panics
  <2> QED BY <1>2, <2>1, DaemonGoes DEF Daemon!Address
<1>3. CASE Daemon!CreateDir(d)
  <2>1. CASE Daemon!DirFails(d)
    <3>1. PICK at \in {"entry", "panic"} :
            v2' = [v2 EXCEPT ![d] = at] /\ (at = "panic" => Panics(v1[d]))
      BY <2>1 DEF Daemon!DirFails, Daemon!Goto, Panics
    <3> QED BY <1>3, <3>1, DaemonGoes DEF Daemon!CreateDir
  <2>2. CASE Daemon!Goto(d, "entry")
    BY <1>3, <2>2, DaemonGoes DEF Daemon!CreateDir, Daemon!Goto
  <2> QED BY <1>3, <2>1, <2>2 DEF Daemon!CreateDir
<1>4. CASE Daemon!Die(d)
  BY <1>4, DaemonGoes DEF Daemon!Die, Daemon!Goto
<1>5. CASE \E h \in Registered : Daemon!MonitorPanics(d, h)
  <2>1. Falls(v1[d]) /\ v2' = [v2 EXCEPT ![d] = "fallen"] /\ UNCHANGED <<v1, v3, v4, v5, v7>>
    BY <1>5 DEF Daemon!MonitorPanics, Daemon!Goto, Falls
  <2> QED BY <2>1, DaemonGoes
<1> QED BY <1>1, <1>2, <1>3, <1>4, <1>5, DaemonLoads, DaemonEnters, DaemonVisits, DaemonListens,
           DaemonRequest DEF Daemon!Main

-----------------------------------------------------------------------------
(* The database monitor.                                                   *)

LEMMA DatabaseInit == Database!Init => Database!IInv
<1> SUFFICES ASSUME Database!Init PROVE Database!IInv
  OBVIOUS
<1>1. 0 \in 0..pingCount
  BY PartsAssumption
<1> QED BY <1>1 DEF Database!Init, Database!IInv, Database!TypeOK, Database!Tallied, Database!FlagHasMonitor

\* A monitor that goes on to a step at which nothing is tallied; the flag
\* changes only as it starts or exits.
LEMMA DatabaseGoes ==
  ASSUME Database!IInv, NEW m \in Reqs, NEW at \in {"refused", "spawned", "dial", "select", "exited"},
         v1' = [v1 EXCEPT ![m] = at], UNCHANGED <<v2, v3, v6, v7>>,
         \/ v4' = 0
         \/ v4' = 1 /\ at = "dial"
         \/ v4' = v4 /\ (at \in {"dial", "select"} \/ v1[m] \notin Database!Running)
  PROVE  Database!IInv'
<1>1. \A n \in Reqs : v1'[n] = IF n = m THEN at ELSE v1[n]
  BY DEF Database!IInv, Database!TypeOK
<1>2. Database!TypeOK' /\ Database!Tallied'
  BY <1>1 DEF Database!IInv, Database!TypeOK, Database!Tallied, Database!Running
<1>3. Database!FlagHasMonitor'
  BY <1>1 DEF Database!IInv, Database!FlagHasMonitor, Database!Running
<1> QED BY <1>2, <1>3 DEF Database!IInv

LEMMA DatabaseTick ==
  ASSUME Database!IInv, NEW m \in Reqs, Database!Tick(m)
  PROVE  Database!IInv'
<1>1. /\ \A n \in Reqs : v1'[n] = IF n = m THEN "ping" ELSE v1[n]
      /\ \A n \in Reqs : v2'[n] = IF n = m THEN pingCount ELSE v2[n]
      /\ \A n \in Reqs : v6'[n] = IF n = m THEN v3[m] = 0 ELSE v6[n]
      /\ \A n \in Reqs : v7'[n] = IF n = m THEN FALSE ELSE v7[n]
      /\ v3' = v3 /\ v4' = v4
  BY DEF Database!IInv, Database!TypeOK, Database!Tick
<1>2. pingCount \in 0..pingCount /\ pingCount \in Nat
  BY PartsAssumption
<1>3. Database!TypeOK'
  BY <1>2 DEF Database!IInv, Database!TypeOK, Database!Tick, Database!Running
<1>4. Database!Tallied'
  <2> SUFFICES ASSUME NEW n \in Reqs, v1'[n] = "ping", v6'[n]
               PROVE  /\ v3'[n] + v2'[n] <= pingCount
                      /\ v7'[n] <=> v3'[n] + v2'[n] < pingCount
    BY DEF Database!Tallied
  <2>1. CASE n = m
    <3>1. v3'[n] = 0 /\ v2'[n] = pingCount /\ ~v7'[n]
      BY <1>1, <2>1
    <3> QED BY <1>2, <3>1
  <2>2. CASE n # m
    <3>1. v1[n] = "ping" /\ v6[n] /\ v3'[n] = v3[n] /\ v2'[n] = v2[n] /\ (v7'[n] <=> v7[n])
      BY <1>1, <2>2
    <3> QED BY <3>1 DEF Database!IInv, Database!Tallied
  <2> QED BY <2>1, <2>2
<1>5. Database!FlagHasMonitor'
  BY <1>1 DEF Database!IInv, Database!FlagHasMonitor, Database!Running
<1> QED BY <1>3, <1>4, <1>5 DEF Database!IInv

LEMMA DatabasePing ==
  ASSUME Database!IInv, NEW m \in Reqs, Database!Ping(m)
  PROVE  Database!IInv'
<1>1. /\ v1' = v1 /\ v4' = v4 /\ v6' = v6
      /\ v2' = [v2 EXCEPT ![m] = v2[m] - 1] /\ v2[m] > 0
      /\ \/ v3' = [v3 EXCEPT ![m] = v3[m] + 1] /\ v7' = v7
         \/ v7' = [v7 EXCEPT ![m] = TRUE] /\ v3' = v3
  BY DEF Database!Ping
<1>2. /\ v2 \in [Reqs -> 0..pingCount] /\ v3 \in [Reqs -> Nat] /\ pingCount \in Nat
      /\ v7 \in [Reqs -> BOOLEAN]
  BY PartsAssumption DEF Database!IInv, Database!TypeOK
<1>3. v2[m] - 1 \in 0..pingCount /\ v3[m] + 1 \in Nat
  BY <1>1, <1>2
<1>4. Database!TypeOK'
  BY <1>1, <1>2, <1>3 DEF Database!IInv, Database!TypeOK
<1>5. Database!Tallied'
  <2> SUFFICES ASSUME NEW n \in Reqs, v1[n] = "ping", v6[n]
               PROVE  /\ v3'[n] + v2'[n] <= pingCount
                      /\ v7'[n] <=> v3'[n] + v2'[n] < pingCount
    BY <1>1 DEF Database!Tallied
  <2>1. v3[n] + v2[n] <= pingCount /\ (v7[n] <=> v3[n] + v2[n] < pingCount)
    BY DEF Database!IInv, Database!Tallied
  <2>2. CASE n # m
    BY <1>1, <1>2, <2>1, <2>2
  <2>3. CASE n = m /\ v3' = [v3 EXCEPT ![m] = v3[m] + 1] /\ v7' = v7
    BY <1>1, <1>2, <2>1, <2>3
  <2>4. CASE n = m /\ v7' = [v7 EXCEPT ![m] = TRUE] /\ v3' = v3
    BY <1>1, <1>2, <2>1, <2>4
  <2> QED BY <1>1, <2>2, <2>3, <2>4
<1>6. Database!FlagHasMonitor'
  BY <1>1 DEF Database!IInv, Database!FlagHasMonitor, Database!Running
<1> QED BY <1>4, <1>5, <1>6 DEF Database!IInv

LEMMA DatabaseNext ==
  ASSUME Database!IInv, Database!Next
  PROVE  Database!IInv' /\ Database!TickIsExact
<1>1. PICK m \in Reqs : Database!DbMonStartHandler(m) \/ Database!Monitor(m)
  BY DEF Database!Next
<1>2. CASE Database!DbMonStartHandler(m)
  <2>1. Database!IInv'
    BY <1>2, DatabaseGoes DEF Database!DbMonStartHandler, Database!history, Database!Running
  <2>2. Database!TickIsExact
    BY <1>2 DEF Database!DbMonStartHandler, Database!TickIsExact, Database!IInv, Database!TypeOK
  <2> QED BY <2>1, <2>2
<1>3. CASE Database!Start(m)
  <2>1. Database!IInv'
    BY <1>3, DatabaseGoes DEF Database!Start, Database!history, Database!Running
  <2>2. Database!TickIsExact
    BY <1>3 DEF Database!Start, Database!TickIsExact, Database!IInv, Database!TypeOK
  <2> QED BY <2>1, <2>2
<1>4. CASE Database!Dial(m)
  <2>1. CASE v1' = [v1 EXCEPT ![m] = "select"]
    <3>1. Database!IInv'
      BY <1>4, <2>1, DatabaseGoes DEF Database!Dial, Database!history, Database!Running
    <3>2. Database!TickIsExact
      BY <1>4, <2>1 DEF Database!Dial, Database!TickIsExact, Database!IInv, Database!TypeOK
    <3> QED BY <3>1, <3>2
  <2>2. CASE UNCHANGED v1
    <3>1. UNCHANGED <<v1, v2, v3, v4, v6, v7>>
      BY <1>4, <2>2 DEF Database!Dial, Database!history
    <3> QED BY <3>1 DEF Database!IInv, Database!TypeOK, Database!Tallied, Database!FlagHasMonitor,
               Database!TickIsExact
  <2> QED BY <1>4, <2>1, <2>2 DEF Database!Dial
<1>5. CASE Database!Tick(m)
  <2>1. Database!TickIsExact
    BY <1>5 DEF Database!Tick, Database!TickIsExact, Database!IInv, Database!TypeOK
  <2> QED BY <1>5, <2>1, DatabaseTick
<1>6. CASE Database!Ping(m)
  <2>1. Database!TickIsExact
    BY <1>6 DEF Database!Ping, Database!TickIsExact
  <2> QED BY <1>6, <2>1, DatabasePing
<1>7. CASE Database!Check(m)
  <2>1. /\ v1[m] = "ping" /\ v2[m] = 0 /\ UNCHANGED <<v2, v3, v6, v7>>
        /\ \/ v3[m] = pingCount /\ v1' = [v1 EXCEPT ![m] = "exited"] /\ v4' = 0
           \/ v3[m] # pingCount /\ v1' = [v1 EXCEPT ![m] = "select"] /\ v4' = v4
    BY <1>7 DEF Database!Check, Database!history
  <2>2. Database!IInv'
    BY <2>1, DatabaseGoes
  <2>3. Database!TickIsExact
    <3> SUFFICES ASSUME NEW n \in Reqs, v1[n] = "ping", v1'[n] # "ping", v6[n]
                 PROVE  v1'[n] = "exited" <=> ~v7[n]
      BY DEF Database!TickIsExact
    <3>1. n = m /\ (v1'[m] = "exited" <=> v3[m] = pingCount)
      BY <2>1 DEF Database!IInv, Database!TypeOK
    <3>2. v3[m] + v2[m] <= pingCount /\ (v7[m] <=> v3[m] + v2[m] < pingCount)
      BY <3>1 DEF Database!IInv, Database!Tallied
    <3>3. v3[m] \in Nat /\ v2[m] = 0 /\ pingCount \in Nat
      BY <2>1, PartsAssumption DEF Database!IInv, Database!TypeOK
    <3> QED BY <3>1, <3>2, <3>3
  <2> QED BY <2>2, <2>3
<1> QED BY <1>1, <1>2, <1>3, <1>4, <1>5, <1>6, <1>7 DEF Database!Monitor

-----------------------------------------------------------------------------
(* The handlers with a pool of PoolSize: /sctl and /qianke/.  What their    *)
(* channel of objects is, and what receiving its head and sending to its    *)
(* end do to the objects in it.                                             *)
Objs  == 1..PoolSize
NoObj == 0

Elems(ch) == {ch[i] : i \in 1..Len(ch)}
NoDup(ch) == \A i, j \in 1..Len(ch) : ch[i] = ch[j] => i = j

\* No object is in the channel twice or held twice, or both, or lost.
Partition(ch, h) ==
  /\ NoDup(ch)
  /\ \A r, s \in Reqs : h[r] = h[s] /\ h[r] # NoObj => r = s
  /\ \A r \in Reqs : h[r] \notin Elems(ch)
  /\ \A o \in Objs : o \in Elems(ch) \/ \E r \in Reqs : h[r] = o

LEMMA TailElement ==
  ASSUME NEW S, NEW s \in Seq(S), s # <<>>
  PROVE  /\ Tail(s) \in Seq(S)
         /\ Head(s) \in S
         /\ Head(s) = s[1]
         /\ Len(s) \in Nat \ {0}
         /\ Len(Tail(s)) = Len(s) - 1
         /\ \A i \in 1..Len(Tail(s)) : Tail(s)[i] = s[i + 1]
  OBVIOUS

LEMMA ReceiveElems ==
  ASSUME NEW S, NEW s \in Seq(S), s # <<>>, NoDup(s)
  PROVE  /\ NoDup(Tail(s))
         /\ Elems(Tail(s)) = Elems(s) \ {Head(s)}
         /\ Head(s) \in Elems(s)
<1>1. NoDup(Tail(s)) /\ Head(s) \in Elems(s)
  BY TailElement DEF NoDup, Elems
<1>2. ASSUME NEW x \in Elems(Tail(s)) PROVE x \in Elems(s) /\ x # Head(s)
  <2>1. PICK i \in 1..Len(Tail(s)) : x = Tail(s)[i]
    BY DEF Elems
  <2>2. x = s[i + 1] /\ i + 1 \in 1..Len(s) /\ i + 1 # 1
    BY <2>1, TailElement
  <2> QED BY <2>2, TailElement DEF Elems, NoDup
<1>3. ASSUME NEW x \in Elems(s), x # Head(s) PROVE x \in Elems(Tail(s))
  <2>1. PICK i \in 1..Len(s) : x = s[i]
    BY DEF Elems
  <2>2. i # 1
    BY <2>1, <1>3, TailElement
  <2>3. (i - 1) \in 1..Len(Tail(s)) /\ Tail(s)[i - 1] = x
    BY <2>1, <2>2, TailElement
  <2> QED BY <2>3 DEF Elems
<1> QED BY <1>1, <1>2, <1>3

LEMMA SendElems ==
  ASSUME NEW S, NEW s \in Seq(S), NEW x \in S
  PROVE  /\ Append(s, x) \in Seq(S)
         /\ Elems(Append(s, x)) = Elems(s) \cup {x}
         /\ NoDup(s) /\ x \notin Elems(s) => NoDup(Append(s, x))
<1>1. /\ Append(s, x) \in Seq(S)
      /\ Len(Append(s, x)) = Len(s) + 1
      /\ Len(s) \in Nat
      /\ \A i \in 1..Len(s) : Append(s, x)[i] = s[i]
      /\ Append(s, x)[Len(s) + 1] = x
  OBVIOUS
<1>2. Elems(Append(s, x)) \subseteq Elems(s) \cup {x}
  BY <1>1 DEF Elems
<1>3. Elems(s) \cup {x} \subseteq Elems(Append(s, x))
  BY <1>1 DEF Elems
<1>4. ASSUME NoDup(s), x \notin Elems(s) PROVE NoDup(Append(s, x))
  BY <1>1, <1>4 DEF Elems, NoDup
<1> QED BY <1>1, <1>2, <1>3, <1>4

LEMMA FullChannel ==
  ASSUME PoolSize \in Nat, NEW ch, ch = [i \in 1..PoolSize |-> i]
  PROVE  ch \in Seq(Objs) /\ NoDup(ch) /\ Elems(ch) = Objs
<1>1. ch \in [1..PoolSize -> Objs]
  BY DEF Objs
<1>2. ch \in Seq(Objs)
  BY <1>1, SeqDef, Zenon
<1>3. Len(ch) = PoolSize
  <2>1. Len(ch) \in Nat /\ DOMAIN ch = 1..Len(ch)
    BY <1>2, LenProperties
  <2>2. 1..Len(ch) = 1..PoolSize
    BY <2>1
  <2>3. \A i \in Nat : (1 <= i /\ i <= Len(ch)) <=> (1 <= i /\ i <= PoolSize)
    <3> SUFFICES ASSUME NEW i \in Nat PROVE i \in 1..Len(ch) <=> i \in 1..PoolSize
      OBVIOUS
    <3> QED BY <2>2
  <2> QED BY <2>1, <2>3
<1> QED BY <1>2, <1>3 DEF NoDup, Elems, Objs

LEMMA FullPartition ==
  ASSUME PoolSize \in Nat
  PROVE  Partition([i \in 1..PoolSize |-> i], [r \in Reqs |-> NoObj])
<1>1. NoObj \notin Objs
  BY DEF Objs, NoObj
<1> QED BY <1>1, FullChannel DEF Partition

LEMMA ReceivePartition ==
  ASSUME NEW ch \in Seq(Objs), ch # <<>>, NEW h \in [Reqs -> Objs \cup {NoObj}],
         Partition(ch, h), NEW r \in Reqs, h[r] = NoObj
  PROVE  Partition(Tail(ch), [h EXCEPT ![r] = Head(ch)])
<1> DEFINE now == [h EXCEPT ![r] = Head(ch)]
<1>1. /\ NoDup(Tail(ch)) /\ Elems(Tail(ch)) = Elems(ch) \ {Head(ch)}
      /\ Head(ch) \in Elems(ch) /\ Head(ch) \in Objs
  BY ReceiveElems, TailElement DEF Partition
<1>2. \A s \in Reqs : now[s] = IF s = r THEN Head(ch) ELSE h[s]
  OBVIOUS
<1>3. ASSUME NEW o \in Objs, o \notin Elems(Tail(ch)) PROVE \E s \in Reqs : now[s] = o
  <2>1. CASE o = Head(ch)
    BY <1>2, <2>1
  <2>2. CASE o # Head(ch)
    <3>1. PICK s \in Reqs : h[s] = o
      BY <1>1, <1>3, <2>2 DEF Partition
    <3>2. s # r
      BY <3>1 DEF Objs, NoObj
    <3> QED BY <1>2, <3>1, <3>2
  <2> QED BY <2>1, <2>2
<1>4. \A s \in Reqs : now[s] \notin Elems(Tail(ch))
  BY <1>1, <1>2 DEF Partition
<1>5. \A s, q \in Reqs : now[s] = now[q] /\ now[s] # NoObj => s = q
  BY <1>1, <1>2 DEF Partition
<1> QED BY <1>1, <1>3, <1>4, <1>5 DEF Partition

LEMMA SendPartition ==
  ASSUME NEW ch \in Seq(Objs), NEW h \in [Reqs -> Objs \cup {NoObj}],
         Partition(ch, h), NEW r \in Reqs, h[r] # NoObj
  PROVE  /\ Append(ch, h[r]) \in Seq(Objs)
         /\ Elems(Append(ch, h[r])) = Elems(ch) \cup {h[r]}
         /\ Partition(Append(ch, h[r]), [h EXCEPT ![r] = NoObj])
<1> DEFINE now == [h EXCEPT ![r] = NoObj]
           sent == Append(ch, h[r])
<1>1. h[r] \in Objs /\ h[r] \notin Elems(ch)
  BY DEF Partition
<1>2. sent \in Seq(Objs) /\ NoDup(sent) /\ Elems(sent) = Elems(ch) \cup {h[r]}
  BY <1>1, SendElems DEF Partition
<1>3. \A s \in Reqs : now[s] = IF s = r THEN NoObj ELSE h[s]
  OBVIOUS
<1>4. NoObj \notin Elems(sent)
  <2>1. \A i \in 1..Len(sent) : sent[i] \in Objs
    BY <1>2
  <2> QED BY <2>1 DEF Elems, Objs, NoObj
<1> HIDE DEF now, sent
<1>5. \A o \in Objs : o \in Elems(sent) \/ \E s \in Reqs : now[s] = o
  BY <1>2, <1>3 DEF Partition
<1>6. \A s \in Reqs : now[s] \notin Elems(sent)
  BY <1>1, <1>2, <1>3, <1>4 DEF Partition
<1>7. \A s, q \in Reqs : now[s] = now[q] /\ now[s] # NoObj => s = q
  BY <1>3 DEF Partition
<1> QED BY <1>2, <1>5, <1>6, <1>7 DEF Partition, now, sent

ServiceStages == [r \in Reqs |-> Service!Stage(r)]
UsersStages   == [r \in Reqs |-> Users!Stage(r)]

ServiceInv == Service!IInv /\ Partition(v1, v3)
UsersInv   == Users!IInv /\ Partition(v1, v2)

LEMMA SameObjs ==
  /\ Objs = Service!Objs /\ NoObj = Service!NoObj
  /\ Objs = Users!Objs /\ NoObj = Users!NoObj
  /\ NoObj \notin Objs /\ PoolSize \in Nat
BY PartsAssumption DEF Objs, NoObj, Service!Objs, Service!NoObj, Users!Objs, Users!NoObj

LEMMA ServiceInit == Service!Init => ServiceInv /\ Service!Pool!Init
<1> SUFFICES ASSUME Service!Init PROVE ServiceInv /\ Service!Pool!Init
  OBVIOUS
<1>1. v1 = [i \in 1..PoolSize |-> i] /\ v3 = [r \in Reqs |-> NoObj]
  BY DEF Service!Init, Service!Objs, Service!NoObj, NoObj
<1>2. v1 \in Seq(Objs) /\ Elems(v1) = Objs /\ Partition(v1, v3)
  BY <1>1, FullChannel, FullPartition, SameObjs
<1>3. Service!TypeOK
  BY <1>2, SameObjs DEF Service!Init, Service!TypeOK
<1>4. Service!Holders /\ Service!RanAsSent
  BY DEF Service!Init, Service!Holders, Service!Stage, Service!RanAsSent
<1>5. ServiceStages = [r \in Reqs |-> "outside"]
  BY DEF Service!Init, ServiceStages, Service!Stage
<1>6. Service!Pool!Init
  BY <1>1, <1>2, <1>5 DEF Service!Pool!Init, Service!Pool!Objs, Service!Pool!NoObj, Objs, NoObj,
     Elems, ServiceStages
<1> QED BY <1>2, <1>3, <1>4, <1>6 DEF ServiceInv, Service!IInv

\* A request that does nothing to the pool or the objects.
LEMMA ServiceReads ==
  ASSUME ServiceInv, NEW r \in Reqs, Service!ReadBody(r)
  PROVE  ServiceInv' /\ (Service!Pool!Refuse(r) \/ UNCHANGED Service!Pool!poolVars)
<1>1. PICK at \in {"get", "done"} : v5' = [v5 EXCEPT ![r] = at]
  BY DEF Service!ReadBody, Service!Goto
<1>2. v5[r] = "read" /\ UNCHANGED <<v1, v2, v3, v4, v6>>
  BY DEF Service!ReadBody
<1>3. v5 \in [Reqs -> {"read", "get", "decode", "recycle", "done"}]
  BY DEF ServiceInv, Service!IInv, Service!TypeOK
<1>4. /\ ServiceStages[r] = "outside"
      /\ ServiceStages' = IF at = "get" THEN ServiceStages ELSE [ServiceStages EXCEPT ![r] = "left"]
  BY <1>1, <1>2, <1>3 DEF ServiceStages, Service!Stage
<1>5. Service!TypeOK' /\ Service!RanAsSent'
  BY <1>1, <1>2 DEF ServiceInv, Service!IInv, Service!TypeOK, Service!RanAsSent
<1>6. Service!Holders'
  BY <1>1, <1>2, <1>3 DEF ServiceInv, Service!IInv, Service!Holders, Service!Stage
<1>7. Service!Pool!Refuse(r) \/ UNCHANGED Service!Pool!poolVars
  BY <1>2, <1>4 DEF Service!Pool!Refuse, Service!Pool!poolVars, ServiceStages
<1> QED BY <1>2, <1>5, <1>6, <1>7 DEF ServiceInv, Service!IInv

LEMMA ServiceReceives ==
  ASSUME ServiceInv, NEW r \in Reqs, Service!GetAvalibleReq(r)
  PROVE  ServiceInv' /\ Service!Pool!Acquire(r)
<1>1. /\ v5[r] = "get" /\ v1 # <<>> /\ v3' = [v3 EXCEPT ![r] = Head(v1)] /\ v1' = Tail(v1)
      /\ v5' = [v5 EXCEPT ![r] = "decode"] /\ UNCHANGED <<v2, v4, v6>>
  BY DEF Service!GetAvalibleReq, Service!Goto
<1>2. /\ v5 \in [Reqs -> {"read", "get", "decode", "recycle", "done"}]
      /\ v1 \in Seq(Objs) /\ v3 \in [Reqs -> Objs \cup {NoObj}]
      /\ v3[r] = NoObj /\ Partition(v1, v3) /\ NoDup(v1)
  BY <1>1, SameObjs DEF ServiceInv, Service!IInv, Service!TypeOK, Service!Holders, Service!Stage,
     Partition
<1>3. /\ Tail(v1) \in Seq(Objs) /\ Head(v1) \in Objs
      /\ Head(v1) \in Elems(v1) /\ Elems(Tail(v1)) = Elems(v1) \ {Head(v1)}
  BY <1>1, <1>2, TailElement, ReceiveElems
<1>4. Partition(v1, v3)'
  BY <1>1, <1>2, ReceivePartition
<1>5. Service!TypeOK'
  BY <1>1, <1>3, SameObjs DEF ServiceInv, Service!IInv, Service!TypeOK
<1>6. Service!Holders'
  BY <1>1, <1>2, <1>3, SameObjs DEF ServiceInv, Service!IInv, Service!Holders, Service!Stage
<1>7. Service!RanAsSent'
  BY <1>1 DEF ServiceInv, Service!IInv, Service!RanAsSent
<1>8. ServiceStages[r] = "outside" /\ ServiceStages' = [ServiceStages EXCEPT ![r] = "inside"]
  BY <1>1, <1>2 DEF ServiceStages, Service!Stage
<1>9. Service!Pool!Acquire(r)
  <2>1. /\ Head(v1) \in Elems(v1) /\ Elems(v1') = Elems(v1) \ {Head(v1)}
        /\ v3' = [v3 EXCEPT ![r] = Head(v1)]
    BY <1>1, <1>3
  <2>2. \E o \in Elems(v1) : v3' = [v3 EXCEPT ![r] = o] /\ Elems(v1') = Elems(v1) \ {o}
    BY <2>1
  <2> QED BY <2>2, <1>8 DEF Service!Pool!Acquire, Elems, ServiceStages
<1> QED BY <1>4, <1>5, <1>6, <1>7, <1>9 DEF ServiceInv, Service!IInv

\* What runs is what the object names once this body is merged into it.
LEMMA ServiceDecodes ==
  ASSUME ServiceInv, NEW r \in Reqs, Service!Decode(r)
  PROVE  ServiceInv' /\ UNCHANGED Service!Pool!poolVars
<1> DEFINE now == Service!Merge(v2[v3[r]], v4[r].op)
<1>1. /\ v5[r] = "decode" /\ v2' = [v2 EXCEPT ![v3[r]] = now]
      /\ v6' = [v6 EXCEPT ![r] = IF ~v4[r].bad /\ now \in Service!Handlers THEN now ELSE ""]
      /\ v5' = [v5 EXCEPT ![r] = "recycle"] /\ UNCHANGED <<v1, v3, v4>>
  BY DEF Service!Decode, Service!Goto
<1>2. /\ v5 \in [Reqs -> {"read", "get", "decode", "recycle", "done"}]
      /\ DOMAIN v6 = Reqs /\ DOMAIN v2 = Service!Objs
  BY DEF ServiceInv, Service!IInv, Service!TypeOK
<1>3. v4[r].op # Absent => now = v4[r].op
  BY DEF Service!Merge
<1> HIDE DEF now
<1>4. Service!TypeOK'
  BY <1>1, <1>2 DEF ServiceInv, Service!IInv, Service!TypeOK
<1>5. Service!Holders'
  BY <1>1, <1>2 DEF ServiceInv, Service!IInv, Service!Holders, Service!Stage
<1>6. Service!RanAsSent'
  <2> SUFFICES ASSUME NEW q \in Reqs, v6'[q] # "", v4[q].op # Absent PROVE v6'[q] = v4[q].op
    BY <1>1 DEF Service!RanAsSent
  <2>1. CASE q = r
    BY <1>1, <1>2, <1>3, <2>1
  <2>2. CASE q # r
    BY <1>1, <1>2, <2>2 DEF ServiceInv, Service!IInv, Service!RanAsSent
  <2> QED BY <2>1, <2>2
<1>7. ServiceStages' = ServiceStages
  BY <1>1, <1>2 DEF ServiceStages, Service!Stage
<1>8. UNCHANGED Service!Pool!poolVars
  BY <1>1, <1>7 DEF Service!Pool!poolVars, ServiceStages
<1> QED BY <1>1, <1>4, <1>5, <1>6, <1>8 DEF ServiceInv, Service!IInv

LEMMA ServiceRecycles ==
  ASSUME ServiceInv, NEW r \in Reqs, Service!Recycle(r)
  PROVE  ServiceInv' /\ Service!Pool!Release(r)
<1>1. /\ v5[r] = "recycle" /\ v3' = [v3 EXCEPT ![r] = NoObj] /\ v1' = Append(v1, v3[r])
      /\ v5' = [v5 EXCEPT ![r] = "done"] /\ UNCHANGED <<v2, v4, v6>>
  BY SameObjs DEF Service!Recycle, Service!Goto
<1>2. /\ v5 \in [Reqs -> {"read", "get", "decode", "recycle", "done"}]
      /\ v1 \in Seq(Objs) /\ v3 \in [Reqs -> Objs \cup {NoObj}]
      /\ v3[r] # NoObj /\ Partition(v1, v3)
  BY <1>1, SameObjs DEF ServiceInv, Service!IInv, Service!TypeOK, Service!Holders, Service!Stage
<1>3. /\ v1' \in Seq(Objs) /\ Elems(v1') = Elems(v1) \cup {v3[r]}
      /\ Partition(v1, v3)'
  BY <1>1, <1>2, SendPartition
<1>4. Service!TypeOK'
  BY <1>1, <1>3, SameObjs DEF ServiceInv, Service!IInv, Service!TypeOK
<1>5. Service!Holders'
  BY <1>1, <1>2, SameObjs DEF ServiceInv, Service!IInv, Service!Holders, Service!Stage
<1>6. Service!RanAsSent'
  BY <1>1 DEF ServiceInv, Service!IInv, Service!RanAsSent
<1>7. ServiceStages[r] = "inside" /\ ServiceStages' = [ServiceStages EXCEPT ![r] = "left"]
  BY <1>1, <1>2 DEF ServiceStages, Service!Stage
<1>8. Service!Pool!Release(r)
  BY <1>1, <1>3, <1>7 DEF Service!Pool!Release, Service!Pool!NoObj, NoObj, Elems, ServiceStages
<1> QED BY <1>3, <1>4, <1>5, <1>6, <1>8 DEF ServiceInv, Service!IInv

LEMMA ServiceNext ==
  ASSUME ServiceInv, Service!Next
  PROVE  ServiceInv' /\ [Service!Pool!Next]_(Service!Pool!poolVars)
BY ServiceReads, ServiceReceives, ServiceDecodes, ServiceRecycles DEF Service!Next, Service!Pool!Next

LEMMA UsersInit == Users!Init => UsersInv /\ Users!Pool!Init
<1> SUFFICES ASSUME Users!Init PROVE UsersInv /\ Users!Pool!Init
  OBVIOUS
<1>1. v1 = [i \in 1..PoolSize |-> i] /\ v2 = [r \in Reqs |-> NoObj]
  BY DEF Users!Init, Users!Objs, Users!NoObj, NoObj
<1>2. v1 \in Seq(Objs) /\ Elems(v1) = Objs /\ Partition(v1, v2)
  BY <1>1, FullChannel, FullPartition, SameObjs
<1>3. Users!TypeOK
  BY <1>2, SameObjs DEF Users!Init, Users!TypeOK, Users!Steps
<1>4. /\ Users!Holders /\ Users!Answered /\ Users!ToolInPlace /\ Users!RegisteredAsTold
  BY DEF Users!Init, Users!Holders, Users!Stage, Users!Answered, Users!ToolInPlace,
     Users!RegisteredAsTold
<1>5. UsersStages = [r \in Reqs |-> "outside"]
  BY DEF Users!Init, UsersStages, Users!Stage
<1>6. Users!Pool!Init
  BY <1>1, <1>2, <1>5 DEF Users!Pool!Init, Users!Pool!Objs, Users!Pool!NoObj, Objs, NoObj,
     Elems, UsersStages
<1> QED BY <1>2, <1>3, <1>4, <1>6 DEF UsersInv, Users!IInv

LEMMA UsersRefuses ==
  ASSUME UsersInv, NEW r \in Reqs, Users!Refuse(r)
  PROVE  UsersInv' /\ Users!Pool!Refuse(r)
<1>1. /\ v3[r] = "get" /\ v3' = [v3 EXCEPT ![r] = "done"]
      /\ v4' = [v4 EXCEPT ![r] = "forbidden"] /\ UNCHANGED <<v1, v2, v5, v6, v7, v8, v9>>
  BY DEF Users!Refuse, Users!Goto
<1>2. /\ v3 \in [Reqs -> {"get", "handle", "register", "recycle", "done"}]
      /\ v4 \in [Reqs -> {"", "forbidden", "login", "error", "panic", "ok"}]
  BY DEF UsersInv, Users!IInv, Users!TypeOK
<1>3. /\ \A q \in Reqs : v3'[q] = IF q = r THEN "done" ELSE v3[q]
      /\ \A q \in Reqs : v4'[q] = IF q = r THEN "forbidden" ELSE v4[q]
  BY <1>1, <1>2
<1>4. Users!TypeOK'
  BY <1>1 DEF UsersInv, Users!IInv, Users!TypeOK
<1>5. Users!Holders'
  BY <1>1, <1>3 DEF UsersInv, Users!IInv, Users!Holders, Users!Stage
<1>6. Users!Answered'
  <2> SUFFICES ASSUME NEW q \in Reqs, v3'[q] \in {"get", "handle", "register"}
               PROVE  q \notin v7' /\ v4'[q] = ""
    BY DEF Users!Answered
  <2>1. q # r /\ v3[q] \in {"get", "handle", "register"} /\ v4'[q] = v4[q] /\ v7' = v7
    BY <1>1, <1>3
  <2> QED BY <2>1 DEF UsersInv, Users!IInv, Users!Answered
<1>7. Users!ToolInPlace'
  BY <1>1 DEF UsersInv, Users!IInv, Users!ToolInPlace
<1>8. Users!RegisteredAsTold'
  <2>1. r \notin v7
    BY <1>1 DEF UsersInv, Users!IInv, Users!Answered
  <2> QED BY <2>1, <1>1, <1>3 DEF UsersInv, Users!IInv, Users!RegisteredAsTold
<1>9. UsersStages[r] = "outside" /\ UsersStages' = [UsersStages EXCEPT ![r] = "left"]
  BY <1>1, <1>2 DEF UsersStages, Users!Stage
<1>10. Users!Pool!Refuse(r)
  BY <1>1, <1>9 DEF Users!Pool!Refuse, UsersStages
<1> QED BY <1>1, <1>4, <1>5, <1>6, <1>7, <1>8, <1>10 DEF UsersInv, Users!IInv

LEMMA UsersReceives ==
  ASSUME UsersInv, NEW r \in Reqs, Users!GetAvalibleReq(r)
  PROVE  UsersInv' /\ Users!Pool!Acquire(r)
<1>1. /\ v3[r] = "get" /\ v1 # <<>> /\ v2' = [v2 EXCEPT ![r] = Head(v1)] /\ v1' = Tail(v1)
      /\ v3' = [v3 EXCEPT ![r] = "handle"] /\ UNCHANGED <<v4, v5, v6, v7, v8, v9>>
  BY DEF Users!GetAvalibleReq, Users!Goto
<1>2. /\ v3 \in [Reqs -> {"get", "handle", "register", "recycle", "done"}]
      /\ v1 \in Seq(Objs) /\ v2 \in [Reqs -> Objs \cup {NoObj}]
      /\ v2[r] = NoObj /\ Partition(v1, v2) /\ NoDup(v1)
  BY <1>1, SameObjs DEF UsersInv, Users!IInv, Users!TypeOK, Users!Holders, Users!Stage,
     Partition
<1>3. /\ Tail(v1) \in Seq(Objs) /\ Head(v1) \in Objs
      /\ Head(v1) \in Elems(v1) /\ Elems(Tail(v1)) = Elems(v1) \ {Head(v1)}
  BY <1>1, <1>2, TailElement, ReceiveElems
<1>4. Partition(v1, v2)'
  BY <1>1, <1>2, ReceivePartition
<1>5. Users!TypeOK'
  BY <1>1, <1>3, SameObjs DEF UsersInv, Users!IInv, Users!TypeOK
<1>6. Users!Holders'
  BY <1>1, <1>2, <1>3, SameObjs DEF UsersInv, Users!IInv, Users!Holders, Users!Stage
<1>7. Users!Answered'
  BY <1>1, <1>2 DEF UsersInv, Users!IInv, Users!Answered
<1>8. Users!ToolInPlace' /\ Users!RegisteredAsTold'
  BY <1>1 DEF UsersInv, Users!IInv, Users!ToolInPlace, Users!RegisteredAsTold
<1>9. UsersStages[r] = "outside" /\ UsersStages' = [UsersStages EXCEPT ![r] = "inside"]
  BY <1>1, <1>2 DEF UsersStages, Users!Stage
<1>10. Users!Pool!Acquire(r)
  <2>1. /\ Head(v1) \in Elems(v1) /\ Elems(v1') = Elems(v1) \ {Head(v1)}
        /\ v2' = [v2 EXCEPT ![r] = Head(v1)]
    BY <1>1, <1>3
  <2>2. \E o \in Elems(v1) : v2' = [v2 EXCEPT ![r] = o] /\ Elems(v1') = Elems(v1) \ {o}
    BY <2>1
  <2> QED BY <2>2, <1>9 DEF Users!Pool!Acquire, Elems, UsersStages
<1> QED BY <1>4, <1>5, <1>6, <1>7, <1>8, <1>10 DEF UsersInv, Users!IInv

\* A request with an object gets on: to register, or to its answer, and then
\* its row is in the table if that is "ok", and not unless its answer is lost.
LEMMA UsersGets ==
  ASSUME UsersInv, NEW r \in Reqs, v3[r] \in {"handle", "register"},
         NEW at \in {"register", "recycle"}, v3' = [v3 EXCEPT ![r] = at],
         NEW what \in {"", "login", "error", "panic", "ok"}, v4' = [v4 EXCEPT ![r] = what],
         at = "register" => what = "" /\ v7' = v7,
         v7' \in {v7, v7 \cup {r}}, v9' \in {v9, v9 \cup {r}},
         v7' # v7 => what = "ok" \/ r \in v9',
         what = "ok" => r \in v7',
         UNCHANGED <<v1, v2, v5, v6, v8>>
  PROVE  UsersInv' /\ UNCHANGED Users!Pool!poolVars
<1>1. /\ v3 \in [Reqs -> {"get", "handle", "register", "recycle", "done"}]
      /\ v4 \in [Reqs -> {"", "forbidden", "login", "error", "panic", "ok"}]
  BY DEF UsersInv, Users!IInv, Users!TypeOK
<1>2. /\ \A q \in Reqs : v3'[q] = IF q = r THEN at ELSE v3[q]
      /\ \A q \in Reqs : v4'[q] = IF q = r THEN what ELSE v4[q]
  BY <1>1
<1>3. r \notin v7 /\ v4[r] = ""
  BY DEF UsersInv, Users!IInv, Users!Answered
<1>4. Users!TypeOK'
  BY DEF UsersInv, Users!IInv, Users!TypeOK
<1>5. Users!Holders'
  BY <1>2 DEF UsersInv, Users!IInv, Users!Holders, Users!Stage
<1>6. Users!Answered'
  BY <1>2, <1>3 DEF UsersInv, Users!IInv, Users!Answered
<1>7. Users!ToolInPlace'
  BY DEF UsersInv, Users!IInv, Users!ToolInPlace
<1>8. Users!RegisteredAsTold'
  <2>1. ASSUME NEW q \in Reqs, q \notin v9' PROVE v4'[q] = "ok" <=> q \in v7'
    <3>1. CASE q = r
      BY <1>2, <1>3, <2>1, <3>1
    <3>2. CASE q # r
      BY <1>2, <2>1, <3>2 DEF UsersInv, Users!IInv, Users!RegisteredAsTold
    <3> QED BY <3>1, <3>2
  <2>2. v8'.step = "done" /\ ~v8'.moved => "qianke" \in v6'
    BY DEF UsersInv, Users!IInv, Users!RegisteredAsTold
  <2> QED BY <2>1, <2>2 DEF Users!RegisteredAsTold
<1>9. UsersStages' = UsersStages
  BY <1>1, <1>2 DEF UsersStages, Users!Stage
<1>10. UNCHANGED Users!Pool!poolVars
  BY <1>9 DEF Users!Pool!poolVars, UsersStages
<1> QED BY <1>4, <1>5, <1>6, <1>7, <1>8, <1>10 DEF UsersInv, Users!IInv

LEMMA UsersHandles ==
  ASSUME UsersInv, NEW r \in Reqs, Users!Handle(r) \/ Users!RegisterUser(r)
  PROVE  UsersInv' /\ UNCHANGED Users!Pool!poolVars
<1>1. CASE Users!Handle(r)
  <2>1. v3[r] = "handle" /\ v4 = [v4 EXCEPT ![r] = ""]
    BY <1>1 DEF Users!Handle, UsersInv, Users!IInv, Users!TypeOK, Users!Answered
  <2>2. UNCHANGED <<v1, v2, v5, v6, v7, v8, v9>>
    BY <1>1 DEF Users!Handle
  <2>3. CASE Users!AnswerWith(r, "login")
    BY <2>1, <2>2, <2>3, UsersGets DEF Users!AnswerWith, Users!Goto
  <2>4. CASE Users!AnswerWith(r, "error")
    BY <2>1, <2>2, <2>4, UsersGets DEF Users!AnswerWith, Users!Goto
  <2>5. CASE Users!Goto(r, "register") /\ UNCHANGED v4
    BY <2>1, <2>2, <2>5, UsersGets DEF Users!Goto
  <2> QED BY <1>1, <2>3, <2>4, <2>5 DEF Users!Handle
<1>2. CASE Users!RegisterUser(r)
  <2>1. v3[r] = "register" /\ UNCHANGED <<v1, v2, v5, v6, v8>>
    BY <1>2 DEF Users!RegisterUser
  <2>2. CASE Users!InsertFails(r)
    BY <2>1, <2>2, UsersGets DEF Users!InsertFails, Users!AnswerWith, Users!Goto
  <2>3. CASE Users!PanicOnNoRow(r)
    BY <2>1, <2>3, UsersGets DEF Users!PanicOnNoRow, Users!AnswerWith, Users!Goto
  <2>4. CASE v7' = v7 \cup {r} /\ Users!AnswerWith(r, "ok") /\ UNCHANGED v9
    BY <2>1, <2>4, UsersGets DEF Users!AnswerWith, Users!Goto
  <2>5. CASE v7' = v7 \cup {r} /\ Users!AnswerWith(r, "error") /\ v9' = v9 \cup {r}
    BY <2>1, <2>5, UsersGets DEF Users!AnswerWith, Users!Goto
  <2> QED BY <1>2, <2>2, <2>3, <2>4, <2>5 DEF Users!RegisterUser
<1> QED BY <1>1, <1>2

LEMMA UsersRecycles ==
  ASSUME UsersInv, NEW r \in Reqs, Users!Recycle(r)
  PROVE  UsersInv' /\ Users!Pool!Release(r)
<1>1. /\ v3[r] = "recycle" /\ v2' = [v2 EXCEPT ![r] = NoObj] /\ v1' = Append(v1, v2[r])
      /\ v3' = [v3 EXCEPT ![r] = "done"] /\ UNCHANGED <<v4, v5, v6, v7, v8, v9>>
  BY SameObjs DEF Users!Recycle, Users!Goto
<1>2. /\ v3 \in [Reqs -> {"get", "handle", "register", "recycle", "done"}]
      /\ v1 \in Seq(Objs) /\ v2 \in [Reqs -> Objs \cup {NoObj}]
      /\ v2[r] # NoObj /\ Partition(v1, v2)
  BY <1>1, SameObjs DEF UsersInv, Users!IInv, Users!TypeOK, Users!Holders, Users!Stage
<1>3. /\ v1' \in Seq(Objs) /\ Elems(v1') = Elems(v1) \cup {v2[r]}
      /\ Partition(v1, v2)'
  BY <1>1, <1>2, SendPartition
<1>4. Users!TypeOK'
  BY <1>1, <1>3, SameObjs DEF UsersInv, Users!IInv, Users!TypeOK
<1>5. Users!Holders'
  BY <1>1, <1>2, SameObjs DEF UsersInv, Users!IInv, Users!Holders, Users!Stage
<1>6. Users!Answered'
  BY <1>1, <1>2 DEF UsersInv, Users!IInv, Users!Answered
<1>7. Users!ToolInPlace' /\ Users!RegisteredAsTold'
  BY <1>1 DEF UsersInv, Users!IInv, Users!ToolInPlace, Users!RegisteredAsTold
<1>8. UsersStages[r] = "inside" /\ UsersStages' = [UsersStages EXCEPT ![r] = "left"]
  BY <1>1, <1>2 DEF UsersStages, Users!Stage
<1>9. Users!Pool!Release(r)
  BY <1>1, <1>3, <1>8 DEF Users!Pool!Release, Users!Pool!NoObj, NoObj, Elems, UsersStages
<1> QED BY <1>3, <1>4, <1>5, <1>6, <1>7, <1>9 DEF UsersInv, Users!IInv

\* The tool and Uninit leave the requests alone; a drop loses its rows.
LEMMA UsersTool ==
  ASSUME UsersInv, Users!ToolStep \/ Users!Reconnect \/ Users!Uninit
  PROVE  UsersInv' /\ UNCHANGED Users!Pool!poolVars
<1>1. /\ UNCHANGED <<v1, v2, v3, v4>>
      /\ (v7' = v7 /\ v9' = v9) \/ (v7' = {} /\ v9' = v9 \cup v7)
  BY DEF Users!ToolStep, Users!Reconnect, Users!Uninit
<1>2. v8 \in [step : Users!Steps, in : {"mysql", "qianke"}, moved : BOOLEAN]
  BY DEF UsersInv, Users!IInv, Users!TypeOK
<1>3. /\ v8' \in [step : Users!Steps, in : {"mysql", "qianke"}, moved : BOOLEAN]
      /\ Users!ToolInPlace'
  <2>1. CASE Users!Uninit
    BY <2>1 DEF Users!Uninit, UsersInv, Users!IInv, Users!TypeOK, Users!ToolInPlace
  <2>2. CASE Users!Reconnect
    <3>1. v8' = [v8 EXCEPT !.in = "mysql", !.moved = TRUE]
      BY <2>2 DEF Users!Reconnect
    <3> QED BY <1>2, <3>1 DEF Users!ToolInPlace
  <2>3. CASE v8' = [v8 EXCEPT !.step = "failed"]
    BY <1>2, <2>3 DEF Users!ToolInPlace, Users!Steps
  <2>4. CASE /\ v8.step \notin {"done", "failed"}
             /\ v8' = [v8 EXCEPT !.step = Users!After(@), !.in = IF v8.step = "use" THEN "qianke" ELSE @]
             /\ v6' = CASE v8.step = "drop" -> v6 \ {v8.in}
                         [] v8.step = "create table" -> v6 \cup {v8.in}
                         [] OTHER -> v6
    <3>1. CASE v8.step = "create database"
      BY <1>2, <2>4, <3>1 DEF Users!ToolInPlace, Users!Steps, Users!After
    <3>2. CASE v8.step = "use"
      BY <1>2, <2>4, <3>2 DEF Users!ToolInPlace, Users!Steps, Users!After
    <3>3. CASE v8.step = "drop"
      BY <1>2, <2>4, <3>3 DEF Users!ToolInPlace, Users!Steps, Users!After, UsersInv, Users!IInv
    <3>4. CASE v8.step = "create table"
      BY <1>2, <2>4, <3>4 DEF Users!ToolInPlace, Users!Steps, Users!After, UsersInv, Users!IInv
    <3> QED BY <1>2, <2>4, <3>1, <3>2, <3>3, <3>4 DEF Users!Steps
  <2> QED BY <2>1, <2>2, <2>3, <2>4 DEF Users!ToolStep
<1>4. Users!TypeOK'
  BY <1>1, <1>3 DEF UsersInv, Users!IInv, Users!TypeOK
<1>5. Users!Holders'
  BY <1>1 DEF UsersInv, Users!IInv, Users!Holders, Users!Stage
<1>6. Users!Answered'
  BY <1>1 DEF UsersInv, Users!IInv, Users!Answered
<1>7. Users!RegisteredAsTold'
  <2>1. v8'.step = "done" /\ ~v8'.moved => "qianke" \in v6'
    BY <1>3 DEF Users!ToolInPlace
  <2>2. \A q \in Reqs \ v9' : v4'[q] = "ok" <=> q \in v7'
    BY <1>1 DEF UsersInv, Users!IInv, Users!RegisteredAsTold
  <2> QED BY <2>1, <2>2 DEF Users!RegisteredAsTold
<1>8. UNCHANGED Users!Pool!poolVars
  BY <1>1 DEF Users!Pool!poolVars, Users!Stage
<1> QED BY <1>1, <1>3, <1>4, <1>5, <1>6, <1>7, <1>8 DEF UsersInv, Users!IInv

LEMMA UsersNext ==
  ASSUME UsersInv, Users!Next
  PROVE  UsersInv' /\ [Users!Pool!Next]_(Users!Pool!poolVars)
BY UsersRefuses, UsersReceives, UsersHandles, UsersRecycles, UsersTool
   DEF Users!Next, Users!Pool!Next

-----------------------------------------------------------------------------
(* The form of an upload: the list that the loop over its keys makes, and  *)
(* the files it moves.                                                     *)

Entries == (PathKeys \X Nat) \cup {NoPath}

\* A function on 1..n is a sequence of length n.
LEMMA ListSeq ==
  ASSUME NEW S, NEW n \in Nat, NEW f \in [1..n -> S]
  PROVE  f \in Seq(S) /\ Len(f) = n
<1>1. f \in Seq(S)
  BY SeqDef, Zenon
<1> QED BY <1>1, LenProperties

LEMMA FormInit == Form!Init => Form!IInv
<1> SUFFICES ASSUME Form!Init PROVE Form!IInv
  OBVIOUS
<1>1. /\ v1 \in [FormKeys -> 0..MaxValues] /\ Form!InForm # {} /\ v2 = Form!InForm
      /\ v3 = <<>> /\ v4 = FALSE /\ v5 = <<>> /\ v6 = ""
  BY DEF Form!Init
<1>2. <<>> \in Seq(Entries) /\ Len(<<>>) = 0
  OBVIOUS
<1>3. Form!TypeOK
  BY <1>1, <1>2 DEF Form!TypeOK, Entries
<1>4. Form!AllListed
  <2> SUFFICES ASSUME NEW k \in PathKeys, PathKeys \cap Form!InForm = {k} PROVE Form!Listed(k)
    BY DEF Form!AllListed
  <2>1. k \in v2
    BY <1>1
  <2>2. Len(v3) = 0
    BY <1>1
  <2> QED BY <2>1, <2>2 DEF Form!Listed
<1> QED BY <1>3, <1>4 DEF Form!IInv

\* The list after the loop has met key k, with values enough for none to be
\* outside it.
LEMMA FormSets ==
  ASSUME Form!IInv, NEW k \in FormKeys, Form!SetInfos(k)
  PROVE  Form!IInv'
<1> DEFINE len == IF v4 THEN Len(v3) ELSE v1[k]
           list == [i \in 1..len |-> IF k \in PathKeys /\ i <= v1[k] THEN <<k, i>>
                                     ELSE IF v4 THEN v3[i] ELSE NoPath]
<1>1. /\ v6 = "" /\ k \in v2 /\ v2' = v2 \ {k} /\ v4' = TRUE /\ v1' = v1 /\ v5' = v5
      /\ \/ v1[k] > len /\ v6' = "panic" /\ v3' = v3
         \/ ~(v1[k] > len) /\ v3' = list /\ v6' = ""
  BY DEF Form!SetInfos
<1>2. /\ v1 \in [FormKeys -> 0..MaxValues] /\ v2 \subseteq Form!InForm /\ Form!InForm # {}
      /\ v3 \in Seq(Entries) /\ v5 \in Seq(Entries)
      /\ v4 <=> v2 # Form!InForm
      /\ v5 = <<>>
  BY <1>1 DEF Form!IInv, Form!TypeOK, Entries
<1>3. v1[k] \in Nat /\ len \in Nat /\ Len(v3) \in Nat
  BY <1>2, PartsAssumption
<1>4. Form!InForm' = Form!InForm
  BY <1>1 DEF Form!InForm
<1>5. list \in Seq(Entries) /\ Len(list) = len
  <2>1. ASSUME NEW i \in 1..len PROVE list[i] \in Entries
    <3>1. CASE k \in PathKeys /\ i <= v1[k]
      BY <1>3, <3>1 DEF Entries
    <3>2. CASE ~(k \in PathKeys /\ i <= v1[k]) /\ v4
      <4>1. len = Len(v3)
        BY <3>2
      <4> QED BY <1>2, <3>2, <4>1
    <3>3. CASE ~(k \in PathKeys /\ i <= v1[k]) /\ ~v4
      BY <3>3 DEF Entries
    <3> QED BY <3>1, <3>2, <3>3
  <2>2. list \in [1..len -> Entries]
    BY <2>1
  <2> HIDE DEF list, len
  <2> QED BY <1>3, <2>2, ListSeq
<1>6. k \notin v2' /\ v2' # Form!InForm /\ v2' \subseteq Form!InForm
  BY <1>1, <1>2
<1>7. Form!TypeOK'
  <2>1. v3' \in Seq(Entries) /\ v5' \in Seq(Entries)
    BY <1>1, <1>2, <1>5
  <2>2. v6' \in {"", "panic"} /\ v4' /\ v5' = <<>> /\ v1' \in [FormKeys -> 0..MaxValues]
    BY <1>1, <1>2
  <2> QED BY <2>1, <2>2, <1>2, <1>4, <1>6 DEF Form!TypeOK, Entries
<1>8. Form!AllListed'
  <2> SUFFICES ASSUME v6' # "panic", NEW p \in PathKeys, PathKeys \cap Form!InForm = {p}
               PROVE  Form!Listed(p)'
    BY <1>4 DEF Form!AllListed
  <2>1. ~(v1[k] > len) /\ v3' = list /\ v5' = <<>> /\ v1' = v1 /\ v2' = v2 \ {k}
    BY <1>1, <1>2
  <2>2. v1[k] <= len
    BY <2>1, <1>3
  <2>3. Form!Listed(p)
    BY <1>1 DEF Form!IInv, Form!AllListed
  <2>4. p \in Form!InForm /\ v1[p] \in Nat
    BY <1>2, PartsAssumption DEF Form!InForm
  <2>5. CASE p = k
    <3>1. p \notin v2' /\ p \in v2
      BY <1>1, <1>6, <2>5
    <3>2. \A i \in 1..Len(v3) : v3[i] = NoPath
      BY <2>3, <3>1 DEF Form!Listed
    <3>3. ASSUME NEW i \in 1..len PROVE list[i] = IF i <= v1[p] THEN <<p, i>> ELSE NoPath
      <4>1. CASE i <= v1[p]
        BY <2>5, <4>1
      <4>2. CASE ~(i <= v1[p]) /\ v4
        BY <2>5, <3>2, <4>2
      <4>3. CASE ~(i <= v1[p]) /\ ~v4
        BY <2>5, <4>3
      <4> QED BY <4>1, <4>2, <4>3
    <3>4. Len(v5') = 0
      BY <2>1
    <3>5. Len(v3') = len /\ \A i \in 1..Len(v3') : v3'[i] = IF i <= v1[p] THEN <<p, i>> ELSE NoPath
      BY <2>1, <3>3, <1>5
    <3> HIDE DEF len, list
    <3>6. /\ Len(v5') <= v1'[p] /\ v1'[p] <= Len(v5') + Len(v3')
      BY <2>1, <2>2, <2>4, <2>5, <1>3, <3>4, <3>5
    <3>7. \A i \in 1..Len(v3') :
             v3'[i] = IF Len(v5') + i <= v1'[p] THEN <<p, Len(v5') + i>> ELSE NoPath
      <4> SUFFICES ASSUME NEW i \in 1..Len(v3')
                   PROVE  v3'[i] = IF Len(v5') + i <= v1'[p] THEN <<p, Len(v5') + i>> ELSE NoPath
        OBVIOUS
      <4>1. Len(v5') + i = i
        BY <3>4
      <4> QED BY <4>1, <3>5, <2>1
    <3>8. \A i \in 1..Len(v5') : v5'[i] = <<p, i>>
      BY <3>4
    <3> QED BY <3>1, <3>6, <3>7, <3>8 DEF Form!Listed
  <2>6. CASE p # k
    <3>1. k \notin PathKeys
      BY <1>1, <1>2, <2>6
    <3>2. \A i \in 1..len : list[i] = IF v4 THEN v3[i] ELSE NoPath
      BY <3>1
    <3>3. CASE ~v4
      <4>1. p \in v2'
        BY <1>1, <1>2, <2>4, <2>6, <3>3
      <4>2. \A i \in 1..Len(v3') : v3'[i] = NoPath
        BY <2>1, <3>2, <3>3, <1>5
      <4> QED BY <4>1, <4>2 DEF Form!Listed
    <3>4. CASE v4
      <4>1. Len(v3') = Len(v3) /\ \A i \in 1..Len(v3') : v3'[i] = v3[i]
        BY <2>1, <3>2, <3>4, <1>5
      <4>2. p \in v2' <=> p \in v2
        BY <2>1, <2>6
      <4>3. Len(v5') = Len(v5) /\ v5' = v5
        BY <1>1
      <4> HIDE DEF len, list
      <4> QED BY <4>1, <4>2, <4>3, <2>1, <2>3 DEF Form!Listed
    <3> QED BY <3>3, <3>4
  <2> QED BY <2>5, <2>6
<1> QED BY <1>7, <1>8 DEF Form!IInv

LEMMA FormMoves ==
  ASSUME Form!IInv, Form!Move
  PROVE  Form!IInv'
<1>1. /\ v1 \in [FormKeys -> 0..MaxValues] /\ v2 \subseteq Form!InForm /\ Form!InForm # {}
      /\ v3 \in Seq(Entries) /\ v5 \in Seq(Entries)
      /\ v4 <=> v2 # Form!InForm
      /\ v6 = "" /\ v2 = {} /\ v1' = v1 /\ v2' = v2 /\ v4' = v4
  BY DEF Form!IInv, Form!TypeOK, Entries, Form!Move
<1>2. Form!InForm' = Form!InForm
  BY <1>1 DEF Form!InForm
<1>3. CASE v6' \in {"ok", "error"} /\ v3' = v3 /\ v5' = v5 /\ (v6' = "ok" => v3 = <<>>)
  <2>1. Form!TypeOK'
    BY <1>1, <1>2, <1>3 DEF Form!IInv, Form!TypeOK, Entries
  <2>2. Form!AllListed'
    BY <1>1, <1>2, <1>3 DEF Form!IInv, Form!AllListed, Form!Listed
  <2> QED BY <2>1, <2>2 DEF Form!IInv
<1>4. CASE v3 # <<>> /\ Head(v3) # NoPath /\ v3' = Tail(v3) /\ v5' = Append(v5, Head(v3)) /\ v6' = v6
  <2>1. /\ v3' \in Seq(Entries) /\ Head(v3) \in Entries /\ Head(v3) = v3[1]
        /\ Len(v3) \in Nat \ {0} /\ Len(v3') = Len(v3) - 1
        /\ \A i \in 1..Len(v3') : v3'[i] = v3[i + 1]
    BY <1>1, <1>4, TailElement
  <2>2. /\ v5' \in Seq(Entries) /\ Len(v5) \in Nat /\ Len(v5') = Len(v5) + 1
        /\ \A i \in 1..Len(v5) : v5'[i] = v5[i]
        /\ v5'[Len(v5) + 1] = Head(v3)
    <3>1. v5' = Append(v5, Head(v3)) /\ v5 \in Seq(Entries) /\ Head(v3) \in Entries
      BY <1>1, <1>4, <2>1
    <3> HIDE DEF Entries
    <3> QED BY <3>1, AppendProperties
  <2>3. v4 /\ v6' = ""
    BY <1>1, <1>4
  <2>4. Form!TypeOK'
    BY <1>1, <1>2, <2>1, <2>2, <2>3 DEF Form!TypeOK, Entries
  <2>5. ASSUME NEW p \in PathKeys, PathKeys \cap Form!InForm = {p} PROVE Form!Listed(p)'
    <3>1. /\ Len(v5) <= v1[p] /\ v1[p] <= Len(v5) + Len(v3)
          /\ \A i \in 1..Len(v5) : v5[i] = <<p, i>>
          /\ \A i \in 1..Len(v3) :
               v3[i] = IF Len(v5) + i <= v1[p] THEN <<p, Len(v5) + i>> ELSE NoPath
      BY <1>1, <2>5 DEF Form!IInv, Form!AllListed, Form!Listed
    <3>2. v1[p] \in Nat
      <4>1. p \in FormKeys /\ MaxValues \in Nat
        BY PartsAssumption
      <4>2. v1 \in [FormKeys -> 0..MaxValues]
        BY <1>1
      <4>3. v1[p] \in 0..MaxValues
        BY <4>1, <4>2
      <4> QED BY <4>1, <4>3
    <3>3. 1 \in 1..Len(v3) /\ v3[1] # NoPath
      BY <1>4, <2>1
    <3>4. Len(v5) + 1 <= v1[p] /\ v3[1] = <<p, Len(v5) + 1>>
      BY <3>1, <3>3
    <3>5. Len(v5') <= v1[p] /\ v1[p] <= Len(v5') + Len(v3')
      BY <2>1, <2>2, <3>1, <3>2, <3>4
    <3>6. ASSUME NEW i \in 1..Len(v5') PROVE v5'[i] = <<p, i>>
      <4>1. CASE i = Len(v5) + 1
        BY <4>1, <2>1, <2>2, <3>4
      <4>2. CASE i # Len(v5) + 1
        <5>1. i \in 1..Len(v5)
          BY <2>2, <4>2
        <5> QED BY <5>1, <2>2, <3>1
      <4> QED BY <4>1, <4>2
    <3>7. ASSUME NEW i \in 1..Len(v3')
          PROVE  v3'[i] = IF Len(v5') + i <= v1[p] THEN <<p, Len(v5') + i>> ELSE NoPath
      <4>1. i + 1 \in 1..Len(v3) /\ Len(v5) + (i + 1) = Len(v5') + i
        BY <2>1, <2>2
      <4>2. v3'[i] = v3[i + 1]
        BY <2>1
      <4> QED BY <4>1, <4>2, <3>1
    <3>8. p \notin v2' /\ v1' = v1
      BY <1>1
    <3> QED BY <3>5, <3>6, <3>7, <3>8 DEF Form!Listed
  <2>6. Form!AllListed'
    BY <1>2, <2>5 DEF Form!AllListed
  <2> QED BY <2>4, <2>6 DEF Form!IInv
<1> QED BY <1>3, <1>4 DEF Form!Move

LEMMA FormNext == Form!IInv /\ Form!Next => Form!IInv'
BY FormSets, FormMoves DEF Form!Next

\* The list is used up, so all values of the one path key are in what is moved.
LEMMA FormMovesAll == Form!IInv => Form!OkMovesAll
<1> SUFFICES ASSUME Form!IInv, v6 = "ok", NEW k \in PathKeys, PathKeys \cap Form!InForm = {k}
             PROVE  v5 = [i \in 1..v1[k] |-> <<k, i>>]
  BY DEF Form!OkMovesAll
<1>1. v2 = {} /\ v3 = <<>> /\ v5 \in Seq(Entries) /\ v1 \in [FormKeys -> 0..MaxValues]
  BY DEF Form!IInv, Form!TypeOK, Entries
<1>2. Form!Listed(k) /\ Len(v3) = 0
  BY <1>1 DEF Form!IInv, Form!AllListed
<1>3. /\ Len(v5) <= v1[k] /\ v1[k] <= Len(v5) + Len(v3)
      /\ \A i \in 1..Len(v5) : v5[i] = <<k, i>>
  BY <1>1, <1>2 DEF Form!Listed
<1>4. Len(v5) \in Nat /\ v1[k] \in Nat
  BY <1>1, PartsAssumption
<1>5. Len(v5) = v1[k]
  BY <1>2, <1>3, <1>4
<1>6. v5 \in [1..Len(v5) -> Entries]
  BY <1>1, LenProperties
<1>7. v5 = [i \in 1..Len(v5) |-> v5[i]]
  BY <1>6
<1> QED BY <1>3, <1>5, <1>7

-----------------------------------------------------------------------------
(* The handler /sandbox/ and its one lua_State.                            *)

LuaStates == [state : {"open", "undefined", "closed"}, aborted : BOOLEAN, defined : BOOLEAN,
              stack : Seq(Script!Values)]

\* What the promise needs next to Filled and Sound.
LEMMA ScriptPromise ==
  ASSUME Script!Filled', Script!Sound', Script!Apart',
         v1' = 1 => v7'.state # "undefined",
         v1' = 1 /\ v7'.aborted => v7'.state = "closed" \/ Len(v7'.stack) = MaxStack
  PROVE  Script!OneAtATime'
<1>1. ASSUME v7'.state = "open"
      PROVE  /\ \A r \in Reqs : v5'[r] = "called" => v4'[v6'[r]] = r
             /\ Script!InLua' = {} => \A i \in 1..Len(v7'.stack) : v7'.stack[i] = Script!Message
  <2>1. ASSUME NEW r \in Reqs, v5'[r] = "called" PROVE v4'[v6'[r]] = r
    BY <1>1, <2>1 DEF Script!Filled, Script!Sound, Script!Active
  <2>2. Script!InLua' = {} => \A r \in Reqs : v5'[r] \notin {"pushed", "ready"}
    BY DEF Script!InLua
  <2> QED BY <1>1, <2>1, <2>2 DEF Script!Sound, Script!Messages
<1> QED BY <1>1 DEF Script!OneAtATime

LEMMA ScriptInit == Script!Init => Script!IInv
<1> SUFFICES ASSUME Script!Init PROVE Script!IInv
  OBVIOUS
<1>1. PICK loaded \in BOOLEAN :
        v7 = [state |-> "open", aborted |-> FALSE, defined |-> loaded,
              stack |-> IF loaded THEN <<>> ELSE <<Script!Message>>]
  BY DEF Script!Init
<1>2. /\ v1 \in Nat /\ v1 \in Sizes /\ v2 = [i \in 1..v1 |-> i]
      /\ v3 = [r \in Reqs |-> 0] /\ v4 = [o \in 1..v1 |-> Script!NoReq]
      /\ v5 = [r \in Reqs |-> "start"] /\ v6 = [r \in Reqs |-> 0]
  BY PartsAssumption DEF Script!Init, Script!Objs, Script!NoObj
<1>3. v2 \in Seq(Script!Objs) /\ Len(v2) = v1 /\ \A i \in 1..v1 : v2[i] = i
  <2>1. v2 \in [1..v1 -> Script!Objs]
    BY <1>2 DEF Script!Objs
  <2> QED BY <1>2, <2>1, ListSeq
<1>4. /\ v7.stack \in Seq(Script!Values)
      /\ \A i \in 1..Len(v7.stack) : v7.stack[i] = Script!Message
  <2>1. CASE loaded
    <3>1. v7.stack = <<>>
      BY <1>1, <2>1
    <3> QED BY <3>1
  <2>2. CASE ~loaded
    <3>1. v7.stack = <<Script!Message>> /\ Script!Message \in Script!Values
      BY <1>1, <2>2 DEF Script!Values
    <3> HIDE DEF Script!Message
    <3> QED BY <3>1
  <2> QED BY <2>1, <2>2
<1>5. v7.state = "open" /\ v7.aborted = FALSE /\ v7 \in LuaStates
  BY <1>1, <1>4 DEF LuaStates
<1>6. Script!TypeOK
  BY <1>2, <1>3, <1>5 DEF Script!TypeOK, LuaStates, Script!Objs, Script!NoObj
<1>7. Script!Apart
  BY <1>2, <1>3 DEF Script!Apart, Script!Active, Script!NoObj
<1>8. Script!Filled
  BY <1>2 DEF Script!Filled, Script!Active
<1>9. Script!InLua = {}
  BY <1>2 DEF Script!InLua
<1>10. Script!Sound
  BY <1>2, <1>4, <1>9 DEF Script!Sound, Script!Messages
<1>11. Script!OneAtATime
  BY <1>2, <1>4, <1>5, <1>9 DEF Script!OneAtATime
<1> QED BY <1>6, <1>7, <1>8, <1>10, <1>11 DEF Script!IInv

\* What Push does.
LEMMA ScriptPush ==
  ASSUME v7 \in LuaStates, NEW value \in Script!Values, Script!Push(value)
  PROVE  /\ v7' \in LuaStates /\ v7'.state = v7.state
         /\ \/ Len(v7.stack) = MaxStack /\ v7'.aborted /\ v7'.stack = v7.stack
            \/ /\ v7'.aborted = v7.aborted
               /\ Len(v7'.stack) = Len(v7.stack) + 1 /\ v7'.stack[Len(v7.stack) + 1] = value
               /\ \A i \in 1..Len(v7.stack) : v7'.stack[i] = v7.stack[i]
<1>1. v7.stack \in Seq(Script!Values)
  BY DEF LuaStates
<1>2. CASE Len(v7.stack) = MaxStack
  <2>1. v7' = [v7 EXCEPT !.aborted = TRUE]
    BY <1>2 DEF Script!Push
  <2> QED BY <1>1, <1>2, <2>1 DEF LuaStates
<1>3. CASE Len(v7.stack) # MaxStack
  <2>1. v7' = [v7 EXCEPT !.stack = Append(v7.stack, value)]
    BY <1>3 DEF Script!Push
  <2>2. /\ Append(v7.stack, value) \in Seq(Script!Values)
        /\ Len(Append(v7.stack, value)) = Len(v7.stack) + 1
        /\ \A i \in 1..Len(v7.stack) : Append(v7.stack, value)[i] = v7.stack[i]
        /\ Append(v7.stack, value)[Len(v7.stack) + 1] = value
    BY <1>1, AppendProperties
  <2>3. v7' \in LuaStates /\ v7'.state = v7.state /\ v7'.aborted = v7.aborted
        /\ v7'.stack = Append(v7.stack, value)
    BY <2>1, <2>2 DEF LuaStates
  <2> QED BY <2>2, <2>3
<1> QED BY <1>2, <1>3

\* A request with a filled object that goes on with it.
LEMMA ScriptGoes ==
  ASSUME Script!IInv, NEW r \in Reqs, v5[r] \in Script!Active \ {"got"},
         NEW at \in Script!Active \ {"got"}, v5' = [v5 EXCEPT ![r] = at],
         UNCHANGED <<v1, v2, v3, v4>>,
         v6' \in [Reqs -> Script!Objs \cup {Script!NoObj}], v7' \in LuaStates
  PROVE  Script!TypeOK' /\ Script!Apart' /\ Script!Filled'
<1>1. \A q \in Reqs : v5'[q] = IF q = r THEN at ELSE v5[q]
  BY DEF Script!IInv, Script!TypeOK
<1>2. Script!Objs' = Script!Objs
  BY DEF Script!Objs
<1>3. Script!TypeOK'
  BY <1>2 DEF Script!IInv, Script!TypeOK, LuaStates
<1>4. \A q \in Reqs : v5'[q] \in Script!Active <=> v5[q] \in Script!Active
  BY <1>1
<1>5. Script!Apart'
  BY <1>4 DEF Script!IInv, Script!Apart
<1>6. \A q \in Reqs : v5'[q] \in Script!Active \ {"got"} <=> v5[q] \in Script!Active \ {"got"}
  BY <1>1
<1>7. Script!Filled'
  BY <1>6 DEF Script!IInv, Script!Filled
<1> QED BY <1>3, <1>5, <1>7

\* With one object, one request has it.
LEMMA ScriptAlone ==
  ASSUME Script!IInv, v1 = 1, NEW r \in Reqs, NEW s \in Reqs,
         v5[r] \in Script!Active, v5[s] \in Script!Active
  PROVE  r = s
<1>1. v3[r] # 0 /\ v3[s] # 0
  BY DEF Script!IInv, Script!Apart, Script!NoObj
<1>2. v3[r] \in 1..1 /\ v3[s] \in 1..1
  BY <1>1 DEF Script!IInv, Script!TypeOK, Script!Objs, Script!NoObj
<1>3. v3[r] = v3[s]
  BY <1>2
<1> QED BY <1>1, <1>3 DEF Script!IInv, Script!Apart, Script!NoObj

LEMMA ScriptReceives ==
  ASSUME Script!IInv, NEW r \in Reqs, Script!GetAvalibleReq(r)
  PROVE  Script!IInv'
<1>1. /\ v5[r] = "start" /\ v2 # <<>> /\ v3' = [v3 EXCEPT ![r] = Head(v2)] /\ v2' = Tail(v2)
      /\ v5' = [v5 EXCEPT ![r] = "got"] /\ UNCHANGED <<v1, v4, v6, v7>>
  BY DEF Script!GetAvalibleReq, Script!Goto
<1>2. /\ v2 \in Seq(Script!Objs) /\ v3 \in [Reqs -> Script!Objs \cup {Script!NoObj}]
      /\ v5 \in [Reqs -> {"start", "done"} \cup Script!Active]
  BY DEF Script!IInv, Script!TypeOK
<1>3. /\ v2' \in Seq(Script!Objs) /\ Head(v2) \in Script!Objs /\ Head(v2) = v2[1]
      /\ Len(v2) \in Nat \ {0} /\ Len(v2') = Len(v2) - 1
      /\ \A i \in 1..Len(v2') : v2'[i] = v2[i + 1]
  BY <1>1, <1>2, TailElement
<1>4. /\ \A q \in Reqs : v3'[q] = IF q = r THEN v2[1] ELSE v3[q]
      /\ \A q \in Reqs : v5'[q] = IF q = r THEN "got" ELSE v5[q]
      /\ 1 \in 1..Len(v2) /\ v2[1] # Script!NoObj
      /\ \A i \in 1..Len(v2') : i + 1 \in 1..Len(v2) /\ i + 1 # 1
  BY <1>1, <1>2, <1>3 DEF Script!Objs, Script!NoObj
<1>5. Script!Objs' = Script!Objs
  BY <1>1 DEF Script!Objs
<1>6. Script!TypeOK'
  BY <1>1, <1>3, <1>5 DEF Script!IInv, Script!TypeOK, Script!Active
<1>7. Script!Apart'
  <2>1. /\ \A i, j \in 1..Len(v2) : v2[i] = v2[j] => i = j
        /\ \A q \in Reqs, i \in 1..Len(v2) : v3[q] # v2[i]
        /\ \A q, s \in Reqs : v3[q] = v3[s] /\ v3[q] # Script!NoObj => q = s
        /\ \A q \in Reqs : v3[q] # Script!NoObj <=> v5[q] \in Script!Active
    BY DEF Script!IInv, Script!Apart
  <2>2. ASSUME NEW i \in 1..Len(v2'), NEW j \in 1..Len(v2'), v2'[i] = v2'[j] PROVE i = j
    <3>1. i + 1 = j + 1
      BY <1>3, <1>4, <2>1, <2>2
    <3> QED BY <3>1
  <2>3. \A q \in Reqs, i \in 1..Len(v2') : v3'[q] # v2'[i]
    BY <1>3, <1>4, <2>1
  <2>4. \A q, s \in Reqs : v3'[q] = v3'[s] /\ v3'[q] # Script!NoObj => q = s
    BY <1>4, <2>1
  <2>5. \A q \in Reqs : v3'[q] # Script!NoObj <=> v5'[q] \in Script!Active
    BY <1>4, <2>1 DEF Script!Active
  <2>6. Script!NoObj' = Script!NoObj /\ Script!Active' = Script!Active
    BY DEF Script!NoObj, Script!Active
  <2> QED BY <2>2, <2>3, <2>4, <2>5, <2>6 DEF Script!Apart
<1>8. Script!Filled'
  BY <1>1, <1>4 DEF Script!IInv, Script!Filled, Script!Active
<1>9. \A q \in Reqs : /\ v5'[q] \in {"pushed", "ready", "called"} => v5'[q] = v5[q] /\ v3'[q] = v3[q]
                      /\ v5[q] \in {"pushed", "ready", "called"} => v5'[q] = v5[q]
  BY <1>1, <1>4
<1>10. Script!Sound'
  BY <1>1, <1>9 DEF Script!IInv, Script!Sound, Script!InLua, Script!Messages
<1>11. Script!OneAtATime'
  BY <1>1, <1>7, <1>8, <1>10, ScriptPromise DEF Script!IInv, Script!OneAtATime
<1> QED BY <1>6, <1>7, <1>8, <1>10, <1>11 DEF Script!IInv

LEMMA ScriptFills ==
  ASSUME Script!IInv, NEW r \in Reqs, Script!Fill(r)
  PROVE  Script!IInv'
<1>1. /\ v5[r] = "got" /\ v4' = [v4 EXCEPT ![v3[r]] = r]
      /\ v5' = [v5 EXCEPT ![r] = "filled"] /\ UNCHANGED <<v1, v2, v3, v6, v7>>
  BY DEF Script!Fill, Script!Goto
<1>2. /\ v3[r] \in Script!Objs /\ DOMAIN v4 = Script!Objs
      /\ \A q \in Reqs : v3[q] = v3[r] => q = r
  BY <1>1 DEF Script!IInv, Script!TypeOK, Script!Apart, Script!Active
<1>3. /\ \A q \in Reqs : v5'[q] = IF q = r THEN "filled" ELSE v5[q]
      /\ v4'[v3[r]] = r /\ \A o : o # v3[r] => v4'[o] = v4[o]
      /\ DOMAIN v4' = DOMAIN v4
  BY <1>1, <1>2 DEF Script!IInv, Script!TypeOK
<1>4. Script!Objs' = Script!Objs
  BY <1>1 DEF Script!Objs
<1>5. Script!TypeOK'
  BY <1>1, <1>3, <1>4 DEF Script!IInv, Script!TypeOK, Script!Active
<1>6. \A q \in Reqs : v5'[q] \in Script!Active <=> v5[q] \in Script!Active
  BY <1>1, <1>3 DEF Script!Active
<1>7. Script!Apart'
  BY <1>1, <1>6 DEF Script!IInv, Script!Apart
<1>8. Script!Filled'
  BY <1>1, <1>2, <1>3 DEF Script!IInv, Script!Filled
<1>9. \A q \in Reqs : /\ v5'[q] \in {"pushed", "ready", "called"} => v5'[q] = v5[q]
                      /\ v5[q] \in {"pushed", "ready", "called"} => v5'[q] = v5[q]
  BY <1>1, <1>3
<1>10. Script!Sound'
  BY <1>1, <1>9 DEF Script!IInv, Script!Sound, Script!InLua, Script!Messages
<1>11. Script!OneAtATime'
  BY <1>1, <1>7, <1>8, <1>10, ScriptPromise DEF Script!IInv, Script!OneAtATime
<1> QED BY <1>5, <1>7, <1>8, <1>10, <1>11 DEF Script!IInv

\* A push leaves the state open, and ends the process only with a full stack.
LEMMA ScriptPushes ==
  ASSUME Script!IInv, ~v7.aborted, NEW r \in Reqs,
         Script!PushFunction(r) \/ Script!PushContext(r)
  PROVE  Script!IInv'
<1> DEFINE value == IF v5[r] = "pushed" THEN Script!Context(v3[r])
                    ELSE IF v7.defined THEN Script!Function ELSE Script!Nil
           at == IF v5[r] = "filled" THEN "pushed" ELSE "ready"
<1>1. /\ v5[r] \in {"filled", "pushed"} /\ v5' = [v5 EXCEPT ![r] = at]
      /\ v7.state = "open" /\ Script!InLua \ {r} = {} /\ Script!Push(value)
      /\ UNCHANGED <<v1, v2, v3, v4, v6>>
  BY DEF Script!PushFunction, Script!PushContext, Script!Proper, Script!Goto
<1>2. /\ v7 \in LuaStates /\ v6 \in [Reqs -> Script!Objs \cup {Script!NoObj}]
      /\ v5 \in [Reqs -> {"start", "done"} \cup Script!Active]
      /\ v7.stack \in Seq(Script!Values)
      /\ Script!Objs \cup {Script!NoObj} \subseteq Nat
      /\ v3[r] \in Script!Objs \cup {Script!NoObj}
  BY DEF Script!IInv, Script!TypeOK, LuaStates, Script!Objs, Script!NoObj
<1>3. value \in Script!Values
  BY <1>2 DEF Script!Values
<1>4. /\ v7' \in LuaStates /\ v7'.state = v7.state
      /\ \/ Len(v7.stack) = MaxStack /\ v7'.aborted /\ v7'.stack = v7.stack
         \/ /\ v7'.aborted = v7.aborted
            /\ Len(v7'.stack) = Len(v7.stack) + 1 /\ v7'.stack[Len(v7.stack) + 1] = value
            /\ \A i \in 1..Len(v7.stack) : v7'.stack[i] = v7.stack[i]
  BY <1>1, <1>2, <1>3, ScriptPush
<1>5. v5' = [v5 EXCEPT ![r] = at] /\ at \in {"pushed", "ready"}
      /\ (at = "pushed" <=> v5[r] = "filled") /\ (at = "ready" <=> v5[r] = "pushed")
      /\ (at = "ready" => value = Script!Context(v3[r]))
  BY <1>1
<1> HIDE DEF value, at
<1>6. /\ v5[r] \in Script!Active \ {"got"} /\ at \in Script!Active \ {"got"}
      /\ v6' \in [Reqs -> Script!Objs \cup {Script!NoObj}]
  BY <1>1, <1>2, <1>5 DEF Script!Active
<1>7. Script!TypeOK' /\ Script!Apart' /\ Script!Filled'
  BY <1>1, <1>4, <1>5, <1>6, ScriptGoes
<1>8. \A q \in Reqs : v5'[q] = IF q = r THEN at ELSE v5[q]
  BY <1>2, <1>5
<1>9. \A q \in Reqs : q # r => v5'[q] \notin {"pushed", "ready", "called"}
  BY <1>1, <1>8 DEF Script!InLua
<1>10. Script!Sound'
  <2>1. \A q, s \in Script!InLua' : q = s
    BY <1>9 DEF Script!InLua
  <2>2. \A q \in Reqs : v5'[q] # "called"
    BY <1>5, <1>8, <1>9
  <2>3. ~(\A q \in Reqs : v5'[q] \notin {"pushed", "ready"})
    BY <1>5, <1>8
  <2>4. Len(v7.stack) \in Nat
    BY <1>2
  <2>5. ASSUME NEW q \in Reqs, v5'[q] = "pushed", ~v7'.aborted
        PROVE  /\ Len(v7'.stack) >= 1
               /\ \A i \in 1..(Len(v7'.stack) - 1) : v7'.stack[i] = Script!Message
    <3>1. q = r /\ v5[r] = "filled"
      BY <1>5, <1>8, <1>9, <2>5
    <3>2. \A s \in Reqs : v5[s] \notin {"pushed", "ready"}
      BY <1>1, <3>1 DEF Script!InLua
    <3>3. \A i \in 1..Len(v7.stack) : v7.stack[i] = Script!Message
      BY <1>1, <3>2 DEF Script!IInv, Script!Sound, Script!Messages
    <3>4. Len(v7'.stack) = Len(v7.stack) + 1
      BY <1>4, <2>5
    <3>5. Len(v7'.stack) - 1 = Len(v7.stack) /\ Len(v7'.stack) >= 1
      BY <3>4, <2>4
    <3> QED BY <1>4, <2>5, <3>3, <3>5
  <2>6. ASSUME NEW q \in Reqs, v5'[q] = "ready", ~v7'.aborted
        PROVE  /\ Len(v7'.stack) >= 2
               /\ \A i \in 1..(Len(v7'.stack) - 2) : v7'.stack[i] = Script!Message
               /\ v7'.stack[Len(v7'.stack)] = Script!Context(v3'[q])
    <3>1. q = r /\ v5[r] = "pushed"
      BY <1>5, <1>8, <1>9, <2>6
    <3>2. /\ Len(v7.stack) >= 1
          /\ \A i \in 1..(Len(v7.stack) - 1) : v7.stack[i] = Script!Message
      BY <1>1, <3>1 DEF Script!IInv, Script!Sound, Script!Messages
    <3>3. Len(v7'.stack) = Len(v7.stack) + 1
      BY <1>4, <2>6
    <3>4. Len(v7'.stack) - 2 = Len(v7.stack) - 1 /\ Len(v7'.stack) >= 2
      BY <3>2, <3>3, <2>4
    <3>5. v7'.stack[Len(v7'.stack)] = value /\ value = Script!Context(v3[r])
      BY <1>4, <1>5, <1>8, <2>6, <3>1, <3>3
    <3>6. \A i \in 1..(Len(v7.stack) - 1) : i \in 1..Len(v7.stack) /\ v7'.stack[i] = v7.stack[i]
      BY <1>4, <2>6, <2>4
    <3>7. v3' = v3
      BY <1>1
    <3> QED BY <3>1, <3>2, <3>4, <3>5, <3>6, <3>7
  <2> QED BY <2>1, <2>2, <2>3, <2>5, <2>6 DEF Script!Sound, Script!Messages
<1>11. Script!OneAtATime'
  <2>1. v7'.state = "open" /\ (v7'.aborted => Len(v7'.stack) = MaxStack)
    BY <1>1, <1>4
  <2> QED BY <2>1, <1>7, <1>10, ScriptPromise
<1> QED BY <1>7, <1>10, <1>11 DEF Script!IInv

\* A call takes off what was pushed; a return may leave a message.
LEMMA ScriptCalls ==
  ASSUME Script!IInv, ~v7.aborted, NEW r \in Reqs, Script!Call(r)
  PROVE  Script!IInv'
<1>1. /\ v5[r] = "ready" /\ v7.state = "open" /\ Script!InLua \ {r} = {}
      /\ UNCHANGED <<v1, v2, v3, v4>>
  BY DEF Script!Call, Script!Proper
<1>2. /\ v7 \in LuaStates /\ v6 \in [Reqs -> Script!Objs \cup {Script!NoObj}]
      /\ v5 \in [Reqs -> {"start", "done"} \cup Script!Active]
      /\ v7.stack \in Seq(Script!Values) /\ Len(v7.stack) \in Nat
      /\ v3[r] \in Script!Objs \cup {Script!NoObj}
  BY DEF Script!IInv, Script!TypeOK, LuaStates
<1>3. /\ Len(v7.stack) >= 2
      /\ \A i \in 1..(Len(v7.stack) - 2) : v7.stack[i] = Script!Message
      /\ v7.stack[Len(v7.stack)] = Script!Context(v3[r])
  BY <1>1 DEF Script!IInv, Script!Sound, Script!Messages
<1>4. v7.stack[Len(v7.stack)][2] = v3[r]
  BY <1>3 DEF Script!Context
<1> DEFINE rest == Script!Popped(v7.stack)
<1>5. /\ rest \in Seq(Script!Values) /\ Len(rest) = Len(v7.stack) - 2
      /\ \A i \in 1..Len(rest) : rest[i] = Script!Message
  <2>1. rest = SubSeq(v7.stack, 1, Len(v7.stack) - 2) /\ Len(v7.stack) - 2 \in 0..Len(v7.stack)
    BY <1>2, <1>3 DEF Script!Popped
  <2>2. /\ rest \in Seq(Script!Values) /\ Len(rest) = Len(v7.stack) - 2
        /\ \A i \in 1..Len(rest) : rest[i] = v7.stack[i]
    BY <1>2, <1>3, <2>1, SubSeqProperties
  <2> QED BY <1>3, <2>2
<1>6. Script!Message \in Script!Values
  BY DEF Script!Values
<1> HIDE DEF rest
<1>7. PICK at \in {"called", "recycle"} :
        /\ v5' = [v5 EXCEPT ![r] = at]
        /\ at = "called" => v7' = [v7 EXCEPT !.stack = rest] /\ v6' = [v6 EXCEPT ![r] = v3[r]]
        /\ at = "recycle" => v7' = [v7 EXCEPT !.stack = Append(rest, Script!Message)] /\ v6' = v6
  BY <1>4 DEF Script!Call, Script!Goto, rest
<1>8. \A q \in Reqs : v5'[q] = IF q = r THEN at ELSE v5[q]
  BY <1>2, <1>7
<1>9. /\ v7' \in LuaStates /\ v7'.state = "open" /\ v7'.aborted = v7.aborted
      /\ v7'.stack = IF at = "called" THEN rest ELSE Append(rest, Script!Message)
  <2>1. Append(rest, Script!Message) \in Seq(Script!Values)
    BY <1>5, <1>6, AppendProperties
  <2> HIDE DEF Script!Message
  <2> QED BY <2>1, <1>1, <1>2, <1>5, <1>7 DEF LuaStates
<1>10. \A i \in 1..Len(v7'.stack) : v7'.stack[i] = Script!Message
  <2>1. /\ Len(Append(rest, Script!Message)) = Len(rest) + 1
        /\ \A i \in 1..Len(rest) : Append(rest, Script!Message)[i] = rest[i]
        /\ Append(rest, Script!Message)[Len(rest) + 1] = Script!Message
        /\ Len(rest) \in Nat
    BY <1>5, <1>6, AppendProperties
  <2>2. \A i \in 1..(Len(rest) + 1) : i \in 1..Len(rest) \/ i = Len(rest) + 1
    BY <2>1
  <2>3. CASE at = "called"
    BY <1>5, <1>9, <2>3
  <2>4. CASE at = "recycle"
    <3>1. v7'.stack = Append(rest, Script!Message)
      BY <1>9, <2>4
    <3> HIDE DEF Script!Message
    <3> QED BY <1>5, <3>1, <2>1, <2>2
  <2> QED BY <2>3, <2>4
<1>11. v6' \in [Reqs -> Script!Objs \cup {Script!NoObj}]
       /\ \A q \in Reqs : v5'[q] = "called" => v6'[q] = v3[q]
  <2>1. \A q \in Reqs : q # r => v5'[q] # "called"
    BY <1>1, <1>8 DEF Script!InLua
  <2>2. v5'[r] = at
    BY <1>8
  <2>3. CASE at = "called"
    <3>1. v6' = [v6 EXCEPT ![r] = v3[r]]
      BY <1>7, <2>3
    <3> QED BY <3>1, <1>2, <2>1
  <2>4. CASE at = "recycle"
    BY <1>2, <1>7, <2>1, <2>2, <2>4
  <2> QED BY <2>3, <2>4
<1>12. v5[r] \in Script!Active \ {"got"} /\ at \in Script!Active \ {"got"}
  BY <1>1 DEF Script!Active
<1>13. Script!TypeOK' /\ Script!Apart' /\ Script!Filled'
  BY <1>1, <1>7, <1>9, <1>11, <1>12, ScriptGoes
<1>14. Script!Sound'
  <2>1. \A q \in Reqs : v5'[q] \notin {"pushed", "ready"}
    BY <1>1, <1>8 DEF Script!InLua
  <2>2. \A q, s \in Script!InLua' : q = s
    BY <1>1, <1>8 DEF Script!InLua
  <2>3. v3' = v3
    BY <1>1
  <2> QED BY <1>10, <1>11, <2>1, <2>2, <2>3 DEF Script!Sound, Script!Messages
<1>15. Script!OneAtATime'
  BY <1>9, <1>13, <1>14, ScriptPromise
<1> QED BY <1>13, <1>14, <1>15 DEF Script!IInv

LEMMA ScriptReturns ==
  ASSUME Script!IInv, ~v7.aborted, NEW r \in Reqs, Script!Returned(r)
  PROVE  Script!IInv'
<1>1. /\ v5[r] = "called" /\ v7.state = "open" /\ Script!InLua \ {r} = {}
      /\ v5' = [v5 EXCEPT ![r] = "recycle"]
      /\ UNCHANGED <<v1, v2, v3, v4, v6>>
      /\ Script!Push(Script!Message) \/ v7' = v7
  BY DEF Script!Returned, Script!Proper, Script!Goto
<1>2. /\ v7 \in LuaStates /\ v6 \in [Reqs -> Script!Objs \cup {Script!NoObj}]
      /\ v5 \in [Reqs -> {"start", "done"} \cup Script!Active]
      /\ v7.stack \in Seq(Script!Values) /\ Len(v7.stack) \in Nat
  BY DEF Script!IInv, Script!TypeOK, LuaStates
<1>3. Script!Message \in Script!Values
  BY DEF Script!Values
<1>4. \A q \in Reqs : v5'[q] = IF q = r THEN "recycle" ELSE v5[q]
  BY <1>1, <1>2
<1>5. \A q \in Reqs : v5'[q] \notin {"pushed", "ready", "called"}
  BY <1>1, <1>4 DEF Script!InLua
<1>6. \A i \in 1..Len(v7.stack) : v7.stack[i] = Script!Message
  <2>1. \A q \in Reqs : v5[q] \notin {"pushed", "ready"}
    BY <1>1 DEF Script!InLua
  <2> QED BY <1>1, <2>1 DEF Script!IInv, Script!Sound, Script!Messages
<1>7. /\ v7' \in LuaStates /\ v7'.state = "open"
      /\ v7'.aborted => Len(v7'.stack) = MaxStack
      /\ \A i \in 1..Len(v7'.stack) : v7'.stack[i] = Script!Message
  <2>1. CASE v7' = v7
    BY <1>1, <1>2, <1>6, <2>1
  <2>2. CASE Script!Push(Script!Message)
    <3>1. /\ v7' \in LuaStates /\ v7'.state = v7.state
          /\ \/ Len(v7.stack) = MaxStack /\ v7'.aborted /\ v7'.stack = v7.stack
             \/ /\ v7'.aborted = v7.aborted
                /\ Len(v7'.stack) = Len(v7.stack) + 1
                /\ v7'.stack[Len(v7.stack) + 1] = Script!Message
                /\ \A i \in 1..Len(v7.stack) : v7'.stack[i] = v7.stack[i]
      BY <1>2, <1>3, <2>2, ScriptPush
    <3>2. \A i \in 1..(Len(v7.stack) + 1) : i \in 1..Len(v7.stack) \/ i = Len(v7.stack) + 1
      BY <1>2
    <3> HIDE DEF Script!Message
    <3> QED BY <1>1, <1>6, <3>1, <3>2
  <2> QED BY <1>1, <2>1, <2>2
<1>8. v5[r] \in Script!Active \ {"got"} /\ "recycle" \in Script!Active \ {"got"}
  BY <1>1 DEF Script!Active
<1>9. Script!TypeOK' /\ Script!Apart' /\ Script!Filled'
  BY <1>1, <1>2, <1>7, <1>8, ScriptGoes
<1>10. Script!Sound'
  BY <1>5, <1>7 DEF Script!Sound, Script!Messages, Script!InLua
<1>11. Script!OneAtATime'
  BY <1>7, <1>9, <1>10, ScriptPromise
<1> QED BY <1>9, <1>10, <1>11 DEF Script!IInv

\* Where goroutines meet in Lua, or one is in a closed state, nothing is
\* promised but that requests keep their objects apart.
LEMMA ScriptMeets ==
  ASSUME Script!IInv, ~v7.aborted, NEW r \in Reqs, Script!Undefined(r)
  PROVE  Script!IInv'
<1>1. /\ v5[r] \in {"filled", "pushed", "ready", "called"}
      /\ v7.state # "open" \/ Script!InLua \ {r} # {}
      /\ UNCHANGED <<v1, v2, v3, v4>>
  BY DEF Script!Undefined, Script!Proper
<1>2. PICK dies \in BOOLEAN :
        v7' = [v7 EXCEPT !.aborted = dies, !.state = IF v7.state = "open" THEN "undefined" ELSE v7.state]
  BY DEF Script!Undefined
<1>3. PICK o \in Script!Objs : v6' = [v6 EXCEPT ![r] = o]
  BY DEF Script!Undefined
<1>4. PICK at \in {"called", "recycle"} : v5' = [v5 EXCEPT ![r] = at]
  BY DEF Script!Undefined, Script!Goto
<1>5. v7 \in LuaStates /\ v6 \in [Reqs -> Script!Objs \cup {Script!NoObj}]
  BY DEF Script!IInv, Script!TypeOK, LuaStates
<1>6. /\ v7' \in LuaStates
      /\ v7'.state = IF v7.state = "open" THEN "undefined" ELSE v7.state
      /\ v7'.state # "open"
  BY <1>2, <1>5 DEF LuaStates
<1>7. v6' \in [Reqs -> Script!Objs \cup {Script!NoObj}]
  BY <1>3, <1>5
<1>8. v5[r] \in Script!Active \ {"got"} /\ at \in Script!Active \ {"got"}
  BY <1>1 DEF Script!Active
<1>9. Script!TypeOK' /\ Script!Apart' /\ Script!Filled'
  BY <1>1, <1>4, <1>6, <1>7, <1>8, ScriptGoes
<1>10. Script!Sound'
  BY <1>6 DEF Script!Sound
<1>11. v1 = 1 => v7.state = "closed"
  <2>1. v1 = 1 => v7.state # "undefined"
    BY DEF Script!IInv, Script!OneAtATime
  <2>2. ASSUME v1 = 1, v7.state = "open" PROVE FALSE
    <3>1. PICK s \in Reqs : s # r /\ v5[s] \in Script!Active
      BY <1>1, <2>2 DEF Script!InLua, Script!Active
    <3> QED BY <1>8, <2>2, <3>1, ScriptAlone
  <2>3. v7.state \in {"open", "undefined", "closed"}
    BY <1>5 DEF LuaStates
  <2> QED BY <2>1, <2>2, <2>3
<1>12. Script!OneAtATime'
  <2>1. v1' = 1 => v7'.state = "closed"
    BY <1>1, <1>6, <1>11
  <2> QED BY <2>1, <1>9, <1>10, ScriptPromise
<1> QED BY <1>9, <1>10, <1>12 DEF Script!IInv

LEMMA ScriptRecycles ==
  ASSUME Script!IInv, NEW r \in Reqs, Script!Recycle(r)
  PROVE  Script!IInv'
<1>1. /\ v5[r] = "recycle" /\ v3' = [v3 EXCEPT ![r] = Script!NoObj] /\ v2' = Append(v2, v3[r])
      /\ v5' = [v5 EXCEPT ![r] = "done"] /\ UNCHANGED <<v1, v4, v6, v7>>
  BY DEF Script!Recycle, Script!Goto
<1>2. /\ v2 \in Seq(Script!Objs) /\ v3 \in [Reqs -> Script!Objs \cup {Script!NoObj}]
      /\ v5 \in [Reqs -> {"start", "done"} \cup Script!Active]
      /\ v3[r] # Script!NoObj
  BY <1>1 DEF Script!IInv, Script!TypeOK, Script!Apart, Script!Active
<1>3. /\ v2' \in Seq(Script!Objs) /\ Len(v2) \in Nat /\ Len(v2') = Len(v2) + 1
      /\ \A i \in 1..Len(v2) : v2'[i] = v2[i]
      /\ v2'[Len(v2) + 1] = v3[r]
  BY <1>1, <1>2, AppendProperties
<1>4. /\ \A q \in Reqs : v3'[q] = IF q = r THEN Script!NoObj ELSE v3[q]
      /\ \A q \in Reqs : v5'[q] = IF q = r THEN "done" ELSE v5[q]
      /\ \A i \in 1..Len(v2') : i \in 1..Len(v2) \/ i = Len(v2) + 1
  BY <1>1, <1>2, <1>3
<1>5. Script!Objs' = Script!Objs
  BY <1>1 DEF Script!Objs
<1>6. Script!TypeOK'
  BY <1>1, <1>3, <1>5 DEF Script!IInv, Script!TypeOK, Script!Active
<1>7. Script!Apart'
  <2>1. /\ \A i, j \in 1..Len(v2) : v2[i] = v2[j] => i = j
        /\ \A q \in Reqs, i \in 1..Len(v2) : v3[q] # v2[i]
        /\ \A q, s \in Reqs : v3[q] = v3[s] /\ v3[q] # Script!NoObj => q = s
        /\ \A q \in Reqs : v3[q] # Script!NoObj <=> v5[q] \in Script!Active
    BY DEF Script!IInv, Script!Apart
  <2>2. \A i, j \in 1..Len(v2') : v2'[i] = v2'[j] => i = j
    BY <1>3, <1>4, <2>1
  <2>3. ASSUME NEW q \in Reqs, NEW i \in 1..Len(v2') PROVE v3'[q] # v2'[i]
    <3>1. v2'[i] # Script!NoObj
      <4>1. v2'[i] \in Script!Objs
        BY <1>3
      <4> QED BY <4>1 DEF Script!Objs, Script!NoObj
    <3>2. CASE q = r
      BY <1>4, <3>1, <3>2
    <3>3. CASE q # r
      BY <1>2, <1>3, <1>4, <2>1, <3>1, <3>3
    <3> QED BY <3>2, <3>3
  <2>4. \A q, s \in Reqs : v3'[q] = v3'[s] /\ v3'[q] # Script!NoObj => q = s
    BY <1>4, <2>1
  <2>5. \A q \in Reqs : v3'[q] # Script!NoObj <=> v5'[q] \in Script!Active
    BY <1>4, <2>1 DEF Script!Active
  <2>6. Script!NoObj' = Script!NoObj /\ Script!Active' = Script!Active
    BY DEF Script!NoObj, Script!Active
  <2> QED BY <2>2, <2>3, <2>4, <2>5, <2>6 DEF Script!Apart
<1>8. Script!Filled'
  BY <1>1, <1>4 DEF Script!IInv, Script!Filled, Script!Active
<1>9. \A q \in Reqs : /\ v5'[q] \in {"pushed", "ready", "called"} => v5'[q] = v5[q] /\ v3'[q] = v3[q]
                      /\ v5[q] \in {"pushed", "ready", "called"} => v5'[q] = v5[q]
  BY <1>1, <1>4
<1>10. Script!Sound'
  BY <1>1, <1>9 DEF Script!IInv, Script!Sound, Script!InLua, Script!Messages
<1>11. Script!OneAtATime'
  BY <1>1, <1>7, <1>8, <1>10, ScriptPromise DEF Script!IInv, Script!OneAtATime
<1> QED BY <1>6, <1>7, <1>8, <1>10, <1>11 DEF Script!IInv

LEMMA ScriptCloses ==
  ASSUME Script!IInv, Script!Uninit
  PROVE  Script!IInv'
<1>1. /\ v7' = [v7 EXCEPT !.state = "closed"] /\ UNCHANGED <<v1, v2, v3, v4, v5, v6>>
  BY DEF Script!Uninit
<1>2. v7' \in LuaStates /\ v7'.state = "closed"
  BY <1>1 DEF Script!IInv, Script!TypeOK, LuaStates
<1>3. Script!Objs' = Script!Objs
  BY <1>1 DEF Script!Objs
<1>4. Script!TypeOK'
  BY <1>1, <1>2, <1>3 DEF Script!IInv, Script!TypeOK, LuaStates
<1>5. Script!Apart' /\ Script!Filled'
  BY <1>1 DEF Script!IInv, Script!Apart, Script!Filled
<1>6. Script!Sound' /\ Script!OneAtATime'
  BY <1>2 DEF Script!Sound, Script!OneAtATime
<1> QED BY <1>4, <1>5, <1>6 DEF Script!IInv

LEMMA ScriptNext == Script!IInv /\ Script!Next => Script!IInv'
BY ScriptReceives, ScriptFills, ScriptPushes, ScriptCalls, ScriptReturns, ScriptMeets,
   ScriptRecycles, ScriptCloses DEF Script!Next, Script!Request

-----------------------------------------------------------------------------
(* The keys of urls.                                                       *)

UrlChars == UrlAlphabet \cup Url!CutSet

\* n counts the leading characters of s that are in the cut set.
Leads(s, n) ==
  /\ n \in 0..Len(s)
  /\ \A j \in 1..n : s[j] \in Url!CutSet
  /\ n < Len(s) => s[n + 1] \notin Url!CutSet

LEMMA LeadsExists ==
  ASSUME NEW s \in Seq(UrlChars)
  PROVE  \E n \in Nat : Leads(s, n)
<1> DEFINE Stops == {n \in Nat : n <= Len(s) /\ (n < Len(s) => s[n + 1] \notin Url!CutSet)}
<1>1. Len(s) \in Nat
  OBVIOUS
<1>2. Stops \subseteq Nat /\ Stops # {}
  BY <1>1
<1>3. PICK n \in Stops : \A m \in Stops : ~ (<<m, n>> \in OpToRel(<, Nat))
  BY <1>2, NatLessThanWellFounded, WFMin
<1>4. n \in Nat /\ n <= Len(s) /\ (n < Len(s) => s[n + 1] \notin Url!CutSet)
  BY <1>3
<1>5. ASSUME NEW m \in Stops PROVE ~(m < n)
  <2>1. m \in Nat
    BY <1>5
  <2> QED BY <1>3, <1>4, <1>5, <2>1 DEF OpToRel
<1>6. ASSUME NEW j \in 1..n PROVE s[j] \in Url!CutSet
  <2>1. j - 1 \in Nat /\ j - 1 < n /\ j - 1 < Len(s) /\ (j - 1) + 1 = j
    BY <1>1, <1>4
  <2>2. j - 1 \notin Stops
    BY <1>5, <2>1
  <2> QED BY <2>1, <2>2
<1> QED BY <1>1, <1>4, <1>6 DEF Leads

\* TrimLeft takes those off.
LEMMA TrimIs ==
  ASSUME NEW s \in Seq(UrlChars), NEW n \in Nat, Leads(s, n)
  PROVE  Url!TrimLeft(s) = SubSeq(s, n + 1, Len(s))
<1>1. Len(s) \in Nat /\ n <= Len(s)
  BY DEF Leads
<1>2. Url!Cut(s) = 1..n
  <2>1. ASSUME NEW i \in 1..n PROVE i \in Url!Cut(s)
    BY <1>1 DEF Leads, Url!Cut
  <2>2. ASSUME NEW i \in Url!Cut(s) PROVE i \in 1..n
    <3>1. i \in 1..Len(s) /\ \A j \in 1..i : s[j] \in Url!CutSet
      BY DEF Url!Cut
    <3>2. CASE n < i
      <4>1. n + 1 \in 1..i /\ n < Len(s)
        BY <1>1, <3>1, <3>2
      <4> QED BY <3>1, <4>1 DEF Leads
    <3>3. CASE ~(n < i)
      BY <1>1, <3>1, <3>3
    <3> QED BY <3>2, <3>3
  <2> QED BY <2>1, <2>2
<1>3. ASSUME NEW m \in 0..Len(s), 1..m = 1..n PROVE m = n
  <2>1. m < n => n \in 1..n /\ n \notin 1..m
    BY <1>1
  <2>2. n < m => m \in 1..m /\ m \notin 1..n
    BY <1>1
  <2> QED BY <1>1, <1>3, <2>1, <2>2
<1>4. (CHOOSE m \in 0..Len(s) : Url!Cut(s) = 1..m) = n
  <2>1. n \in 0..Len(s)
    BY <1>1
  <2>2. \A m \in 0..Len(s) : Url!Cut(s) = 1..m <=> m = n
    BY <1>2, <1>3, <2>1
  <2> HIDE DEF Url!Cut
  <2> QED BY <2>1, <2>2
<1> QED BY <1>4 DEF Url!TrimLeft

\* What is left when a prefix in the cut set is gone is the key, unless more
\* of it is in the cut set.
LEMMA TrimPrefix ==
  ASSUME NEW s \in Seq(UrlChars), NEW p \in Nat, p <= Len(s),
         \A j \in 1..p : s[j] \in Url!CutSet,
         NEW rest, rest = SubSeq(s, p + 1, Len(s))
  PROVE  Url!TrimLeft(s) = rest <=> ~Url!Ambiguous(rest)
<1>1. PICK n \in Nat : Leads(s, n)
  BY LeadsExists
<1>2. Len(s) \in Nat /\ n <= Len(s)
  BY <1>1 DEF Leads
<1>3. Url!TrimLeft(s) = SubSeq(s, n + 1, Len(s))
  BY <1>1, TrimIs
<1>4. p <= n
  <2>1. n < p => n + 1 \in 1..p /\ n < Len(s)
    BY <1>2
  <2> QED BY <2>1, <1>1, <1>2 DEF Leads
<1>5. /\ Len(rest) = Len(s) - p /\ rest \in Seq(UrlChars)
      /\ Len(rest) # 0 => rest[1] = s[p + 1]
  <2>1. \A i \in (p + 1)..Len(s) : s[i] \in UrlChars
    BY <1>2
  <2>2. /\ rest \in Seq(UrlChars) /\ Len(rest) = IF p + 1 <= Len(s) THEN Len(s) - (p + 1) + 1 ELSE 0
        /\ \A i \in 1..(Len(s) - (p + 1) + 1) : rest[i] = s[(p + 1) + i - 1]
    BY <1>2, <2>1, SubSeqProperties
  <2>3. Len(rest) = Len(s) - p
    BY <1>2, <2>2
  <2>4. Len(rest) # 0 => 1 \in 1..(Len(s) - (p + 1) + 1) /\ (p + 1) + 1 - 1 = p + 1
    BY <1>2, <2>3
  <2> QED BY <2>2, <2>3, <2>4
<1>6. rest # <<>> <=> Len(rest) # 0
  BY <1>5, EmptySeq
<1>7. CASE n = p
  <2>1. Url!TrimLeft(s) = rest
    BY <1>3, <1>7
  <2>2. ~Url!Ambiguous(rest)
    BY <1>1, <1>2, <1>5, <1>6, <1>7 DEF Leads, Url!Ambiguous
  <2> QED BY <2>1, <2>2
<1>8. CASE n # p
  <2>1. p < n /\ p + 1 \in 1..n /\ Len(s) - p # 0
    BY <1>2, <1>4, <1>8
  <2>2. Url!Ambiguous(rest)
    BY <1>1, <1>5, <1>6, <2>1 DEF Leads, Url!Ambiguous
  <2>3. Len(Url!TrimLeft(s)) = Len(s) - n
    <3>1. \A i \in (n + 1)..Len(s) : s[i] \in UrlChars
      BY <1>2
    <3>2. Len(SubSeq(s, n + 1, Len(s))) = IF n + 1 <= Len(s) THEN Len(s) - (n + 1) + 1 ELSE 0
      BY <1>2, <3>1, SubSeqProperties
    <3> QED BY <1>2, <1>3, <3>2
  <2>4. Len(Url!TrimLeft(s)) # Len(rest)
    BY <1>2, <1>5, <2>1, <2>3
  <2> QED BY <2>2, <2>4
<1> QED BY <1>7, <1>8

\* A key begins with no character of the cut set.
LEMMA KeyBegins ==
  ASSUME NEW s \in Seq(UrlChars), NEW key, key = Url!TrimLeft(s)
  PROVE  key \in Seq(UrlChars) /\ Leads(key, 0)
<1>1. PICK n \in Nat : Leads(s, n)
  BY LeadsExists
<1>2. Len(s) \in Nat /\ n <= Len(s)
  BY <1>1 DEF Leads
<1>3. key = SubSeq(s, n + 1, Len(s))
  BY <1>1, TrimIs
<1>4. \A i \in (n + 1)..Len(s) : s[i] \in UrlChars
  BY <1>2
<1>5. /\ key \in Seq(UrlChars) /\ Len(key) = IF n + 1 <= Len(s) THEN Len(s) - (n + 1) + 1 ELSE 0
      /\ \A i \in 1..(Len(s) - (n + 1) + 1) : key[i] = s[(n + 1) + i - 1]
  BY <1>2, <1>3, <1>4, SubSeqProperties
<1>6. Len(key) = Len(s) - n
  BY <1>2, <1>5
<1>7. 0 < Len(key) => 1 \in 1..(Len(s) - (n + 1) + 1) /\ (n + 1) + 1 - 1 = n + 1 /\ n < Len(s)
  BY <1>2, <1>6
<1>8. 0 < Len(key) => key[0 + 1] \notin Url!CutSet
  BY <1>1, <1>5, <1>7 DEF Leads
<1> QED BY <1>2, <1>5, <1>6, <1>8 DEF Leads

LEMMA SchemeIs ==
  /\ Url!Scheme \in Seq(UrlChars) /\ Len(Url!Scheme) = 7
  /\ \A j \in 1..7 : Url!Scheme[j] \in Url!CutSet
<1>1. Len(Url!Scheme) = 7
  BY DEF Url!Scheme
<1>2. \A j \in 1..7 : Url!Scheme[j] \in Url!CutSet
  BY DEF Url!Scheme, Url!CutSet
<1>3. Url!Scheme \in Seq(UrlChars)
  BY DEF Url!Scheme, Url!CutSet, UrlChars
<1> QED BY <1>1, <1>2, <1>3

\* The key of any url, not only of those short enough for TLC.
LEMMA UrlKeyIsRest == ASSUME NEW s \in Seq(UrlChars) PROVE Url!KeyIsRest(s)
<1> DEFINE rest == Url!WithoutScheme(s)
           key  == Url!TrimLeft(s)
<1>1. Len(s) \in Nat
  OBVIOUS
<1>2. key = rest <=> ~Url!Ambiguous(rest)
  <2>1. CASE Url!HasScheme(s)
    <3>1. Len(s) >= 7 /\ SubSeq(s, 1, 7) = Url!Scheme
      BY <2>1, SchemeIs DEF Url!HasScheme
    <3>2. \A j \in 1..7 : s[j] = Url!Scheme[j]
      <4>1. \A j \in 1..7 : s[j] \in UrlChars
        BY <1>1, <3>1
      <4>2. \A j \in 1..(7 - 1 + 1) : SubSeq(s, 1, 7)[j] = s[1 + j - 1]
        BY <4>1, SubSeqProperties
      <4> QED BY <3>1, <4>2
    <3>3. rest = SubSeq(s, 7 + 1, Len(s))
      BY <2>1, SchemeIs DEF Url!WithoutScheme
    <3> HIDE DEF rest, key
    <3> QED BY <1>1, <3>1, <3>2, <3>3, SchemeIs, TrimPrefix DEF key
  <2>2. CASE ~Url!HasScheme(s)
    <3>1. rest = s
      BY <2>2 DEF Url!WithoutScheme
    <3>2. rest = SubSeq(s, 0 + 1, Len(s))
      <4>1. \A j \in 1..Len(s) : s[j] \in UrlChars
        BY <1>1
      <4>2. /\ SubSeq(s, 1, Len(s)) \in Seq(UrlChars)
            /\ Len(SubSeq(s, 1, Len(s))) = IF 1 <= Len(s) THEN Len(s) - 1 + 1 ELSE 0
            /\ \A j \in 1..(Len(s) - 1 + 1) : SubSeq(s, 1, Len(s))[j] = s[1 + j - 1]
        BY <1>1, <4>1, SubSeqProperties
      <4>3. Len(SubSeq(s, 1, Len(s))) = Len(s) /\ \A j \in 1..Len(s) : SubSeq(s, 1, Len(s))[j] = s[j]
        BY <1>1, <4>2
      <4>4. SubSeq(s, 1, Len(s)) = s
        BY <4>2, <4>3, SeqEqual
      <4> QED BY <3>1, <4>4
    <3>3. 0 <= Len(s) /\ \A j \in 1..0 : s[j] \in Url!CutSet
      BY <1>1
    <3> HIDE DEF rest, key
    <3> QED BY <3>2, <3>3, TrimPrefix DEF key
  <2> QED BY <2>1, <2>2
<1>3. key \in Seq(UrlChars) /\ Leads(key, 0) /\ Len(key) \in Nat
  BY KeyBegins
<1> HIDE DEF rest, key
<1>4. Url!TrimLeft(key) = key
  <2>1. Url!TrimLeft(key) = SubSeq(key, 1, Len(key))
    BY <1>3, TrimIs
  <2>2. \A j \in 1..Len(key) : key[j] \in UrlChars
    BY <1>3
  <2>3. /\ SubSeq(key, 1, Len(key)) \in Seq(UrlChars)
        /\ Len(SubSeq(key, 1, Len(key))) = IF 1 <= Len(key) THEN Len(key) - 1 + 1 ELSE 0
        /\ \A j \in 1..(Len(key) - 1 + 1) : SubSeq(key, 1, Len(key))[j] = key[1 + j - 1]
    BY <1>3, <2>2, SubSeqProperties
  <2>4. /\ Len(SubSeq(key, 1, Len(key))) = Len(key)
        /\ \A j \in 1..Len(key) : SubSeq(key, 1, Len(key))[j] = key[j]
    BY <1>3, <2>3
  <2> QED BY <1>3, <2>1, <2>3, <2>4, SeqEqual
<1>5. Url!TrimLeft(Url!Scheme \o key) = key
  <2> DEFINE long == Url!Scheme \o key
  <2>1. /\ long \in Seq(UrlChars) /\ Len(long) = 7 + Len(key)
        /\ \A i \in 1..(7 + Len(key)) : long[i] = IF i <= 7 THEN Url!Scheme[i] ELSE key[i - 7]
    <3>1. /\ long \in Seq(UrlChars) /\ Len(long) = Len(Url!Scheme) + Len(key)
          /\ \A i \in 1..(Len(Url!Scheme) + Len(key)) :
               long[i] = IF i <= Len(Url!Scheme) THEN Url!Scheme[i] ELSE key[i - Len(Url!Scheme)]
      BY <1>3, SchemeIs, ConcatProperties, Zenon
    <3> HIDE DEF long
    <3> QED BY <3>1, SchemeIs
  <2> HIDE DEF long
  <2>2. Leads(long, 7)
    <3>1. \A j \in 1..7 : long[j] \in Url!CutSet
      BY <1>3, <2>1, SchemeIs
    <3>2. ASSUME 7 < Len(long) PROVE long[7 + 1] \notin Url!CutSet
      <4>1. 8 \in 1..(7 + Len(key)) /\ 0 < Len(key)
        BY <1>3, <2>1, <3>2
      <4>2. long[8] = key[1]
        BY <2>1, <4>1
      <4> QED BY <1>3, <4>1, <4>2 DEF Leads
    <3>3. 7 \in 0..Len(long)
      BY <1>3, <2>1
    <3> QED BY <3>1, <3>2, <3>3 DEF Leads
  <2>3. Url!TrimLeft(long) = SubSeq(long, 7 + 1, Len(long))
    BY <2>1, <2>2, TrimIs
  <2>4. \A i \in 8..(7 + Len(key)) : long[i] \in UrlChars
    BY <1>3, <2>1
  <2>5. /\ SubSeq(long, 8, 7 + Len(key)) \in Seq(UrlChars)
        /\ Len(SubSeq(long, 8, 7 + Len(key)))
             = IF 8 <= 7 + Len(key) THEN (7 + Len(key)) - 8 + 1 ELSE 0
        /\ \A i \in 1..((7 + Len(key)) - 8 + 1) : SubSeq(long, 8, 7 + Len(key))[i] = long[8 + i - 1]
    BY <1>3, <2>4, SubSeqProperties
  <2>6. /\ Len(SubSeq(long, 8, 7 + Len(key))) = Len(key)
        /\ \A i \in 1..Len(key) : SubSeq(long, 8, 7 + Len(key))[i] = long[8 + i - 1]
    BY <1>3, <2>5
  <2>7. \A i \in 1..Len(key) : SubSeq(long, 8, 7 + Len(key))[i] = key[i]
    <3> SUFFICES ASSUME NEW i \in 1..Len(key) PROVE SubSeq(long, 8, 7 + Len(key))[i] = key[i]
      OBVIOUS
    <3>1. 8 + i - 1 \in 1..(7 + Len(key)) /\ ~(8 + i - 1 <= 7) /\ (8 + i - 1) - 7 = i
      BY <1>3
    <3>2. long[8 + i - 1] = key[(8 + i - 1) - 7]
      BY <2>1, <3>1
    <3> QED BY <2>6, <3>1, <3>2
  <2>8. SubSeq(long, 8, 7 + Len(key)) = key
    BY <1>3, <2>5, <2>6, <2>7, SeqEqual
  <2>9. Url!TrimLeft(long) = key
    BY <2>1, <2>3, <2>8
  <2> QED BY <2>9 DEF long
<1> QED BY <1>2, <1>4, <1>5 DEF Url!KeyIsRest, rest, key

LEMMA UrlNext ==
  ASSUME v1 \in Seq(UrlChars), Longer(v1)
  PROVE  v1' \in Seq(UrlChars)
<1>1. PICK c \in UrlAlphabet : v1' = Append(v1, c)
  BY DEF Longer
<1>2. c \in UrlChars
  BY DEF UrlChars
<1> QED BY <1>1, <1>2, AppendProperties

-----------------------------------------------------------------------------
(* The writer of bufio.v1.  WriterSize may be any length, NewWriterSize    *)
(* makes it a positive one.  The variables: v1 the Writer, v2 the bytes    *)
(* below, v3 how many are accepted, v4 the call and v5 its result.         *)

Upto(k) == [i \in 1..k |-> i]

\* Of what was accepted, the last n bytes are in the buffer, the others below.
Placed(buf, n, acc, below) ==
  /\ buf \in [1..WriterSize -> Nat] /\ n \in 0..WriterSize /\ acc \in Nat /\ n <= acc
  /\ below = Upto(acc - n)
  /\ \A i \in 1..n : buf[i] = acc - n + i

\* The records are records, whatever their err and op are.
Records ==
  /\ v1 = [buf |-> v1.buf, n |-> v1.n, err |-> v1.err]
  /\ v4 = [op |-> v4.op, left |-> v4.left] /\ v4.left \in Nat

BytesPlaced == Records /\ Placed(v1.buf, v1.n, v3, v2)

LEMMA UptoSeq ==
  ASSUME NEW k \in Nat
  PROVE  Upto(k) \in Seq(Nat) /\ Len(Upto(k)) = k /\ \A i \in 1..k : Upto(k)[i] = i
  BY DEF Upto

LEMMA UptoGoesOn ==
  ASSUME NEW k \in Nat, NEW s \in Seq(Nat), \A i \in 1..Len(s) : s[i] = k + i
  PROVE  Upto(k) \o s = Upto(k + Len(s))
<1>1. Len(s) \in Nat
  BY LenProperties
<1>2. k + Len(s) \in Nat
  BY <1>1
<1>3. /\ Upto(k) \in Seq(Nat) /\ Len(Upto(k)) = k
      /\ \A i \in 1..k : Upto(k)[i] = i
  BY UptoSeq
<1>4. /\ Upto(k + Len(s)) \in Seq(Nat) /\ Len(Upto(k + Len(s))) = k + Len(s)
      /\ \A i \in 1..k + Len(s) : Upto(k + Len(s))[i] = i
  BY <1>2, UptoSeq
<1>5. /\ Upto(k) \o s \in Seq(Nat)
      /\ Len(Upto(k) \o s) = k + Len(s)
      /\ \A i \in 1..k + Len(s) :
           (Upto(k) \o s)[i] = IF i <= k THEN Upto(k)[i] ELSE s[i - k]
  BY <1>3, ConcatProperties
<1>6. \A i \in 1..k + Len(s) : (Upto(k) \o s)[i] = i
  <2> SUFFICES ASSUME NEW i \in 1..k + Len(s) PROVE (Upto(k) \o s)[i] = i
    OBVIOUS
  <2>1. CASE i <= k
    BY <1>3, <1>5, <2>1
  <2>2. CASE ~(i <= k)
    <3>1. i - k \in 1..Len(s)
      BY <1>1, <2>2
    <3>2. s[i - k] = k + (i - k)
      BY <3>1
    <3> QED BY <1>1, <1>5, <2>2, <3>2
  <2> QED BY <2>1, <2>2
<1> QED BY <1>4, <1>5, <1>6, SeqEqual

\* The first m bytes of the buffer are those that come next below.
LEMMA NextBelow ==
  ASSUME WriterSize \in Nat, NEW buf, NEW n, NEW acc, NEW below, Placed(buf, n, acc, below),
         NEW m \in 0..n
  PROVE  below \o SubSeq(buf, 1, m) = Upto(acc - n + m)
<1> DEFINE s == SubSeq(buf, 1, m)
<1>1. /\ n \in 0..WriterSize /\ buf \in [1..WriterSize -> Nat] /\ acc \in Nat /\ acc - n \in Nat
      /\ below = Upto(acc - n)
  BY DEF Placed
<1>2. m \in Nat /\ \A i \in 1..m : buf[i] \in Nat
  BY <1>1
<1>3. /\ s \in Seq(Nat)
      /\ Len(s) = IF 1 <= m THEN m - 1 + 1 ELSE 0
      /\ \A i \in 1..(m - 1 + 1) : s[i] = buf[1 + i - 1]
  BY <1>2, SubSeqProperties
<1>4. Len(s) = m /\ \A i \in 1..Len(s) : s[i] = acc - n + i
  BY <1>1, <1>2, <1>3 DEF Placed
<1> HIDE DEF s
<1>5. Upto(acc - n) \o s = Upto(acc - n + Len(s))
  BY <1>1, <1>3, <1>4, UptoGoesOn
<1> QED BY <1>1, <1>4, <1>5 DEF s

LEMMA AllInOrder ==
  ASSUME WriterSize \in Nat, NEW buf, NEW n, NEW acc, NEW below, Placed(buf, n, acc, below)
  PROVE  below \o SubSeq(buf, 1, n) = Upto(acc)
<1>1. n \in 0..n /\ acc - n + n = acc
  BY DEF Placed
<1> QED BY <1>1, NextBelow

LEMMA CopyPlaced ==
  ASSUME WriterSize \in Nat, NEW buf, NEW n, NEW acc, NEW below, Placed(buf, n, acc, below),
         NEW k \in 0..(WriterSize - n),
         NEW new, new = [i \in 1..WriterSize |-> IF i \in n + 1 .. n + k THEN acc + i - n ELSE buf[i]]
  PROVE  Placed(new, n + k, acc + k, below)
<1>1. /\ n \in 0..WriterSize /\ n \in Nat /\ buf \in [1..WriterSize -> Nat] /\ acc \in Nat /\ n <= acc
      /\ below = Upto(acc - n) /\ k \in Nat /\ \A i \in 1..n : buf[i] = acc - n + i
  BY DEF Placed
<1>2. /\ n + k \in 0..WriterSize /\ acc + k \in Nat /\ n + k <= acc + k
      /\ (acc + k) - (n + k) = acc - n
  BY <1>1
<1>3. new \in [1..WriterSize -> Nat]
  BY <1>1
<1>4. ASSUME NEW i \in 1..n + k PROVE new[i] = acc - n + i
  <2>1. i \in 1..WriterSize
    BY <1>1
  <2>2. CASE i <= n
    BY <1>1, <2>1, <2>2
  <2>3. CASE ~(i <= n)
    BY <1>1, <2>1, <2>3
  <2> QED BY <2>2, <2>3
<1> QED BY <1>1, <1>2, <1>3, <1>4 DEF Placed

LEMMA FlushPlaced ==
  ASSUME WriterSize \in Nat, NEW buf, NEW n, NEW acc, NEW below, Placed(buf, n, acc, below),
         NEW m \in 0..n,
         NEW new, new = [i \in 1..WriterSize |-> IF i + m <= n THEN buf[i + m] ELSE buf[i]]
  PROVE  Placed(new, n - m, acc, below \o SubSeq(buf, 1, m))
<1>1. /\ n \in 0..WriterSize /\ n \in Nat /\ buf \in [1..WriterSize -> Nat] /\ acc \in Nat /\ n <= acc
      /\ m \in Nat /\ m <= n /\ \A i \in 1..n : buf[i] = acc - n + i
  BY DEF Placed
<1>2. n - m \in 0..WriterSize /\ n - m <= acc /\ acc - (n - m) = acc - n + m
  BY <1>1
<1>3. new \in [1..WriterSize -> Nat]
  <2>1. \A i \in 1..WriterSize : i + m <= n => i + m \in 1..WriterSize
    BY <1>1
  <2> QED BY <1>1, <2>1
<1>4. ASSUME NEW i \in 1..n - m PROVE new[i] = acc - n + m + i
  <2>1. i \in 1..WriterSize /\ i + m \in 1..n /\ i + m <= n
    BY <1>1
  <2>2. new[i] = buf[i + m] /\ buf[i + m] = acc - n + (i + m)
    BY <1>1, <2>1
  <2> QED BY <1>1, <2>2
<1>5. below \o SubSeq(buf, 1, m) = Upto(acc - n + m)
  BY NextBelow
<1> QED BY <1>1, <1>2, <1>3, <1>4, <1>5 DEF Placed

LEMMA AllFlushed ==
  ASSUME WriterSize \in Nat, NEW buf, NEW n, NEW acc, NEW below, Placed(buf, n, acc, below)
  PROVE  Placed(buf, 0, acc, below \o SubSeq(buf, 1, n))
<1>1. below \o SubSeq(buf, 1, n) = Upto(acc)
  BY AllInOrder
<1>2. buf \in [1..WriterSize -> Nat] /\ acc \in Nat /\ acc - 0 = acc
  BY DEF Placed
<1> QED BY <1>1, <1>2 DEF Placed

LEMMA DirectPlaced ==
  ASSUME WriterSize \in Nat, NEW buf, NEW acc, NEW below, Placed(buf, 0, acc, below), NEW m \in Nat
  PROVE  Placed(buf, 0, acc + m, below \o [i \in 1..m |-> acc + i])
<1> DEFINE fresh == [i \in 1..m |-> acc + i]
<1>1. buf \in [1..WriterSize -> Nat] /\ acc \in Nat /\ below = Upto(acc) /\ acc + m \in Nat
  <2>1. acc \in Nat /\ below = Upto(acc - 0) /\ buf \in [1..WriterSize -> Nat]
    BY DEF Placed
  <2>2. acc - 0 = acc
    BY <2>1
  <2> QED BY <2>1, <2>2
<1>2. fresh \in Seq(Nat) /\ Len(fresh) = m /\ \A i \in 1..m : fresh[i] = acc + i
  <2>1. \A i \in 1..m : acc + i \in Nat
    BY <1>1
  <2> QED BY <2>1
<1> HIDE DEF fresh
<1>3. below \o fresh = Upto(acc + m)
  BY <1>1, <1>2, UptoGoesOn
<1>4. (acc + m) - 0 = acc + m
  BY <1>1
<1>5. Placed(buf, 0, acc + m, below \o fresh)
  BY <1>1, <1>3, <1>4 DEF Placed
<1> QED BY <1>5 DEF fresh

-----------------------------------------------------------------------------
(* The steps. *)

\* The call goes on or ends; what is left of it is a number.
CallGoesOn == v4' = [op |-> v4'.op, left |-> v4'.left] /\ v4'.left \in Nat

LEMMA SameBytes ==
  ASSUME BytesPlaced, CallGoesOn, UNCHANGED <<v1, v2, v3>>
  PROVE  BytesPlaced'
<1>1. Records'
  BY DEF BytesPlaced, Records, CallGoesOn
<1> QED BY <1>1 DEF BytesPlaced, Placed, Upto

LEMMA CopyStep ==
  ASSUME BytesPlaced, WriterSize \in Nat, CallGoesOn, NEW k \in 0..(WriterSize - v1.n),
         v1' = Writer!Copied(k), v3' = v3 + k, v2' = v2
  PROVE  BytesPlaced'
<1>1. /\ v1'.n = v1.n + k /\ v1'.err = v1.err
      /\ v1'.buf = [i \in 1..WriterSize |-> IF i \in v1.n + 1 .. v1.n + k THEN v3 + i - v1.n
                                                                  ELSE v1.buf[i]]
      /\ v1' = [buf |-> v1'.buf, n |-> v1'.n, err |-> v1'.err]
  BY DEF BytesPlaced, Records, Writer!Copied
<1>2. Placed(v1'.buf, v1.n + k, v3 + k, v2)
  BY <1>1, CopyPlaced DEF BytesPlaced
<1>3. Placed(v1'.buf, v1'.n, v3', v2')
  BY <1>1, <1>2
<1>4. Records'
  BY <1>1 DEF Records, CallGoesOn
<1> QED BY <1>3, <1>4 DEF BytesPlaced, Placed, Upto

\* A flush passes on the front of the buffer; only all of it leaves no error.
LEMMA FlushStep ==
  ASSUME BytesPlaced, WriterSize \in Nat, CallGoesOn, Writer!FlushBuf, v3' = v3
  PROVE  BytesPlaced' /\ (v1'.err = "" => v2' = Upto(v3'))
<1>0. Placed(v1.buf, v1.n, v3, v2) /\ v1.n \in Nat
  BY DEF BytesPlaced, Placed
<1>6. \A i \in 0..v1.n : i \in Nat /\ i <= v1.n /\ (~(i < v1.n) => i = v1.n)
  BY <1>0
<1>7. v2 \o SubSeq(v1.buf, 1, v1.n) = Upto(v3)
  BY <1>0, AllInOrder
<1>1. PICK write \in (0..v1.n) \X {"", "fail"} :
        /\ v2' = v2 \o SubSeq(v1.buf, 1, write[1])
        /\ v1' = IF Writer!ShortWrite(write[1], write[2]) = "" THEN [v1 EXCEPT !.n = 0]
                ELSE [v1 EXCEPT !.buf = [i \in 1..WriterSize |-> Writer!Rest(i, write[1])],
                               !.n = @ - write[1],
                               !.err = Writer!ShortWrite(write[1], write[2])]
  BY Zenon DEF Writer!FlushBuf, Writer!Writes
<1>5. write[1] \in 0..v1.n
  OBVIOUS
<1>2. PICK m \in 0..v1.n : m = write[1] /\ m \in Nat /\ (~(m < v1.n) => m = v1.n)
  BY <1>5, <1>6
<1>3. CASE Writer!ShortWrite(write[1], write[2]) = ""
  <2>1. m = v1.n
    <3>1. ~(write[2] = "" /\ write[1] < v1.n)
      <4> SUFFICES ASSUME write[2] = "", write[1] < v1.n PROVE FALSE
        OBVIOUS
      <4>1. Writer!ShortWrite(write[1], write[2]) = "short"
        BY Zenon DEF Writer!ShortWrite
      <4> QED BY <1>3, <4>1
    <3>2. write[2] = ""
      BY <1>3, <3>1, Zenon DEF Writer!ShortWrite
    <3>3. ~(write[1] < v1.n)
      BY <3>1, <3>2, Zenon
    <3>4. ~(m < v1.n)
      BY <1>2, <3>3, Zenon
    <3> QED BY <1>2, <3>4, Zenon
  <2>2. v2' = v2 \o SubSeq(v1.buf, 1, v1.n) /\ v1' = [v1 EXCEPT !.n = 0]
    BY <1>1, <1>2, <1>3, <2>1
  <2>3. v1'.n = 0 /\ v1'.buf = v1.buf /\ v1' = [buf |-> v1'.buf, n |-> v1'.n, err |-> v1'.err]
    BY <2>2 DEF BytesPlaced, Records
  <2>4. Placed(v1.buf, 0, v3, v2 \o SubSeq(v1.buf, 1, v1.n))
    BY <1>0, AllFlushed
  <2>6. v2' = Upto(v3)
    BY <1>7, <2>2, Zenon
  <2>7. v2' = Upto(v3')
    BY <2>6 DEF Upto
  <2>8. Placed(v1'.buf, v1'.n, v3', v2')
    BY <2>2, <2>3, <2>4, Zenon
  <2>5. Records'
    BY <2>3 DEF Records, CallGoesOn
  <2> QED BY <2>5, <2>7, <2>8 DEF BytesPlaced, Placed, Upto
<1>4. CASE Writer!ShortWrite(write[1], write[2]) # ""
  <2>1. /\ v1'.n = v1.n - m /\ v1'.err # ""
        /\ v1'.buf = [i \in 1..WriterSize |-> Writer!Rest(i, m)]
        /\ v1' = [buf |-> v1'.buf, n |-> v1'.n, err |-> v1'.err]
    BY <1>1, <1>2, <1>4 DEF BytesPlaced, Records
  <2>2. v1'.buf = [i \in 1..WriterSize |-> IF i + m <= v1.n THEN v1.buf[i + m] ELSE v1.buf[i]]
    BY <2>1 DEF Writer!Rest
  <2>3. Placed(v1'.buf, v1.n - m, v3, v2 \o SubSeq(v1.buf, 1, m))
    BY <1>0, <2>2, FlushPlaced
  <2>4. Placed(v1'.buf, v1'.n, v3', v2')
    BY <1>1, <1>2, <2>1, <2>3
  <2>5. Records'
    BY <2>1 DEF Records, CallGoesOn
  <2> QED BY <2>1, <2>4, <2>5 DEF BytesPlaced, Placed, Upto
<1> QED BY <1>3, <1>4

\* What goes below past an empty buffer.
LEMMA DirectStep ==
  ASSUME BytesPlaced, WriterSize \in Nat, CallGoesOn, v1.n = 0, NEW m \in Nat, NEW err,
         v2' = v2 \o Writer!Fresh(m), v3' = v3 + m, v1' = [v1 EXCEPT !.err = err]
  PROVE  BytesPlaced'
<1>1. v1'.n = 0 /\ v1'.buf = v1.buf /\ v1' = [buf |-> v1'.buf, n |-> v1'.n, err |-> v1'.err]
  BY DEF BytesPlaced, Records
<1>2. Placed(v1.buf, 0, v3 + m, v2 \o Writer!Fresh(m))
  BY DirectPlaced DEF BytesPlaced, Writer!Fresh
<1>3. Placed(v1'.buf, v1'.n, v3', v2')
  BY <1>1, <1>2
<1>4. Records'
  BY <1>1 DEF Records, CallGoesOn
<1> QED BY <1>3, <1>4 DEF BytesPlaced, Placed, Upto

LEMMA WriterInit == WriterSize \in Nat /\ Writer!Init => BytesPlaced
<1> SUFFICES ASSUME WriterSize \in Nat, Writer!Init PROVE BytesPlaced
  OBVIOUS
<1>1. /\ v1 = [buf |-> [i \in 1..WriterSize |-> 0], n |-> 0, err |-> ""]
      /\ v2 = <<>> /\ v3 = 0 /\ v4 = [op |-> "none", left |-> 0]
  BY DEF Writer!Init, Writer!Idle
<1>2. Records /\ v1.n = 0 /\ v1.buf = [i \in 1..WriterSize |-> 0]
  BY <1>1 DEF Records
<1>3. v2 = Upto(0)
  <2>1. Upto(0) \in Seq(Nat) /\ Len(Upto(0)) = 0
    BY UptoSeq
  <2> QED BY <1>1, <2>1, EmptySeq
<1>4. Placed(v1.buf, 0, 0, v2)
  BY <1>2, <1>3 DEF Placed
<1> QED BY <1>1, <1>2, <1>4 DEF BytesPlaced

\* A call that returns, or has n less to do, goes on.
LEMMA EndedCall == ASSUME v4' = Writer!Idle PROVE CallGoesOn
  BY DEF Writer!Idle, CallGoesOn

LEMMA LessLeft ==
  ASSUME Records, NEW m \in Nat, m <= v4.left, v4' = [v4 EXCEPT !.left = @ - m]
  PROVE  CallGoesOn /\ v4'.op = v4.op
  BY DEF Records, CallGoesOn

LEMMA WriterStep ==
  ASSUME BytesPlaced, WriterSize \in Nat, [Writer!Next]_Writer!vars
  PROVE  BytesPlaced' /\ Writer!FlushForwards
<1>0. /\ Records /\ v4.left \in Nat /\ v3 \in Nat
      /\ v1.n \in Nat /\ v1.n <= WriterSize /\ v1.n <= v3
  BY DEF BytesPlaced, Records, Placed
<1>1. ASSUME NEW op, NEW n \in Nat, Writer!Start(op, n)
      PROVE  BytesPlaced' /\ Writer!FlushForwards
  <2>1. UNCHANGED <<v1, v2, v3>> /\ v4' = [op |-> op, left |-> n] /\ v4 = Writer!Idle
    BY <1>1, Zenon DEF Writer!Start
  <2>2. CallGoesOn
    BY <2>1 DEF CallGoesOn
  <2>3. v4.op # "Flush" /\ v2' = v2
    BY <2>1 DEF Writer!Idle
  <2> QED BY <2>1, <2>2, <2>3, SameBytes DEF Writer!FlushForwards
<1>2. CASE Writer!WriteDirect
  <2>1. v1.n = 0 /\ v1.err = "" /\ v4.op # "Flush"
    BY <1>2 DEF Writer!WriteDirect, Writer!TooLong
  <2>8. \A i \in 0..v4.left : i \in Nat /\ i <= v4.left
    BY <1>0
  <2>2. PICK write \in (0..v4.left) \X {"", "fail"} :
          /\ v2' = v2 \o Writer!Fresh(write[1])
          /\ v3' = v3 + write[1]
          /\ v4' = [v4 EXCEPT !.left = @ - write[1]]
          /\ v1' = [v1 EXCEPT !.err = write[2]]
    BY <1>2, Zenon DEF Writer!WriteDirect, Writer!Writes
  <2>7. write[1] \in 0..v4.left
    OBVIOUS
  <2>3. PICK m : m = write[1]
    OBVIOUS
  <2>4. m \in Nat /\ m <= v4.left
    BY <2>3, <2>7, <2>8
  <2>5. CallGoesOn
    BY <1>0, <2>2, <2>3, <2>4, LessLeft
  <2>6. BytesPlaced'
    BY <2>1, <2>2, <2>3, <2>4, <2>5, DirectStep
  <2> QED BY <2>1, <2>6, Zenon DEF Writer!FlushForwards
<1>3. CASE Writer!WriteFills
  <2>1. v2' = v2 /\ v4.op # "Flush"
    BY <1>3 DEF Writer!WriteFills, Writer!TooLong, Writer!Writing
  <2>2. /\ v4.left > WriterSize - v1.n /\ v1' = Writer!Copied(WriterSize - v1.n)
        /\ v3' = v3 + (WriterSize - v1.n)
        /\ v4' = [v4 EXCEPT !.left = @ - (WriterSize - v1.n)]
    BY <1>3, Zenon DEF Writer!WriteFills, Writer!TooLong, Writer!Available
  <2>3. WriterSize - v1.n \in 0..(WriterSize - v1.n) /\ WriterSize - v1.n \in Nat
        /\ WriterSize - v1.n <= v4.left
    BY <1>0, <2>2
  <2>4. CallGoesOn
    BY <1>0, <2>2, <2>3, LessLeft
  <2>5. BytesPlaced'
    BY <2>1, <2>2, <2>3, <2>4, CopyStep
  <2> QED BY <2>1, <2>5, Zenon DEF Writer!FlushForwards
<1>4. CASE Writer!WriteFlushes
  <2>1. v1.err = "" /\ Writer!FlushBuf /\ v3' = v3 /\ v4' = v4
    BY <1>4, Zenon DEF Writer!WriteFlushes
  <2>2. v4.op # "Flush"
    BY <1>4 DEF Writer!WriteFlushes, Writer!Writing
  <2>3. CallGoesOn
    BY <1>0, <2>1 DEF Records, CallGoesOn
  <2>4. BytesPlaced'
    BY <2>1, <2>3, FlushStep
  <2> QED BY <2>1, <2>2, <2>4, Zenon DEF Writer!FlushForwards
<1>5. CASE Writer!WriteEnds
  <2>1. v4.op # "Flush" /\ v2' = v2
    BY <1>5 DEF Writer!WriteEnds, Writer!Writing
  <2>2. CallGoesOn
    <3>1. v4' = Writer!Idle
      BY <1>5, Zenon DEF Writer!WriteEnds, Writer!Return
    <3> QED BY <3>1, EndedCall
  <2>3. CASE UNCHANGED <<v1, v3>>
    <3>1. BytesPlaced'
      BY <2>1, <2>2, <2>3, SameBytes
    <3> QED BY <2>1, <3>1, Zenon DEF Writer!FlushForwards
  <2>4. CASE /\ v4.left <= WriterSize - v1.n /\ v1' = Writer!Copied(v4.left)
             /\ v3' = v3 + v4.left
    <3>1. v4.left \in 0..(WriterSize - v1.n)
      BY <1>0, <2>4
    <3>2. BytesPlaced'
      BY <2>1, <2>2, <2>4, <3>1, CopyStep
    <3> QED BY <2>1, <3>2, Zenon DEF Writer!FlushForwards
  <2> QED BY <1>5, <2>3, <2>4, Zenon DEF Writer!WriteEnds, Writer!Available
<1>6. CASE Writer!Flush
  <2>1. v3' = v3
    BY <1>6 DEF Writer!Flush
  <2>2. CallGoesOn
    <3>1. v4' = Writer!Idle
      BY <1>6, Zenon DEF Writer!Flush, Writer!Return
    <3> QED BY <3>1, EndedCall
  <2>3. CASE v1.err # "" \/ v1.n = 0
    <3>1. UNCHANGED <<v1, v2>> /\ v5'.err = v1.err
      <4>1. UNCHANGED <<v1, v2>> /\ v5' = [op |-> v4.op, err |-> v1.err]
        BY <1>6, <2>3, Zenon DEF Writer!Flush, Writer!Return
      <4> QED BY <4>1
    <3>2. BytesPlaced'
      BY <2>1, <2>2, <3>1, SameBytes
    <3>3. v1.n = 0 => v2' = Upto(v3')
      <4>1. v2 = Upto(v3 - v1.n)
        BY DEF BytesPlaced, Placed
      <4>2. v1.n = 0 => v3 - v1.n = v3
        BY <1>0
      <4> QED BY <2>1, <3>1, <4>1, <4>2 DEF Upto
    <3>4. v5'.err = "" => v2' = Upto(v3')
      BY <2>3, <3>1, <3>3
    <3> QED BY <3>1, <3>2, <3>4, Zenon DEF Writer!FlushForwards, Upto
  <2>4. CASE ~(v1.err # "" \/ v1.n = 0)
    <3>1. Writer!FlushBuf /\ v5'.err = v1'.err
      <4>1. Writer!FlushBuf /\ v5' = [op |-> v4.op, err |-> v1'.err]
        BY <1>6, <2>4, Zenon DEF Writer!Flush, Writer!Return
      <4> QED BY <4>1
    <3>2. BytesPlaced' /\ (v1'.err = "" => v2' = Upto(v3'))
      BY <2>1, <2>2, <3>1, FlushStep
    <3> QED BY <2>4, <3>1, <3>2, Zenon DEF Writer!FlushForwards, Upto
  <2> QED BY <2>3, <2>4
<1>7. CASE Writer!ReadFromBelow
  <2>1. v1.n = 0 /\ v4.op = "ReadFrom" /\ v1' = v1
    BY <1>7 DEF Writer!ReadFromBelow
  <2>2. PICK n \in 0..v4.left :
          v2' = v2 \o Writer!Fresh(n) /\ v3' = v3 + n /\ v4' = Writer!Idle
    BY <1>7, Zenon DEF Writer!ReadFromBelow, Writer!Return
  <2>3. n \in Nat /\ CallGoesOn
    BY <1>0, <2>2, EndedCall
  <2>4. v1' = [v1 EXCEPT !.err = v1.err]
    BY <1>0, <2>1 DEF Records
  <2>5. BytesPlaced'
    BY <2>1, <2>2, <2>3, <2>4, DirectStep
  <2>6. v4.op # "Flush"
    BY <2>1
  <2> QED BY <2>1, <2>5, <2>6, Zenon DEF Writer!FlushForwards
<1>8. CASE Writer!ReadFromFlushes
  <2>1. v4.op # "Flush" /\ v3' = v3
    BY <1>8 DEF Writer!ReadFromFlushes
  <2>2. CallGoesOn
    <3>1. v4' = Writer!Idle \/ v4' = [v4 EXCEPT !.op = "reading"]
      BY <1>8, Zenon DEF Writer!ReadFromFlushes, Writer!Return
    <3> QED BY <1>0, <3>1, EndedCall DEF CallGoesOn, Records
  <2>3. CASE v1.err # ""
    <3>1. UNCHANGED <<v1, v2>>
      BY <1>8, <2>3, Zenon DEF Writer!ReadFromFlushes
    <3>2. BytesPlaced'
      BY <2>1, <2>2, <3>1, SameBytes
    <3> QED BY <2>1, <3>1, <3>2, Zenon DEF Writer!FlushForwards
  <2>4. CASE v1.err = ""
    <3>1. Writer!FlushBuf
      BY <1>8, <2>4, Zenon DEF Writer!ReadFromFlushes
    <3>2. BytesPlaced'
      BY <2>1, <2>2, <3>1, FlushStep
    <3> QED BY <2>1, <2>4, <3>2, Zenon DEF Writer!FlushForwards
  <2> QED BY <2>3, <2>4
<1>9. CASE Writer!ReadFromReads
  <2>1. v2' = v2 /\ v4.op # "Flush"
    BY <1>9 DEF Writer!ReadFromReads
  <2>2. PICK m \in 0..Writer!Least(WriterSize - v1.n, v4.left) :
          /\ v1' = Writer!Copied(m) /\ v3' = v3 + m
          /\ \/ v4' = [op |-> "reading", left |-> v4.left - m]
             \/ v4' = Writer!Idle
             \/ v4' = [op |-> "Flush", left |-> 0]
    BY <1>9, Zenon DEF Writer!ReadFromReads, Writer!Return, Writer!Available
  <2>3. m \in 0..(WriterSize - v1.n) /\ v4.left - m \in Nat
    BY <1>0 DEF Writer!Least
  <2>4. CallGoesOn
    BY <2>2, <2>3, EndedCall DEF CallGoesOn
  <2>5. BytesPlaced'
    BY <2>1, <2>2, <2>3, <2>4, CopyStep
  <2> QED BY <2>1, <2>5, Zenon DEF Writer!FlushForwards
<1>10. CASE UNCHANGED Writer!vars
  <2>1. UNCHANGED <<v1, v2, v3, v4, v5>>
    BY <1>10 DEF Writer!vars
  <2>2. CallGoesOn
    BY <1>0, <2>1 DEF CallGoesOn, Records
  <2>3. BytesPlaced'
    BY <2>1, <2>2, SameBytes
  <2>4. v4' = Writer!Idle => v4.op # "Flush"
    BY <2>1 DEF Writer!Idle
  <2> QED BY <2>1, <2>3, <2>4, Zenon DEF Writer!FlushForwards
<1>11. CASE \E n \in 1..WriterSize + 2 : \/ Writer!Start("Write", n) \/ Writer!Start("WriteString", n)
                                     \/ Writer!Start("ReadFrom", n)
  BY <1>1, <1>11
<1>12. CASE \/ Writer!Start("WriteString", 1) \/ Writer!Start("WriteRune", Writer!UTFMax)
            \/ Writer!Start("Flush", 0)
  BY <1>1, <1>12 DEF Writer!UTFMax
<1> QED BY <1>2, <1>3, <1>4, <1>5, <1>6, <1>7, <1>8, <1>9, <1>10, <1>11, <1>12, Zenon DEF Writer!Next

LEMMA PlacedIsWritten ==
  ASSUME WriterSize \in Nat, BytesPlaced PROVE Writer!WrittenInOrder
<1>1. Placed(v1.buf, v1.n, v3, v2)
  BY DEF BytesPlaced
<1>2. v2 \o SubSeq(v1.buf, 1, v1.n) = Upto(v3)
  BY <1>1, AllInOrder
<1> QED BY <1>2, Zenon DEF Writer!WrittenInOrder, Upto

-----------------------------------------------------------------------------
(* The lexer of TOML, for any document and any arrays within arrays.  The  *)
(* variables: v3 the state function, v4 the stack of those to go back to,  *)
(* v6 the parser.                                                          *)
TopStates   == {"Top", "TopEnd", "TableStart"}
ArrayStates == {"ArrayValue", "ArrayValueEnd"}
ValueStates == {"Value", "String", "RawString", "StringEscape", "MultilineStringEscape",
                "StringUnicode", "MultilineStringUnicode", "MultilineString", "MultilineRawString",
                "NumberOrDate", "DateAfterYear", "NumberStart", "Number", "FloatStart", "Float",
                "Const"}
Backs == {"Top", "TopEnd", "TableEnd", "ArrayTableEnd", "ArrayValue", "ArrayValueEnd"}

\* The states to go back to from a value within d arrays, and what the parser
\* waits for there.
Nest(d) == [i \in 1..d + 1 |-> IF i <= d THEN "ArrayValueEnd" ELSE "TopEnd"]
At(wait, depth) == [wait |-> wait, depth |-> depth]
Whys == {"error", "unreadable", "panic"}
Wanted(d) == IF d = 0 THEN "value" ELSE "element"
After(d) == IF d = 0 THEN "top" ELSE "element"

TopFits(k, s, p) == k \in TopStates /\ s = <<>> /\ p = At("top", 0)

TableFits(k, s, p) ==
  \/ k \in {"TableNameStart", "TableName"} /\ s = <<"TableEnd">>
     /\ p \in {At("TableStart", 0), At("TableEnd", 0)}
  \/ k \in {"TableNameStart", "TableName"} /\ s = <<"ArrayTableEnd">>
     /\ p \in {At("ArrayTableStart", 0), At("ArrayTableEnd", 0)}
  \/ k \in {"TableEnd", "ArrayTableEnd"} /\ s = <<>> /\ p = At(k, 0)

KeyFits(k, s, p) ==
  /\ s = Nest(0)
  /\ \/ k = "KeyStart" /\ p = At("top", 0)
     \/ k = "Key" /\ p = At("key", 0)
     \/ k = "KeyEnd" /\ p = At("value", 0)

ValueFits(k, s, p) == k \in ValueStates /\ \E d \in Nat : s = Nest(d) /\ p = At(Wanted(d), d)

ArrayFits(k, s, p) == k \in ArrayStates /\ \E d \in Nat : s = Nest(d) /\ p = At("element", d + 1)

CommentFits(k, s, p) ==
  /\ k \in {"CommentStart", "Comment"}
  /\ \/ s = <<"Top">> /\ p = At(IF k = "Comment" THEN "comment" ELSE "top", 0)
     \/ \E d \in Nat, back \in ArrayStates :
          /\ s = <<back>> \o Nest(d)
          /\ p = At(IF k = "Comment" THEN "comment" ELSE "element", d + 1)

OverFits(k, s, p) ==
  k = "nil" /\ ((\E why \in Whys : p = At(why, p.depth)) \/ (s = <<>> /\ p = At("done", 0)))

Fits(k, s, p) ==
  \/ TopFits(k, s, p) \/ TableFits(k, s, p) \/ KeyFits(k, s, p) \/ ValueFits(k, s, p)
  \/ ArrayFits(k, s, p) \/ CommentFits(k, s, p) \/ OverFits(k, s, p)

-----------------------------------------------------------------------------
(* The stack. *)
LEMMA PushPop ==
  ASSUME NEW back \in Backs, NEW rest \in Seq(Backs)
  PROVE  /\ <<back>> \o rest \in Seq(Backs) /\ <<back>> \o rest # <<>>
         /\ Head(<<back>> \o rest) = back /\ Tail(<<back>> \o rest) = rest
<1> DEFINE s == <<back>> \o rest
<1>1. <<back>> \in Seq(Backs) /\ Len(<<back>>) = 1 /\ <<back>>[1] = back
  OBVIOUS
<1>2. Len(rest) \in Nat
  BY LenProperties
<1>3. /\ s \in Seq(Backs) /\ Len(s) = 1 + Len(rest)
      /\ \A i \in 1..1 + Len(rest) : s[i] = IF i <= 1 THEN <<back>>[i] ELSE rest[i - 1]
  BY <1>1, ConcatProperties
<1> HIDE DEF s
<1>4. s # <<>>
  <2>1. Len(s) # 0
    BY <1>2, <1>3
  <2> QED BY <2>1, EmptySeq
<1>5. s[1] = back /\ \A i \in 1..Len(rest) : s[i + 1] = rest[i]
  <2>1. 1 \in 1..1 + Len(rest) /\ s[1] = <<back>>[1]
    BY <1>2, <1>3
  <2>2. \A i \in 1..Len(rest) : i + 1 \in 1..1 + Len(rest) /\ ~(i + 1 <= 1) /\ (i + 1) - 1 = i
    BY <1>2
  <2> QED BY <1>1, <1>3, <2>1, <2>2
<1>6. Head(s) = back
  BY <1>3, <1>5
<1>7. /\ Tail(s) \in Seq(Backs) /\ Len(Tail(s)) = Len(rest)
      /\ \A i \in 1..Len(Tail(s)) : Tail(s)[i] = s[i + 1]
  BY <1>2, <1>3, <1>4, HeadTailProperties
<1>8. Tail(s) = rest
  BY <1>5, <1>7, SeqEqual
<1> QED BY <1>3, <1>4, <1>6, <1>8 DEF s

LEMMA NestSeq ==
  ASSUME NEW d \in Nat
  PROVE  /\ Nest(d) \in Seq(Backs) /\ Len(Nest(d)) = d + 1
         /\ \A i \in 1..d + 1 : Nest(d)[i] = IF i <= d THEN "ArrayValueEnd" ELSE "TopEnd"
  BY DEF Nest, Backs

LEMMA NestOne == Nest(0) = <<"TopEnd">>
<1>0. /\ Nest(0) \in Seq(Backs) /\ Len(Nest(0)) = 0 + 1
      /\ \A i \in 1..0 + 1 : Nest(0)[i] = IF i <= 0 THEN "ArrayValueEnd" ELSE "TopEnd"
  BY NestSeq
<1>1. Nest(0) \in Seq(Backs) /\ Len(Nest(0)) = 1 /\ Nest(0)[1] = "TopEnd"
  BY <1>0
<1>2. <<"TopEnd">> \in Seq(Backs) /\ Len(<<"TopEnd">>) = 1 /\ <<"TopEnd">>[1] = "TopEnd"
  BY DEF Backs
<1> QED BY <1>1, <1>2, SeqEqual

LEMMA NestMore ==
  ASSUME NEW d \in Nat
  PROVE  <<"ArrayValueEnd">> \o Nest(d) = Nest(d + 1)
<1> DEFINE s == <<"ArrayValueEnd">> \o Nest(d)
<1>1. /\ <<"ArrayValueEnd">> \in Seq(Backs) /\ Len(<<"ArrayValueEnd">>) = 1
      /\ <<"ArrayValueEnd">>[1] = "ArrayValueEnd"
  BY DEF Backs
<1>2. /\ Nest(d) \in Seq(Backs) /\ Len(Nest(d)) = d + 1
      /\ \A i \in 1..d + 1 : Nest(d)[i] = IF i <= d THEN "ArrayValueEnd" ELSE "TopEnd"
  BY NestSeq
<1>3. /\ s \in Seq(Backs) /\ Len(s) = 1 + (d + 1)
      /\ \A i \in 1..1 + (d + 1) : s[i] = IF i <= 1 THEN <<"ArrayValueEnd">>[i] ELSE Nest(d)[i - 1]
  BY <1>1, <1>2, ConcatProperties
<1> HIDE DEF s
<1>4. /\ d + 1 \in Nat /\ Nest(d + 1) \in Seq(Backs) /\ Len(Nest(d + 1)) = d + 1 + 1
      /\ \A i \in 1..d + 1 + 1 : Nest(d + 1)[i] = IF i <= d + 1 THEN "ArrayValueEnd" ELSE "TopEnd"
  BY NestSeq
<1>5. ASSUME NEW i \in 1..d + 1 + 1 PROVE s[i] = Nest(d + 1)[i]
  <2>1. CASE i = 1
    BY <1>1, <1>3, <1>4, <2>1
  <2>2. CASE i # 1
    <3>1. /\ i - 1 \in 1..d + 1 /\ ~(i <= 1) /\ i \in 1..1 + (d + 1)
          /\ i - 1 <= d <=> i <= d + 1
      BY <2>2
    <3>2. s[i] = Nest(d)[i - 1]
      BY <1>3, <3>1
    <3>3. Nest(d)[i - 1] = IF i - 1 <= d THEN "ArrayValueEnd" ELSE "TopEnd"
      BY <1>2, <3>1
    <3> QED BY <1>4, <3>1, <3>2, <3>3
  <2> QED BY <2>1, <2>2
<1>6. Len(s) = Len(Nest(d + 1))
  BY <1>3, <1>4
<1>7. s = Nest(d + 1)
  BY <1>3, <1>4, <1>5, <1>6, SeqEqual
<1> QED BY <1>7 DEF s

\* Back from a value within d arrays.
LEMMA NestPop ==
  ASSUME NEW d \in Nat
  PROVE  /\ Nest(d) # <<>>
         /\ d = 0 => Head(Nest(d)) = "TopEnd" /\ Tail(Nest(d)) = <<>>
         /\ d # 0 => Head(Nest(d)) = "ArrayValueEnd" /\ Tail(Nest(d)) = Nest(d - 1)
<1>1. CASE d = 0
  <2>1. <<>> \in Seq(Backs) /\ <<"TopEnd">> \o <<>> = <<"TopEnd">> /\ "TopEnd" \in Backs
    BY EmptySeq DEF Backs
  <2>2. Nest(0) # <<>> /\ Head(Nest(0)) = "TopEnd" /\ Tail(Nest(0)) = <<>>
    BY <2>1, PushPop, NestOne
  <2> QED BY <1>1, <2>2
<1>2. CASE d # 0
  <2>1. d - 1 \in Nat /\ (d - 1) + 1 = d
    BY <1>2
  <2>2. Nest(d - 1) \in Seq(Backs)
    BY <2>1, NestSeq
  <2>3. <<"ArrayValueEnd">> \o Nest(d - 1) = Nest(d)
    BY <2>1, NestMore
  <2>4. "ArrayValueEnd" \in Backs
    BY DEF Backs
  <2>5. Nest(d) # <<>> /\ Head(Nest(d)) = "ArrayValueEnd" /\ Tail(Nest(d)) = Nest(d - 1)
    BY <2>2, <2>3, <2>4, PushPop
  <2> QED BY <1>2, <2>5
<1> QED BY <1>1, <1>2

-----------------------------------------------------------------------------
(* What a state function does to the state, the stack and the parser. *)
FitsNow  == Fits(v3, v4, v6)
FitsNext == Fits(v3', v4', v6')

Stays(to)        == v3' = to /\ v4' = v4 /\ v6' = v6
Pushes(to, back) == v3' = to /\ v4' = <<back>> \o v4 /\ v6' = v6
Emits(typ, to)   == v3' = to /\ v4' = v4 /\ v6' = Lexer!Parse(v6, typ)
Fails            == v3' = "nil" /\ \E why \in Whys : v6' = [v6 EXCEPT !.wait = why]
Pops(typ) ==
  v4 # <<>> => /\ v3' = Head(v4) /\ v4' = Tail(v4)
                  /\ v6' = Lexer!Parse(v6, typ)

LEMMA GoStays ==
  ASSUME NEW n, NEW to, Lexer!Go(n, to) PROVE Stays(to)
  BY DEF Lexer!Go, Stays

LEMMA RegressStays ==
  ASSUME NEW n, NEW to, Lexer!Regress(n, to) PROVE Stays(to)
  BY DEF Lexer!Regress, Stays

LEMMA PushPushes ==
  ASSUME NEW n, NEW to, NEW back, Lexer!Push(n, to, back) PROVE Pushes(to, back)
  BY DEF Lexer!Push, Pushes

LEMMA EmitEmits ==
  ASSUME NEW typ, NEW n, NEW to, Lexer!Emit(typ, n, to) PROVE Emits(typ, to)
  BY DEF Lexer!Emit, Emits

LEMMA ErrorFails == Lexer!Error => Fails
  BY DEF Lexer!Error, Lexer!Emit, Lexer!Parse, Fails, Whys

LEMMA StopFails ==
  ASSUME NEW why \in Whys, Lexer!Stop(why) PROVE Fails
  BY DEF Lexer!Stop, Fails

LEMMA EmitPopPops ==
  ASSUME NEW typ, NEW n, Lexer!EmitPop(typ, n)
  PROVE  Pops(typ) \/ (Fails /\ typ \in Lexer!Primitives)
<1>1. CASE typ \in DOMAIN Lexer!Misread /\ Lexer!Stop(Lexer!Misread[typ])
  <2>1. DOMAIN Lexer!Misread = {"Integer", "Float", "Datetime", "String", "MultilineString"}
    BY DEF Lexer!Misread
  <2>2. typ \in Lexer!Primitives
    BY <1>1, <2>1 DEF Lexer!Primitives
  <2>3. Lexer!Misread[typ] \in Whys
    BY <1>1, <2>1 DEF Lexer!Misread, Whys
  <2> QED BY <1>1, <2>2, <2>3, StopFails
<1>2. CASE ~(typ \in DOMAIN Lexer!Misread /\ Lexer!Stop(Lexer!Misread[typ]))
  BY <1>2 DEF Lexer!EmitPop, Pops
<1> QED BY <1>1, <1>2

\* After an error the parser asks for nothing more.
LEMMA FailsFits == ASSUME Fails, NEW wait, NEW depth, v6 = At(wait, depth) PROVE FitsNext
<1>1. v3' = "nil" /\ \E why \in Whys : v6' = [v6 EXCEPT !.wait = why]
  BY DEF Fails
<1>2. \E why \in Whys : v6' = At(why, v6'.depth)
  BY <1>1 DEF At
<1>3. OverFits(v3', v4', v6')
  BY <1>1, <1>2 DEF OverFits
<1> QED BY <1>3 DEF FitsNext, Fits

LEMMA ParserIsRecord == ASSUME FitsNow PROVE v6 = At(v6.wait, v6.depth)
<1>1. \E wait, depth : v6 = At(wait, depth)
  BY Zenon DEF FitsNow, Fits, TopFits, TableFits, KeyFits, ValueFits, ArrayFits, CommentFits, OverFits
<1> QED BY <1>1 DEF At

-----------------------------------------------------------------------------
(* What the parser makes of an item where it may come. *)
LEMMA TopItems ==
  /\ Lexer!Parse(At("top", 0), "EOF") = At("done", 0)
  /\ Lexer!Parse(At("top", 0), "CommentStart") = At("comment", 0)
  /\ Lexer!Parse(At("top", 0), "KeyStart") = At("key", 0)
  /\ Lexer!Parse(At("top", 0), "TableStart") = At("TableStart", 0)
  /\ Lexer!Parse(At("top", 0), "ArrayTableStart") = At("ArrayTableStart", 0)
  BY DEF Lexer!Parse, Lexer!ParseItem, At

LEMMA KeyItem == Lexer!Parse(At("key", 0), "Text") = At("value", 0)
  BY DEF Lexer!Parse, Lexer!ParseItem, At

LEMMA TableItems ==
  /\ \A wait \in {"TableStart", "TableEnd"} :
       Lexer!Parse(At(wait, 0), "Text") = At("TableEnd", 0)
  /\ \A wait \in {"ArrayTableStart", "ArrayTableEnd"} :
       Lexer!Parse(At(wait, 0), "Text") = At("ArrayTableEnd", 0)
  /\ Lexer!Parse(At("TableEnd", 0), "TableEnd") = At("top", 0)
  /\ Lexer!Parse(At("ArrayTableEnd", 0), "ArrayTableEnd") = At("top", 0)
  BY DEF Lexer!Parse, Lexer!ParseItem, Lexer!Back, At

LEMMA BackAfter ==
  ASSUME NEW d \in Nat, NEW wait, wait # "bug"
  PROVE  Lexer!Back(At(wait, d)) = At(After(d), d)
<1>1. d > 0 <=> d # 0
  OBVIOUS
<1> QED BY <1>1 DEF Lexer!Back, At, After

LEMMA CommentItems ==
  ASSUME NEW d \in Nat
  PROVE  /\ Lexer!Parse(At("element", d), "CommentStart") = At("comment", d)
         /\ Lexer!Parse(At("comment", d), "Text") = At(After(d), d)
<1>1. Lexer!Parse(At("element", d), "CommentStart") = At("comment", d)
  BY DEF Lexer!Parse, Lexer!ParseItem, At
<1>2. Lexer!Parse(At("comment", d), "Text") = Lexer!Back(At("comment", d))
  BY DEF Lexer!Parse, Lexer!ParseItem, At
<1> QED BY <1>1, <1>2, BackAfter

LEMMA ValueItems ==
  ASSUME NEW d \in Nat
  PROVE  /\ \A typ \in Lexer!Primitives : Lexer!Parse(At(Wanted(d), d), typ) = At(After(d), d)
         /\ Lexer!Parse(At(Wanted(d), d), "Array") = At("element", d + 1)
         /\ Lexer!Parse(At("element", d + 1), "ArrayEnd") = At(After(d), d)
<1>1. Wanted(d) \in {"value", "element"}
  BY DEF Wanted
<1>2. ASSUME NEW typ \in Lexer!Primitives, NEW wait \in {"value", "element"}
      PROVE  Lexer!Parse(At(wait, d), typ) = At(After(d), d)
  <2>1. /\ typ # "Error" /\ typ # "Text"  /\ typ \notin {"TableEnd", "ArrayTableEnd"}
        /\ typ \notin {"ArrayEnd", "CommentStart"}
    BY DEF Lexer!Primitives
  <2>2. Lexer!Parse(At(wait, d), typ) = Lexer!ParseValue(At(wait, d), typ)
    BY <2>1 DEF Lexer!Parse, Lexer!ParseItem, At
  <2>3. Lexer!ParseValue(At(wait, d), typ) = Lexer!Back(At(wait, d))
    BY <2>1 DEF Lexer!ParseValue, Lexer!Primitives
  <2>4. wait # "bug"
    OBVIOUS
  <2> QED BY <2>2, <2>3, <2>4, BackAfter
<1>3. ASSUME NEW wait \in {"value", "element"}
      PROVE  Lexer!Parse(At(wait, d), "Array") = At("element", d + 1)
  <2>1. Lexer!Parse(At(wait, d), "Array") = Lexer!ParseValue(At(wait, d), "Array")
    BY DEF Lexer!Parse, Lexer!ParseItem, At
  <2>2. Lexer!ParseValue(At(wait, d), "Array") = At("element", At(wait, d).depth + 1)
    BY DEF Lexer!ParseValue, Lexer!Primitives, At
  <2>3. At(wait, d).depth = d
    BY DEF At
  <2> QED BY <2>1, <2>2, <2>3
<1>4. Lexer!Parse(At("element", d + 1), "ArrayEnd") = At(After(d), d)
  <2> DEFINE up == d + 1
  <2>1. up - 1 = d
    OBVIOUS
  <2> HIDE DEF up
  <2>2. [At("element", up) EXCEPT !.depth = @ - 1] = At("element", d)
    BY <2>1 DEF At
  <2>3. Lexer!Parse(At("element", up), "ArrayEnd")
          = Lexer!Back([At("element", up) EXCEPT !.depth = @ - 1])
    BY DEF Lexer!Parse, Lexer!ParseItem, At
  <2>4. Lexer!Parse(At("element", up), "ArrayEnd") = At(After(d), d)
    BY <2>2, <2>3, BackAfter
  <2> QED BY <2>4 DEF up
<1> QED BY <1>1, <1>2, <1>3, <1>4

-----------------------------------------------------------------------------
(* The top. *)
LEMMA CommentAtTop ==
  ASSUME v4 = <<>>, v6 = At("top", 0), Pushes("CommentStart", "Top") PROVE FitsNext
<1>1. <<"Top">> \o <<>> = <<"Top">>
  OBVIOUS
<1>2. v3' = "CommentStart" /\ v4' = <<"Top">> /\ v6' = At("top", 0)
  BY <1>1 DEF Pushes
<1> QED BY <1>2 DEF FitsNext, Fits, CommentFits

LEMMA TopStep ==
  ASSUME FitsNow, Lexer!Top PROVE FitsNext
<1>1. v3 = "Top"
  BY DEF Lexer!Top, Lexer!In
<1>2. v4 = <<>> /\ v6 = At("top", 0)
  BY <1>1 DEF FitsNow, Fits, TopFits, TableFits, KeyFits, ValueFits, ArrayFits, CommentFits, OverFits,
              ValueStates, ArrayStates
<1>3. \/ Stays("Top") \/ Stays("TableStart") \/ Fails \/ Emits("EOF", "nil")
      \/ Pushes("CommentStart", "Top") \/ Pushes("KeyStart", "TopEnd")
  BY GoStays, PushPushes, EmitEmits, ErrorFails DEF Lexer!Top
<1>4. CASE Stays("Top") \/ Stays("TableStart")
  BY <1>2, <1>4 DEF Stays, FitsNext, Fits, TopFits, TopStates
<1>5. CASE Fails
  BY <1>2, <1>5, FailsFits
<1>6. CASE Emits("EOF", "nil")
  <2>1. v3' = "nil" /\ v4' = <<>> /\ v6' = At("done", 0)
    BY <1>2, <1>6, TopItems DEF Emits
  <2> QED BY <2>1 DEF FitsNext, Fits, OverFits
<1>7. CASE Pushes("CommentStart", "Top")
  BY <1>2, <1>7, CommentAtTop
<1>8. CASE Pushes("KeyStart", "TopEnd")
  <2>1. <<"TopEnd">> \o <<>> = <<"TopEnd">>
    OBVIOUS
  <2>2. v3' = "KeyStart" /\ v4' = Nest(0) /\ v6' = At("top", 0)
    BY <1>2, <1>8, <2>1, NestOne DEF Pushes
  <2> QED BY <2>2 DEF FitsNext, Fits, KeyFits
<1> QED BY <1>3, <1>4, <1>5, <1>6, <1>7, <1>8

\* After a value or a comment within d arrays: what Nest(d) says comes next.
LEMMA PopsNest ==
  ASSUME NEW d \in Nat, NEW typ, v4 = Nest(d), Pops(typ),
         Lexer!Parse(v6, typ) = At(After(d), d)
  PROVE  FitsNext
<1>1. /\ v3' = Head(Nest(d)) /\ v4' = Tail(Nest(d)) /\ v6' = At(After(d), d)
  BY NestPop DEF Pops
<1>2. CASE d = 0
  <2>1. v3' = "TopEnd" /\ v4' = <<>> /\ v6' = At("top", 0)
    BY <1>1, <1>2, NestPop DEF After
  <2> QED BY <2>1 DEF FitsNext, Fits, TopFits, TopStates
<1>3. CASE d # 0
  <2>1. v3' = "ArrayValueEnd" /\ v4' = Nest(d - 1) /\ v6' = At("element", d)
    BY <1>1, <1>3, NestPop DEF After
  <2>2. d - 1 \in Nat /\ (d - 1) + 1 = d
    BY <1>3
  <2>3. \E e \in Nat : v4' = Nest(e) /\ v6' = At("element", e + 1)
    BY <2>1, <2>2
  <2> QED BY <2>1, <2>3 DEF FitsNext, Fits, ArrayFits, ArrayStates
<1> QED BY <1>2, <1>3

LEMMA TopEndStep ==
  ASSUME FitsNow, Lexer!TopEnd PROVE FitsNext
<1>1. v3 = "TopEnd"
  BY DEF Lexer!TopEnd, Lexer!In
<1>2. v4 = <<>> /\ v6 = At("top", 0)
  BY <1>1 DEF FitsNow, Fits, TopFits, TableFits, KeyFits, ValueFits, ArrayFits, CommentFits, OverFits,
              ValueStates, ArrayStates
<1>3. Stays("Top") \/ Stays("TopEnd") \/ Fails \/ Pushes("CommentStart", "Top")
  BY GoStays, PushPushes, ErrorFails DEF Lexer!TopEnd
<1>4. CASE Stays("Top") \/ Stays("TopEnd")
  BY <1>2, <1>4 DEF Stays, FitsNext, Fits, TopFits, TopStates
<1>5. CASE Fails
  BY <1>2, <1>5, FailsFits
<1>6. CASE Pushes("CommentStart", "Top")
  BY <1>2, <1>6, CommentAtTop
<1> QED BY <1>3, <1>4, <1>5, <1>6

LEMMA TableStartStep ==
  ASSUME FitsNow, Lexer!TableStart PROVE FitsNext
<1>1. v3 = "TableStart"
  BY DEF Lexer!TableStart, Lexer!In
<1>2. v4 = <<>> /\ v6 = At("top", 0)
  BY <1>1 DEF FitsNow, Fits, TopFits, TableFits, KeyFits, ValueFits, ArrayFits, CommentFits, OverFits,
              ValueStates, ArrayStates
<1>3. /\ v3' = "TableNameStart"
      /\ \/ v4' = <<"ArrayTableEnd">> \o v4 /\ v6' = Lexer!Parse(v6, "ArrayTableStart")
         \/ v4' = <<"TableEnd">> \o v4 /\ v6' = Lexer!Parse(v6, "TableStart")
  BY DEF Lexer!TableStart
<1>4. <<"ArrayTableEnd">> \o <<>> = <<"ArrayTableEnd">> /\ <<"TableEnd">> \o <<>> = <<"TableEnd">>
  OBVIOUS
<1>5. \/ v4' = <<"ArrayTableEnd">> /\ v6' = At("ArrayTableStart", 0)
      \/ v4' = <<"TableEnd">> /\ v6' = At("TableStart", 0)
  BY <1>2, <1>3, <1>4, TopItems
<1> QED BY <1>3, <1>5 DEF FitsNext, Fits, TableFits

\* The names of a table, and its end.
LEMMA TableNameStep ==
  ASSUME FitsNow, Lexer!TableNameStart \/ Lexer!TableName PROVE FitsNext
<1>1. v3 \in {"TableNameStart", "TableName"}
  BY DEF Lexer!TableNameStart, Lexer!TableName, Lexer!In
<1>2. PICK end \in {"TableEnd", "ArrayTableEnd"},
           wait \in {"TableStart", "TableEnd", "ArrayTableStart", "ArrayTableEnd"} :
        /\ v4 = <<end>> /\ v6 = At(wait, 0)
        /\ \/ end = "TableEnd" /\ wait \in {"TableStart", "TableEnd"}
           \/ end = "ArrayTableEnd" /\ wait \in {"ArrayTableStart", "ArrayTableEnd"}
  BY <1>1 DEF FitsNow, Fits, TopFits, TableFits, KeyFits, ValueFits, ArrayFits, CommentFits, OverFits,
              TopStates, ValueStates, ArrayStates
<1>3. Lexer!Parse(v6, "Text") = At(end, 0)
  BY <1>2, TableItems
<1>4. v4 # <<>> /\ Head(v4) = end /\ Tail(v4) = <<>>
  BY <1>2
<1>5. \/ Stays("TableName") \/ Emits("Text", "TableNameStart") \/ Pops("Text") \/ Fails
  BY GoStays, EmitEmits, EmitPopPops, ErrorFails DEF Lexer!TableNameStart, Lexer!TableName
<1>6. CASE Stays("TableName")
  BY <1>2, <1>6 DEF Stays, FitsNext, Fits, TableFits
<1>7. CASE Emits("Text", "TableNameStart")
  <2>1. v3' = "TableNameStart" /\ v4' = <<end>> /\ v6' = At(end, 0)
    BY <1>2, <1>3, <1>7 DEF Emits
  <2> QED BY <1>2, <2>1 DEF FitsNext, Fits, TableFits
<1>8. CASE Pops("Text")
  <2>1. v3' = end /\ v4' = <<>> /\ v6' = At(end, 0)
    BY <1>3, <1>4, <1>8 DEF Pops
  <2> QED BY <1>2, <2>1 DEF FitsNext, Fits, TableFits
<1>9. CASE Fails
  BY <1>2, <1>9, FailsFits
<1> QED BY <1>5, <1>6, <1>7, <1>8, <1>9

LEMMA TableEndStep ==
  ASSUME FitsNow, Lexer!TableEnd \/ Lexer!ArrayTableEnd PROVE FitsNext
<1>1. v3 \in {"TableEnd", "ArrayTableEnd"}
  BY DEF Lexer!TableEnd, Lexer!ArrayTableEnd, Lexer!In
<1>2. v4 = <<>> /\ v6 = At(v3, 0)
  BY <1>1 DEF FitsNow, Fits, TopFits, TableFits, KeyFits, ValueFits, ArrayFits, CommentFits, OverFits,
              TopStates, ValueStates, ArrayStates
<1>3. Emits(v3, "TopEnd") \/ Fails
  BY EmitEmits, ErrorFails DEF Lexer!TableEnd, Lexer!ArrayTableEnd, Lexer!In
<1>4. CASE Emits(v3, "TopEnd")
  <2>1. Lexer!Parse(At(v3, 0), v3) = At("top", 0)
    BY <1>1, TableItems
  <2>2. v3' = "TopEnd" /\ v4' = <<>> /\ v6' = At("top", 0)
    BY <1>2, <1>4, <2>1 DEF Emits
  <2> QED BY <2>2 DEF FitsNext, Fits, TopFits, TopStates
<1>5. CASE Fails
  BY <1>2, <1>5, FailsFits
<1> QED BY <1>3, <1>4, <1>5

LEMMA KeyStep ==
  ASSUME FitsNow, Lexer!KeyStart \/ Lexer!Key \/ Lexer!KeyEnd PROVE FitsNext
<1>1. v3 \in {"KeyStart", "Key", "KeyEnd"}
  BY DEF Lexer!KeyStart, Lexer!Key, Lexer!KeyEnd, Lexer!In
<1>2. KeyFits(v3, v4, v6)
  BY <1>1 DEF FitsNow, Fits, TopFits, TableFits, KeyFits, ValueFits, ArrayFits, CommentFits, OverFits,
              TopStates, ValueStates, ArrayStates
<1>3. v4 = Nest(0) /\ \E wait : v6 = At(wait, 0)
  BY <1>2 DEF KeyFits
<1>4. \/ Stays(v3) \/ Fails
      \/ v3 = "KeyStart" /\ Emits("KeyStart", "Key")
      \/ v3 = "Key" /\ Emits("Text", "KeyEnd")
      \/ v3 = "KeyEnd" /\ Stays("Value")
  BY GoStays, EmitEmits, ErrorFails DEF Lexer!KeyStart, Lexer!Key, Lexer!KeyEnd, Lexer!In
<1>5. CASE Stays(v3)
  BY <1>2, <1>5 DEF Stays, FitsNext, Fits, KeyFits
<1>6. CASE Fails
  BY <1>3, <1>6, FailsFits
<1>7. CASE v3 = "KeyStart" /\ Emits("KeyStart", "Key")
  <2>1. v3' = "Key" /\ v4' = Nest(0) /\ v6' = At("key", 0)
    BY <1>2, <1>7, TopItems DEF KeyFits, Emits
  <2> QED BY <2>1 DEF FitsNext, Fits, KeyFits
<1>8. CASE v3 = "Key" /\ Emits("Text", "KeyEnd")
  <2>1. v3' = "KeyEnd" /\ v4' = Nest(0) /\ v6' = At("value", 0)
    BY <1>2, <1>8, KeyItem DEF KeyFits, Emits
  <2> QED BY <2>1 DEF FitsNext, Fits, KeyFits
<1>9. CASE v3 = "KeyEnd" /\ Stays("Value")
  <2>1. v3' = "Value" /\ v4' = Nest(0) /\ v6' = At(Wanted(0), 0)
    BY <1>2, <1>9 DEF KeyFits, Stays, Wanted
  <2>2. \E d \in Nat : v4' = Nest(d) /\ v6' = At(Wanted(d), d)
    BY <2>1
  <2> QED BY <2>1, <2>2 DEF FitsNext, Fits, ValueFits, ValueStates
<1> QED BY <1>4, <1>5, <1>6, <1>7, <1>8, <1>9

-----------------------------------------------------------------------------
(* Comments, values and arrays. *)
LEMMA CommentStep ==
  ASSUME FitsNow, Lexer!CommentStart \/ Lexer!Comment PROVE FitsNext
<1>1. v3 \in {"CommentStart", "Comment"}
  BY DEF Lexer!CommentStart, Lexer!Comment, Lexer!In
<1>2. CommentFits(v3, v4, v6)
  BY <1>1 DEF FitsNow, Fits, TopFits, TableFits, KeyFits, ValueFits, ArrayFits, CommentFits, OverFits,
              TopStates, ValueStates, ArrayStates
<1>3. \/ v3 = "CommentStart" /\ Emits("CommentStart", "Comment")
      \/ v3 = "Comment" /\ Stays("Comment")
      \/ v3 = "Comment" /\ Pops("Text")
  <2>1. "Text" \notin Lexer!Primitives
    BY DEF Lexer!Primitives
  <2> QED BY <2>1, GoStays, EmitEmits, EmitPopPops DEF Lexer!CommentStart, Lexer!Comment, Lexer!In
<1>4. CASE v4 = <<"Top">> /\ v6 = At(IF v3 = "Comment" THEN "comment" ELSE "top", 0)
  <2>1. CASE v3 = "CommentStart" /\ Emits("CommentStart", "Comment")
    <3>1. v3' = "Comment" /\ v4' = <<"Top">> /\ v6' = At("comment", 0)
      BY <1>4, <2>1, TopItems DEF Emits
    <3> QED BY <3>1 DEF FitsNext, Fits, CommentFits
  <2>2. CASE v3 = "Comment" /\ Stays("Comment")
    BY <1>4, <2>2 DEF Stays, FitsNext, Fits, CommentFits
  <2>3. CASE v3 = "Comment" /\ Pops("Text")
    <3>1. Lexer!Parse(At("comment", 0), "Text") = At("top", 0)
      BY CommentItems DEF After
    <3>2. v4 # <<>> /\ Head(v4) = "Top" /\ Tail(v4) = <<>>
      BY <1>4
    <3>3. v3' = "Top" /\ v4' = <<>> /\ v6' = At("top", 0)
      BY <1>4, <2>3, <3>1, <3>2 DEF Pops
    <3> QED BY <3>3 DEF FitsNext, Fits, TopFits, TopStates
  <2> QED BY <1>3, <2>1, <2>2, <2>3
<1>5. ASSUME NEW d \in Nat, NEW back \in ArrayStates, v4 = <<back>> \o Nest(d),
             v6 = At(IF v3 = "Comment" THEN "comment" ELSE "element", d + 1)
      PROVE  FitsNext
  <2>0. d + 1 \in Nat /\ d + 1 # 0
    OBVIOUS
  <2>1. CASE v3 = "CommentStart" /\ Emits("CommentStart", "Comment")
    <3>1. Lexer!Parse(At("element", d + 1), "CommentStart") = At("comment", d + 1)
      BY <2>0, CommentItems
    <3>2. v3' = "Comment" /\ v4' = <<back>> \o Nest(d) /\ v6' = At("comment", d + 1)
      BY <1>5, <2>1, <3>1 DEF Emits
    <3> QED BY <3>2 DEF FitsNext, Fits, CommentFits
  <2>2. CASE v3 = "Comment" /\ Stays("Comment")
    <3>1. v3' = "Comment" /\ v4' = <<back>> \o Nest(d) /\ v6' = At("comment", d + 1)
      BY <1>5, <2>2 DEF Stays
    <3> QED BY <3>1 DEF FitsNext, Fits, CommentFits
  <2>3. CASE v3 = "Comment" /\ Pops("Text")
    <3>1. Lexer!Parse(At("comment", d + 1), "Text") = At("element", d + 1)
      <4>1. After(d + 1) = "element"
        BY <2>0 DEF After
      <4> QED BY <2>0, <4>1, CommentItems
    <3>2. v4 # <<>> /\ Head(v4) = back /\ Tail(v4) = Nest(d)
      <4>1. back \in Backs /\ Nest(d) \in Seq(Backs)
        BY NestSeq DEF Backs, ArrayStates
      <4> QED BY <1>5, <4>1, PushPop
    <3>3. v3' = back /\ v4' = Nest(d) /\ v6' = At("element", d + 1)
      BY <1>5, <2>3, <3>1, <3>2 DEF Pops
    <3> QED BY <3>3 DEF FitsNext, Fits, ArrayFits
  <2> QED BY <1>3, <2>1, <2>2, <2>3
<1> QED BY <1>2, <1>4, <1>5 DEF CommentFits

LEMMA ArrayStep ==
  ASSUME FitsNow, Lexer!ArrayValue \/ Lexer!ArrayValueEnd PROVE FitsNext
<1>1. v3 \in ArrayStates
  BY DEF Lexer!ArrayValue, Lexer!ArrayValueEnd, Lexer!In, ArrayStates
<1>2. PICK d \in Nat : v4 = Nest(d) /\ v6 = At("element", d + 1)
  BY <1>1 DEF FitsNow, Fits, TopFits, TableFits, KeyFits, ValueFits, ArrayFits, CommentFits, OverFits,
              TopStates, ValueStates, ArrayStates
<1>3. \/ \E to \in ArrayStates : Stays(to)
      \/ Pushes("CommentStart", v3)
      \/ Fails
      \/ Pops("ArrayEnd")
      \/ Pushes("Value", "ArrayValueEnd")
  BY GoStays, PushPushes, EmitPopPops, ErrorFails
     DEF Lexer!ArrayValue, Lexer!ArrayValueEnd, Lexer!AfterComment, Lexer!In, ArrayStates
<1>4. CASE \E to \in ArrayStates : Stays(to)
  BY <1>2, <1>4 DEF Stays, FitsNext, Fits, ArrayFits
<1>5. CASE Pushes("CommentStart", v3)
  <2>1. v3' = "CommentStart" /\ v4' = <<v3>> \o Nest(d) /\ v6' = At("element", d + 1)
    BY <1>2, <1>5 DEF Pushes
  <2> QED BY <1>1, <2>1 DEF FitsNext, Fits, CommentFits
<1>6. CASE Fails
  BY <1>2, <1>6, FailsFits
<1>7. CASE Pops("ArrayEnd")
  <2>1. Lexer!Parse(v6, "ArrayEnd") = At(After(d), d)
    BY <1>2, ValueItems
  <2> QED BY <1>2, <1>7, <2>1, PopsNest
<1>8. CASE Pushes("Value", "ArrayValueEnd")
  <2>1. d + 1 \in Nat /\ d + 1 # 0
    OBVIOUS
  <2>2. v3' = "Value" /\ v4' = Nest(d + 1) /\ v6' = At("element", d + 1)
    BY <1>2, <1>8, NestMore DEF Pushes
  <2>3. Wanted(d + 1) = "element"
    BY <2>1 DEF Wanted
  <2>4. \E e \in Nat : v4' = Nest(e) /\ v6' = At(Wanted(e), e)
    BY <2>1, <2>2, <2>3
  <2> QED BY <2>2, <2>4 DEF FitsNext, Fits, ValueFits, ValueStates
<1> QED BY <1>3, <1>4, <1>5, <1>6, <1>7, <1>8

\* The state functions of a value.
Valued ==
  \/ Lexer!Value \/ Lexer!String \/ Lexer!RawString \/ Lexer!StringEscape
  \/ Lexer!MultilineStringEscape \/ Lexer!StringUnicode \/ Lexer!MultilineStringUnicode
  \/ Lexer!MultilineString \/ Lexer!MultilineRawString
  \/ Lexer!NumberOrDate \/ Lexer!DateAfterYear \/ Lexer!NumberStart \/ Lexer!Number
  \/ Lexer!FloatStart \/ Lexer!Float \/ Lexer!Const

\* They go on with the value, end it, fail, or come to an array.
ValueGoes ==
  \/ \E to \in ValueStates : Stays(to)
  \/ \E typ \in Lexer!Primitives : Pops(typ)
  \/ Fails
  \/ Emits("Array", "ArrayValue")

LEMMA ValuedGoes == ASSUME Valued PROVE ValueGoes /\ v3 \in ValueStates
<1>1. ASSUME Lexer!Value PROVE ValueGoes /\ v3 \in ValueStates
  <2>1. v3 = "Value"
    BY <1>1 DEF Lexer!Value, Lexer!In
  <2>2. ASSUME NEW quote, NEW one \in ValueStates, NEW many \in ValueStates,
               Lexer!OpenString(quote, one, many)
        PROVE  ValueGoes
    BY <2>2, GoStays, RegressStays DEF Lexer!OpenString, ValueGoes, Stays
  <2>3. v3' = "NumberOrDate" /\ UNCHANGED <<v2, v4, v6>> => Stays("NumberOrDate")
    BY DEF Stays
  <2>4. \/ \E to \in ValueStates : Stays(to)
        \/ Emits("Array", "ArrayValue") \/ Fails
        \/ Lexer!OpenString("Q", "String", "MultilineString")
        \/ Lexer!OpenString("'", "RawString", "MultilineRawString")
    BY <1>1, <2>3, GoStays, EmitEmits, ErrorFails DEF Lexer!Value, ValueStates, Stays
  <2>5. {"String", "MultilineString", "RawString", "MultilineRawString", "Value"} \subseteq ValueStates
    BY DEF ValueStates
  <2> QED BY <2>1, <2>2, <2>4, <2>5 DEF ValueGoes
<1>2. ASSUME Lexer!String \/ Lexer!RawString PROVE ValueGoes /\ v3 \in ValueStates
  BY <1>2, GoStays, EmitPopPops, ErrorFails
     DEF Lexer!String, Lexer!RawString, Lexer!In, Lexer!Primitives, ValueStates, ValueGoes
<1>3. ASSUME Lexer!StringEscape \/ Lexer!MultilineStringEscape
      PROVE  ValueGoes /\ v3 \in ValueStates
  BY <1>3, GoStays, ErrorFails
     DEF Lexer!StringEscape, Lexer!MultilineStringEscape, Lexer!Escape, Lexer!In, ValueStates, ValueGoes
<1>4. ASSUME Lexer!StringUnicode \/ Lexer!MultilineStringUnicode
      PROVE  ValueGoes /\ v3 \in ValueStates
  BY <1>4, GoStays, ErrorFails
     DEF Lexer!StringUnicode, Lexer!MultilineStringUnicode, Lexer!Unicode, Lexer!In, ValueStates, ValueGoes
<1>5. ASSUME Lexer!MultilineString \/ Lexer!MultilineRawString
      PROVE  ValueGoes /\ v3 \in ValueStates
  <2>1. "panic" \in Whys
    BY DEF Whys
  <2> QED
    BY <1>5, <2>1, GoStays, RegressStays, StopFails, EmitPopPops
       DEF Lexer!MultilineString, Lexer!MultilineRawString, Lexer!Multiline, Lexer!In,
           Lexer!Primitives, ValueStates, ValueGoes
<1>6. ASSUME Lexer!NumberOrDate PROVE ValueGoes /\ v3 \in ValueStates
  <2>1. v3 = "NumberOrDate"
    BY <1>6 DEF Lexer!NumberOrDate, Lexer!In
  <2>2. UNCHANGED <<v2, v3, v4, v6>> => Stays("NumberOrDate")
    BY <2>1 DEF Stays
  <2> QED BY <1>6, <2>1, <2>2, GoStays, EmitPopPops, ErrorFails
          DEF Lexer!NumberOrDate, Lexer!Primitives, ValueStates, ValueGoes
<1>7. ASSUME Lexer!DateAfterYear \/ Lexer!NumberStart \/ Lexer!Number
      PROVE  ValueGoes /\ v3 \in ValueStates
  BY <1>7, GoStays, EmitPopPops, ErrorFails
     DEF Lexer!DateAfterYear, Lexer!NumberStart, Lexer!Number, Lexer!In, Lexer!Primitives,
         ValueStates, ValueGoes
<1>8. ASSUME Lexer!FloatStart \/ Lexer!Float \/ Lexer!Const
      PROVE  ValueGoes /\ v3 \in ValueStates
  BY <1>8, GoStays, EmitPopPops, ErrorFails
     DEF Lexer!FloatStart, Lexer!Float, Lexer!Const, Lexer!In, Lexer!Primitives, ValueStates, ValueGoes
<1> QED BY <1>1, <1>2, <1>3, <1>4, <1>5, <1>6, <1>7, <1>8 DEF Valued

LEMMA ValueStep ==
  ASSUME FitsNow, Valued PROVE FitsNext
<1>1. v3 \in ValueStates /\ ValueGoes
  BY ValuedGoes
<1>2. PICK d \in Nat : v4 = Nest(d) /\ v6 = At(Wanted(d), d)
  BY <1>1 DEF FitsNow, Fits, TopFits, TableFits, KeyFits, ValueFits, ArrayFits, CommentFits, OverFits,
              TopStates, ValueStates, ArrayStates
<1>3. CASE \E to \in ValueStates : Stays(to)
  BY <1>2, <1>3 DEF Stays, FitsNext, Fits, ValueFits
<1>4. ASSUME NEW typ \in Lexer!Primitives, Pops(typ) PROVE FitsNext
  <2>1. Lexer!Parse(v6, typ) = At(After(d), d)
    BY <1>2, ValueItems
  <2> QED BY <1>2, <1>4, <2>1, PopsNest
<1>5. CASE Fails
  BY <1>2, <1>5, FailsFits
<1>6. CASE Emits("Array", "ArrayValue")
  <2>1. v3' = "ArrayValue" /\ v4' = Nest(d) /\ v6' = At("element", d + 1)
    BY <1>2, <1>6, ValueItems DEF Emits
  <2> QED BY <2>1 DEF FitsNext, Fits, ArrayFits, ArrayStates
<1> QED BY <1>1, <1>3, <1>4, <1>5, <1>6 DEF ValueGoes

-----------------------------------------------------------------------------
LEMMA LexInit == Lexer!Init => FitsNow
  BY DEF Lexer!Init, FitsNow, Fits, TopFits, TopStates, At

LEMMA LexStep == FitsNow /\ [Lexer!Next]_Lexer!vars => FitsNow'
<1> SUFFICES ASSUME FitsNow, [Lexer!Next]_Lexer!vars PROVE FitsNow'
  OBVIOUS
<1>1. CASE Lexer!Type \/ UNCHANGED Lexer!vars
  <2>1. UNCHANGED <<v3, v4, v6>>
    BY <1>1 DEF Lexer!Type, Lexer!vars
  <2> QED BY <2>1 DEF FitsNow
<1>2. CASE Lexer!Lex
  <2>1. FitsNext
    BY <1>2, TopStep, TopEndStep, TableStartStep, TableNameStep, TableEndStep, KeyStep, CommentStep,
       ArrayStep, ValueStep, Zenon DEF Lexer!Lex, Valued
  <2> QED BY <2>1 DEF FitsNow, FitsNext
<1> QED BY <1>1, <1>2 DEF Lexer!Next

LEMMA FitsItems == FitsNow => Lexer!ItemsFit
<1> SUFFICES ASSUME FitsNow PROVE Lexer!ItemsFit
  OBVIOUS
<1>1. v3 # "no states to pop"
  BY DEF FitsNow, Fits, TopFits, TableFits, KeyFits, ValueFits, ArrayFits, CommentFits, OverFits,
         TopStates, ValueStates, ArrayStates
<1>2. ASSUME NEW wait, NEW depth, v6 = At(wait, depth), wait \notin {"bug", "done"}
      PROVE  v6.wait # "bug" /\ (v6.wait = "done" => v4 = <<>> /\ v6.depth = 0)
  BY <1>2 DEF At
<1>3. CASE \/ TopFits(v3, v4, v6) \/ TableFits(v3, v4, v6)
           \/ KeyFits(v3, v4, v6)
  <2>1. \E wait : v6 = At(wait, 0) /\ wait \notin {"bug", "done"}
    BY <1>3 DEF TopFits, TableFits, KeyFits
  <2> QED BY <1>1, <1>2, <2>1 DEF Lexer!ItemsFit
<1>4. CASE ValueFits(v3, v4, v6) \/ ArrayFits(v3, v4, v6)
  <2>1. \E wait, depth : v6 = At(wait, depth) /\ wait \notin {"bug", "done"}
    BY <1>4 DEF ValueFits, ArrayFits, Wanted
  <2> QED BY <1>1, <1>2, <2>1 DEF Lexer!ItemsFit
<1>5. CASE CommentFits(v3, v4, v6)
  <2>1. \E wait, depth : v6 = At(wait, depth) /\ wait \notin {"bug", "done"}
    <3>1. \E wait \in {"comment", "top", "element"} : \E depth : v6 = At(wait, depth)
      BY <1>5, Zenon DEF CommentFits
    <3> QED BY <3>1
  <2> QED BY <1>1, <1>2, <2>1 DEF Lexer!ItemsFit
<1>6. CASE OverFits(v3, v4, v6)
  <2>1. ASSUME NEW why \in Whys, v6 = At(why, v6.depth) PROVE Lexer!ItemsFit
    <3>1. why \notin {"bug", "done"}
      BY DEF Whys
    <3> QED BY <1>1, <1>2, <2>1, <3>1 DEF Lexer!ItemsFit
  <2>2. CASE v4 = <<>> /\ v6 = At("done", 0)
    BY <1>1, <2>2 DEF At, Lexer!ItemsFit
  <2> QED BY <1>6, <2>1, <2>2 DEF OverFits
<1> QED BY <1>3, <1>4, <1>5, <1>6 DEF FitsNow, Fits

-----------------------------------------------------------------------------
(* The document of TOML.  A path is a sequence of steps; N stands for the  *)
(* paths that have a node.                                                 *)
DocSteps == Document!Keys \X Nat
DocPaths == Seq(DocSteps)

ElementsIn(N, at, name) == {i \in 1..MaxStatements : Append(at, <<name, i>>) \in N}
CountIn(N, at, name) == CHOOSE n \in 0..MaxStatements : ElementsIn(N, at, name) = 1..n

IsWay(N, way, names) ==
  /\ way \in DocPaths /\ Len(way) = Len(names)
  /\ \A i \in 1..Len(names) : way[i] = <<names[i], CountIn(N, SubSeq(way, 1, i - 1), names[i])>>

Begins(way) == {SubSeq(way, 1, i) : i \in 1..Len(way)}

\* The elements of an array are counted from 1, without a gap.
Counted(N) ==
  \A at \in DocPaths, name \in Document!Keys :
    \E n \in 0..MaxStatements : ElementsIn(N, at, name) = 1..n

\* The last step of a path is not to an element of an array.
Single(p) == p \in DocPaths /\ p # <<>> /\ p[Len(p)][2] = 0

LEMMA Counts ==
  ASSUME NEW N, Counted(N), NEW at \in DocPaths, NEW name \in Document!Keys
  PROVE  /\ ElementsIn(N, at, name) = 1..CountIn(N, at, name)
         /\ CountIn(N, at, name) \in Nat
<1>1. CountIn(N, at, name) \in 0..MaxStatements /\ ElementsIn(N, at, name) = 1..CountIn(N, at, name)
  BY DEF Counted, CountIn
<1> QED BY <1>1, PartsAssumption

LEMMA CountIs ==
  ASSUME NEW N, NEW at, NEW name, NEW n \in 0..MaxStatements, ElementsIn(N, at, name) = 1..n
  PROVE  CountIn(N, at, name) = n
<1>1. MaxStatements \in Nat
  BY PartsAssumption
<1>2. \A m \in 0..MaxStatements : 1..m = 1..n => m = n
  <2> SUFFICES ASSUME NEW m \in 0..MaxStatements, 1..m = 1..n PROVE m = n
    OBVIOUS
  <2>1. m \in Nat /\ n \in Nat
    BY <1>1
  <2>2. m \in 1..m \/ m = 0
    BY <2>1
  <2>3. n \in 1..n \/ n = 0
    BY <2>1
  <2> QED BY <2>1, <2>2, <2>3
<1> QED BY <1>2 DEF CountIn

LEMMA LeastNumber ==
  ASSUME NEW S, S \subseteq Nat, S # {}
  PROVE  \E i \in S : \A j \in S : i <= j
<1> DEFINE R == OpToRel(<, Nat)
<1>1. \A i, j \in Nat : j < i => <<j, i>> \in R
  BY DEF OpToRel
<1>2. IsWellFoundedOn(R, Nat)
  BY NatLessThanWellFounded, Zenon
<1> HIDE DEF R
<1>3. PICK i \in S : \A j \in S : ~(<<j, i>> \in R)
  BY <1>2, WFMin
<1>4. ASSUME NEW j \in S PROVE i <= j
  <2>1. i \in Nat /\ j \in Nat /\ ~(j < i)
    BY <1>1, <1>3
  <2> QED BY <2>1
<1> QED BY <1>4

\* Names lead one way.
LEMMA OneWay ==
  ASSUME NEW N, NEW names, NEW p, NEW q, Len(names) \in Nat,
         IsWay(N, p, names), IsWay(N, q, names)
  PROVE  p = q
<1> DEFINE Bad == {i \in 1..Len(names) : p[i] # q[i]}
<1>1. /\ p \in DocPaths /\ q \in DocPaths /\ Len(p) = Len(names) /\ Len(q) = Len(names)
  BY DEF IsWay
<1>2. Bad = {}
  <2>1. SUFFICES ASSUME Bad # {} PROVE FALSE
    OBVIOUS
  <2>2. PICK i \in Bad : \A j \in Bad : i <= j
    <3>1. Bad \subseteq Nat
      OBVIOUS
    <3> HIDE DEF Bad
    <3> QED BY <2>1, <3>1, LeastNumber
  <2>3. i \in 1..Len(names) /\ p[i] # q[i] /\ \A j \in 1..i - 1 : p[j] = q[j]
    BY <2>2
  <2>4. SubSeq(p, 1, i - 1) = SubSeq(q, 1, i - 1)
    BY <1>1, <2>3
  <2> QED BY <2>3, <2>4 DEF IsWay
<1> QED BY <1>1, <1>2 DEF DocPaths

LEMMA PathBegins ==
  ASSUME NEW way \in DocPaths, NEW i \in 1..Len(way)
  PROVE  /\ SubSeq(way, 1, i) \in DocPaths /\ Len(SubSeq(way, 1, i)) = i
         /\ SubSeq(way, 1, i - 1) \in DocPaths /\ Len(SubSeq(way, 1, i - 1)) = i - 1
         /\ SubSeq(way, 1, i)[i] = way[i]
         /\ SubSeq(way, 1, i) = Append(SubSeq(way, 1, i - 1), way[i])
<1>1. /\ way \in Seq(DocSteps) /\ Len(way) \in Nat /\ i \in Int /\ i - 1 \in Int
      /\ 1 <= i /\ i <= Len(way) /\ \A j \in 1..Len(way) : way[j] \in DocSteps
  BY DEF DocPaths
<1>2. /\ SubSeq(way, 1, i) \in Seq(DocSteps) /\ Len(SubSeq(way, 1, i)) = i
      /\ \A j \in 1..i : SubSeq(way, 1, i)[j] = way[j]
  BY <1>1
<1>3. /\ SubSeq(way, 1, i - 1) \in Seq(DocSteps) /\ Len(SubSeq(way, 1, i - 1)) = i - 1
      /\ \A j \in 1..i - 1 : SubSeq(way, 1, i - 1)[j] = way[j]
  BY <1>1
<1>4. SubSeq(way, 1, i) = Append(SubSeq(way, 1, i - 1), way[i])
  BY <1>1, <1>2, <1>3
<1> QED BY <1>1, <1>2, <1>3, <1>4 DEF DocPaths

\* What is new on a way is no element of an array, and no more is what comes
\* after it.
LEMMA MissingIsSingle ==
  ASSUME NEW N, NEW at \in DocPaths, NEW name \in Document!Keys, Counted(N),
         Append(at, <<name, CountIn(N, at, name)>>) \notin N
  PROVE  CountIn(N, at, name) = 0
<1>1. CountIn(N, at, name) \in Nat
  BY Counts
<1>2. ASSUME CountIn(N, at, name) # 0 PROVE FALSE
  <2>1. CountIn(N, at, name) \in ElementsIn(N, at, name)
    BY <1>1, <1>2, Counts
  <2> QED BY <2>1 DEF ElementsIn
<1> QED BY <1>2

LEMMA NewestIsSingle ==
  ASSUME NEW N, NEW at \in DocPaths, NEW name \in Document!Keys, Counted(N)
  PROVE  LET newest == Append(at, <<name, CountIn(N, at, name)>>)
         IN newest \in DocPaths /\ (newest \in N \/ Single(newest))
<1> DEFINE newest == Append(at, <<name, CountIn(N, at, name)>>)
<1>1. <<name, CountIn(N, at, name)>> \in DocSteps /\ Len(at) \in Nat
  <2>1. CountIn(N, at, name) \in Nat
    BY Counts
  <2> QED BY <2>1 DEF DocSteps, DocPaths
<1>2. /\ newest \in DocPaths /\ newest # <<>>
      /\ newest[Len(newest)] = <<name, CountIn(N, at, name)>>
  BY <1>1 DEF DocPaths
<1>3. ASSUME newest \notin N PROVE Single(newest)
  <2>1. <<name, CountIn(N, at, name)>>[2] = 0
    BY <1>3, MissingIsSingle
  <2> QED BY <1>2, <2>1 DEF Single
<1> QED BY <1>2, <1>3

LEMMA NewIsSingle ==
  ASSUME NEW N, NEW way, NEW names \in Seq(Document!Keys), IsWay(N, way, names), Counted(N)
  PROVE  \A p \in Begins(way) \ N : Single(p)
<1> SUFFICES ASSUME NEW i \in 1..Len(way), SubSeq(way, 1, i) \notin N
             PROVE  Single(SubSeq(way, 1, i))
  BY DEF Begins
<1>1. /\ way \in DocPaths /\ names[i] \in Document!Keys
      /\ way[i] = <<names[i], CountIn(N, SubSeq(way, 1, i - 1), names[i])>>
  BY DEF IsWay
<1>2. /\ SubSeq(way, 1, i) \in DocPaths /\ Len(SubSeq(way, 1, i)) = i
      /\ SubSeq(way, 1, i - 1) \in DocPaths
      /\ SubSeq(way, 1, i)[i] = way[i]
      /\ SubSeq(way, 1, i) = Append(SubSeq(way, 1, i - 1), way[i])
  BY <1>1, PathBegins
<1>3. CountIn(N, SubSeq(way, 1, i - 1), names[i]) = 0
  BY <1>1, <1>2, MissingIsSingle
<1>4. SubSeq(way, 1, i)[Len(SubSeq(way, 1, i))][2] = 0
  BY <1>1, <1>2, <1>3
<1>5. Len(<<>>) = 0 /\ i # 0
  OBVIOUS
<1> QED BY <1>2, <1>4, <1>5 DEF Single

\* Nodes that are no elements of arrays change no count.
LEMMA SameElements ==
  ASSUME NEW N, NEW M, NEW at \in DocPaths, NEW name \in Document!Keys, N \subseteq M,
         \A p \in M \ N : Single(p) \/ Len(p) # Len(at) + 1
  PROVE  ElementsIn(M, at, name) = ElementsIn(N, at, name)
<1> SUFFICES ASSUME NEW i \in 1..MaxStatements, Append(at, <<name, i>>) \in M
             PROVE  Append(at, <<name, i>>) \in N
  BY DEF ElementsIn
<1>1. i \in Nat /\ i # 0
  BY PartsAssumption
<1>2. /\ Len(Append(at, <<name, i>>)) = Len(at) + 1
      /\ Append(at, <<name, i>>)[Len(at) + 1] = <<name, i>>
  BY <1>1 DEF DocPaths, DocSteps
<1>3. ~Single(Append(at, <<name, i>>))
  <2>1. <<name, i>>[2] = i
    OBVIOUS
  <2> QED BY <1>1, <1>2, <2>1 DEF Single
<1> QED BY <1>2, <1>3

\* A way goes on being one when nodes are added that are no elements of arrays
\* or are longer.
LEMMA WayStays ==
  ASSUME NEW N, NEW M, NEW way, NEW names \in Seq(Document!Keys), IsWay(N, way, names),
         N \subseteq M, \A p \in M \ N : Single(p) \/ Len(p) \notin 1..Len(names)
  PROVE  IsWay(M, way, names)
<1> SUFFICES ASSUME NEW i \in 1..Len(names)
             PROVE  ElementsIn(M, SubSeq(way, 1, i - 1), names[i])
                      = ElementsIn(N, SubSeq(way, 1, i - 1), names[i])
  BY DEF IsWay, CountIn
<1>1. /\ SubSeq(way, 1, i - 1) \in DocPaths /\ Len(SubSeq(way, 1, i - 1)) = i - 1
      /\ names[i] \in Document!Keys /\ Len(names) \in Nat
  BY PathBegins DEF IsWay
<1>2. Len(SubSeq(way, 1, i - 1)) + 1 = i
  BY <1>1
<1>3. \A p \in M \ N : Single(p) \/ Len(p) # Len(SubSeq(way, 1, i - 1)) + 1
  BY <1>2
<1> QED BY <1>1, <1>3, SameElements

\* The way to a table that is stored: the way to its outer one and its step.
LEMMA WayGoesOn ==
  ASSUME NEW N, NEW way, NEW names \in Seq(Document!Keys), IsWay(N, way, names),
         NEW name \in Document!Keys, Counted(N)
  PROVE  LET on == Append(way, <<name, CountIn(N, way, name)>>)
         IN IsWay(N, on, Append(names, name)) /\ Begins(on) = Begins(way) \cup {on}
<1> DEFINE on == Append(way, <<name, CountIn(N, way, name)>>)
           all == Append(names, name)
<1>1. way \in DocPaths /\ Len(way) = Len(names) /\ Len(names) \in Nat
  BY DEF IsWay
<1>2. <<name, CountIn(N, way, name)>> \in DocSteps
  BY <1>1, Counts DEF DocSteps
<1>3. /\ on \in DocPaths /\ Len(on) = Len(names) + 1 /\ Len(all) = Len(names) + 1
      /\ on[Len(names) + 1] = <<name, CountIn(N, way, name)>> /\ all[Len(names) + 1] = name
      /\ \A i \in 1..Len(names) : on[i] = way[i] /\ all[i] = names[i]
  BY <1>1, <1>2 DEF DocPaths
<1>4. \A i \in 0..Len(names) : SubSeq(on, 1, i) = SubSeq(way, 1, i)
  BY <1>1, <1>3 DEF DocPaths
<1>5. SubSeq(on, 1, Len(names) + 1) = on /\ SubSeq(way, 1, Len(names)) = way
  BY <1>1, <1>3 DEF DocPaths
<1>6. IsWay(N, on, all)
  <2> SUFFICES ASSUME NEW i \in 1..Len(names) + 1
               PROVE  on[i] = <<all[i], CountIn(N, SubSeq(on, 1, i - 1), all[i])>>
    BY <1>3 DEF IsWay
  <2>1. CASE i = Len(names) + 1
    <3>1. i - 1 = Len(names) /\ Len(names) \in 0..Len(names)
      BY <1>1, <2>1
    <3>2. SubSeq(on, 1, i - 1) = way
      BY <3>1, <1>4, <1>5
    <3> QED BY <2>1, <3>2, <1>3
  <2>2. CASE i \in 1..Len(names)
    <3>1. i - 1 \in 0..Len(names)
      BY <1>1, <2>2
    <3> QED BY <2>2, <3>1, <1>3, <1>4 DEF IsWay
  <2> QED BY <1>1, <2>1, <2>2
<1>7. Begins(on) = Begins(way) \cup {on}
  <2>1. \A i \in 1..Len(on) : i = Len(names) + 1 \/ i \in 1..Len(names)
    BY <1>1, <1>3
  <2>2. /\ \A i \in 1..Len(names) : i \in 1..Len(on) /\ SubSeq(on, 1, i) = SubSeq(way, 1, i)
        /\ Len(names) + 1 \in 1..Len(on)
    BY <1>1, <1>3, <1>4
  <2> QED BY <1>1, <1>5, <2>1, <2>2 DEF Begins
<1> QED BY <1>6, <1>7

-----------------------------------------------------------------------------
Dot(p) == Document!Dotted(Document!Names(p))

\* What holds between two statements: of the record of the statements, of the
\* nodes, of the dotted names that are implicit, of the way that the context
\* leads, and of what DefinedOnce says.
DocTypes ==
  /\ v5 = [n |-> v5.n, outcome |-> v5.outcome] /\ v5.n \in Nat
  /\ v4 \in Seq(Document!Keys)
  /\ DOMAIN v1 \subseteq DocPaths
  /\ \A p \in DOMAIN v1 : v1[p] \in {"table", "value"}

DocNodes ==
  /\ v6.given \subseteq DOMAIN v1 /\ v6.born \subseteq DOMAIN v1
  /\ DOMAIN v1 \subseteq v6.given \cup v6.born
  /\ \A p \in v6.born : v1[p] = "table"

DocCounts ==
  /\ Counted(DOMAIN v1)
  /\ \A at \in DocPaths, name \in Document!Keys : CountIn(DOMAIN v1, at, name) <= v5.n

DocShared(p) == \E q \in v6.born : q # p /\ Dot(q) = Dot(p)

DocMarks ==
  /\ \A d \in v2 : \E q \in v6.born : Dot(q) = d
  /\ \A p \in v6.given : Dot(p) \in v2 => DocShared(p)

DocContext ==
  v5.outcome = "none" /\ v6.twice = {} =>
    \E way : /\ IsWay(DOMAIN v1, way, v4) /\ Begins(way) \subseteq DOMAIN v1
             /\ \A p \in Begins(way) : v1[p] = "table"

DocAlone(p) == \A q \in DOMAIN v1 : Dot(q) = Dot(p) => q = p

DocOnce ==
  /\ v5.outcome = "bug" => v6.twice # {}
  /\ \A p \in v6.twice : DocShared(p)
  /\ \A p \in v6.dropped : p \in v6.born \/ DocShared(p)
  /\ \A p \in v6.given : Dot(p) \in DOMAIN v3
  /\ \A p \in v6.given \ v6.dropped :
        DocAlone(p) => (v3[Dot(p)] = "Value" <=> v1[p] = "value")

DocInv == DocTypes /\ DocNodes /\ DocCounts /\ DocMarks /\ DocContext /\ DocOnce

LEMMA DocIsOnce == DocInv => Document!DefinedOnce
<1> SUFFICES ASSUME DocInv PROVE Document!DefinedOnce
  OBVIOUS
<1> DEFINE alike(p) == {q \in DOMAIN v1 \ {p} : Dot(q) = Dot(p)}
<1>1. \A p : DocShared(p) => alike(p) \cap v6.born # {}
  BY DEF DocInv, DocNodes, DocShared
<1>2. \A p : alike(p) = {} => DocAlone(p)
  BY DEF DocAlone
<1>3. /\ v5.outcome = "bug" => v6.twice # {}
      /\ \A p \in v6.twice : alike(p) \cap v6.born # {}
      /\ \A p \in v6.dropped : p \in v6.born \/ alike(p) \cap v6.born # {}
      /\ \A p \in v6.given \ v6.dropped :
            alike(p) = {} => (v3[Dot(p)] = "Value" <=> v1[p] = "value")
  BY <1>1, <1>2 DEF DocInv, DocOnce
<1> QED BY <1>3 DEF Document!DefinedOnce, Dot

LEMMA DocInit == Document!Init => DocInv
<1> SUFFICES ASSUME Document!Init PROVE DocInv
  OBVIOUS
<1>1. /\ DOMAIN v1 = {} /\ v2 = {} /\ v4 = <<>> /\ v5 = [n |-> 0, outcome |-> "none"]
      /\ v6 = [given |-> {}, born |-> {}, twice |-> {}, dropped |-> {}]
  BY DEF Document!Init
<1>2. \A at, name : ElementsIn(DOMAIN v1, at, name) = {}
  BY <1>1 DEF ElementsIn
<1>3. \A at, name : CountIn(DOMAIN v1, at, name) = 0
  <2>1. 1..0 = {} /\ 0 \in 0..MaxStatements
    BY PartsAssumption
  <2> QED BY <1>2, <2>1, CountIs
<1>4. DocCounts
  <2>1. 1..0 = {} /\ v5.n = 0 /\ 0 <= 0 /\ 0 \in 0..MaxStatements
    BY <1>1, PartsAssumption
  <2>2. Counted(DOMAIN v1)
    BY <1>2, <2>1 DEF Counted
  <2> QED BY <1>3, <2>1, <2>2 DEF DocCounts
<1>5. IsWay(DOMAIN v1, <<>>, v4) /\ Begins(<<>>) = {}
  BY <1>1 DEF IsWay, Begins, DocPaths
<1>6. DocContext
  BY <1>1, <1>5 DEF DocContext
<1> QED BY <1>1, <1>4, <1>6 DEF DocInv, DocTypes, DocNodes, DocMarks, DocOnce

LEMMA SameIndex ==
  ASSUME NEW at, NEW name
  PROVE  Document!Index(at, name) = CountIn(DOMAIN v1, at, name)
<1>1. Document!Elements(at, name) = ElementsIn(DOMAIN v1, at, name)
  BY DEF Document!Elements, ElementsIn
<1> QED BY <1>1 DEF Document!Index, CountIn

\* The ways of the parser are those.
LEMMA WaysAreWays ==
  ASSUME NEW names \in Seq(Document!Keys), NEW way \in Document!Ways(names)
  PROVE  /\ IsWay(DOMAIN v1, way, names)
         /\ Document!New(way) = Begins(way) \ DOMAIN v1
         /\ Document!Passes(way) <=>
              \A p \in Begins(way) \cap DOMAIN v1 : v1[p] = "table"
<1>1. PICK at \in [DOMAIN names -> 0..MaxStatements] :
        way = [i \in DOMAIN names |-> <<names[i], at[i]>>]
  BY DEF Document!Ways, Document!Paths
<1>2. DOMAIN names = 1..Len(names) /\ Len(names) \in Nat
  OBVIOUS
<1>3. ASSUME NEW i \in 1..Len(names)
      PROVE  way[i] = <<names[i], at[i]>> /\ way[i] \in DocSteps
  <2>1. names[i] \in Document!Keys /\ at[i] \in 0..MaxStatements /\ MaxStatements \in Nat
    BY <1>1, <1>2, PartsAssumption
  <2>2. at[i] \in Nat
    BY <2>1
  <2> QED BY <1>1, <1>2, <2>1, <2>2 DEF DocSteps
<1>4. way \in DocPaths /\ Len(way) = Len(names)
  BY <1>1, <1>2, <1>3 DEF DocPaths
<1>5. \A i \in 1..Len(names) :
        way[i][2] = CountIn(DOMAIN v1, SubSeq(way, 1, i - 1), names[i])
  BY <1>2, SameIndex DEF Document!Ways
<1>6. IsWay(DOMAIN v1, way, names)
  BY <1>3, <1>4, <1>5 DEF IsWay
<1>7. Document!Tables(way) = Begins(way)
  <2>1. DOMAIN way = 1..Len(way)
    BY <1>4 DEF DocPaths
  <2> QED BY <2>1, Zenon DEF Document!Tables, Begins
<1> QED BY <1>6, <1>7 DEF Document!New, Document!Passes

-----------------------------------------------------------------------------
\* A statement that ends the parser changes nothing but its context.
Ends(outcome) == v5' = [v5 EXCEPT !.outcome = outcome] /\ UNCHANGED <<v1, v2, v3, v6>>

LEMMA DocFails ==
  ASSUME DocInv, NEW outcome \in {"error", "bug"}, Ends(outcome),
         v4' \in Seq(Document!Keys), outcome = "bug" => v6.twice # {}
  PROVE  DocInv'
<1>1. /\ UNCHANGED <<v1, v2, v3, v6>>
      /\ v5' = [n |-> v5.n, outcome |-> outcome]
  BY DEF Ends, DocInv, DocTypes
<1>2. v5'.n = v5.n /\ v5'.outcome = outcome
  BY <1>1
<1>3. DocTypes' /\ DocNodes'
  BY <1>1, <1>2 DEF DocInv, DocTypes, DocNodes
<1>4. DocCounts'
  BY <1>1, <1>2 DEF DocInv, DocCounts
<1>5. DocMarks'
  BY <1>1 DEF DocInv, DocMarks, DocShared
<1>6. DocContext'
  BY <1>2 DEF DocContext
<1>7. DocOnce'
  BY <1>1, <1>2 DEF DocInv, DocOnce, DocShared, DocAlone
<1> QED BY <1>3, <1>4, <1>5, <1>6, <1>7 DEF DocInv

\* What a statement that is stored does to the state.
Stored(path, type, new) ==
  LET kind == IF type = "Value" THEN "value" ELSE "table"
      nodes == DOMAIN v1
      there == path \in nodes
  IN /\ DOMAIN v1' = nodes \cup new \cup {path}
     /\ \A p \in DOMAIN v1' :
          v1'[p] = IF p \in nodes THEN v1[p] ELSE IF p \in new THEN "table" ELSE kind
     /\ \A d \in v2' : d \in v2 \/ \E q \in new : Dot(q) = d
     /\ there => Dot(path) \notin v2' /\ (Dot(path) \in v2 \/ \E q \in new : Dot(q) = Dot(path))
     /\ DOMAIN v3' = DOMAIN v3 \cup {Dot(path)}
     /\ \A d \in DOMAIN v3' : v3'[d] = IF d = Dot(path) THEN type ELSE v3[d]
     /\ v5' = [n |-> v5.n + 1, outcome |-> v5.outcome]
     /\ v6'.given = v6.given \cup {path}
     /\ v6'.born = v6.born \cup new
     /\ v6'.twice = v6.twice \cup ({path} \cap v6.given)
     /\ v6'.dropped = v6.dropped \cup {p \in {path} : there /\ kind = "value"}

LEMMA SetStores ==
  ASSUME DocTypes, NEW path, NEW type, NEW new, new \cap DOMAIN v1 = {}, path \notin new,
         Document!SetValue(path, type, new)
  PROVE  Ends("error") \/ Stored(path, type, new)
<1> DEFINE kind == IF type = "Value" THEN "value" ELSE "table"
           marked == v2 \cup {Dot(p) : p \in new}
           there == path \in DOMAIN v1
           known == [p \in DOMAIN v1 \cup new |-> IF p \in new THEN "table" ELSE v1[p]]
<1>1. CASE there /\ Dot(path) \notin marked
  BY <1>1 DEF Document!SetValue, Dot, Ends
<1>2. CASE ~(there /\ Dot(path) \notin marked)
  <2>1. /\ v1' = IF there THEN known ELSE Document!With(known, path, kind)
        /\ v2' = IF there THEN Document!Concrete(marked, path) ELSE marked
        /\ v3' = Document!With(v3, Dot(path), type)
        /\ v5' = [v5 EXCEPT !.n = @ + 1]
        /\ v6' = [given |-> v6.given \cup {path},
                  born |-> v6.born \cup new,
                  twice |-> v6.twice \cup ({path} \cap v6.given),
                  dropped |-> v6.dropped \cup {p \in {path} : there /\ kind = "value"}]
    BY <1>2 DEF Document!SetValue, Dot
  <2>2. /\ DOMAIN v1' = DOMAIN v1 \cup new \cup {path}
        /\ \A p \in DOMAIN v1' :
             v1'[p] = IF p \in DOMAIN v1 THEN v1[p] ELSE IF p \in new THEN "table" ELSE kind
    <3>1. CASE there
      BY <2>1, <3>1
    <3>2. CASE ~there
      BY <2>1, <3>2 DEF Document!With
    <3> QED BY <3>1, <3>2
  <2>3. /\ \A d \in v2' : d \in v2 \/ \E q \in new : Dot(q) = d
        /\ there => /\ Dot(path) \notin v2'
                    /\ Dot(path) \in v2 \/ \E q \in new : Dot(q) = Dot(path)
    BY <1>2, <2>1 DEF Document!Concrete, Dot
  <2>4. /\ DOMAIN v3' = DOMAIN v3 \cup {Dot(path)}
        /\ \A d \in DOMAIN v3' : v3'[d] = IF d = Dot(path) THEN type ELSE v3[d]
    BY <2>1 DEF Document!With
  <2>5. v5' = [n |-> v5.n + 1, outcome |-> v5.outcome]
    BY <2>1 DEF DocTypes
  <2>6. /\ v6'.given = v6.given \cup {path} /\ v6'.born = v6.born \cup new
        /\ v6'.twice = v6.twice \cup ({path} \cap v6.given)
        /\ v6'.dropped = v6.dropped \cup {p \in {path} : there /\ kind = "value"}
    BY <2>1
  <2> HIDE DEF kind
  <2> QED BY <2>2, <2>3, <2>4, <2>5, <2>6 DEF Stored, kind
<1> QED BY <1>1, <1>2

\* It keeps all but the counts and the context, whatever its path.
LEMMA StoredKeeps ==
  ASSUME DocInv, NEW path \in DocPaths, NEW type \in {"Value", "Hash", "ArrayHash"}, NEW new,
         new \subseteq DocPaths, new \cap DOMAIN v1 = {}, path \notin new,
         type = "Value" => new = {}, Stored(path, type, new), v4' \in Seq(Document!Keys),
         v5.outcome = "none"
  PROVE  DocTypes' /\ DocNodes' /\ DocMarks' /\ DocOnce'
<1> DEFINE kind == IF type = "Value" THEN "value" ELSE "table"
           there == path \in DOMAIN v1
<1>1. /\ DOMAIN v1' = DOMAIN v1 \cup new \cup {path}
      /\ \A p \in DOMAIN v1' :
           v1'[p] = IF p \in DOMAIN v1 THEN v1[p] ELSE IF p \in new THEN "table" ELSE kind
      /\ \A d \in v2' : d \in v2 \/ \E q \in new : Dot(q) = d
      /\ there => Dot(path) \notin v2' /\ (Dot(path) \in v2 \/ \E q \in new : Dot(q) = Dot(path))
  BY DEF Stored
<1>2. /\ DOMAIN v3' = DOMAIN v3 \cup {Dot(path)}
      /\ \A d \in DOMAIN v3' : v3'[d] = IF d = Dot(path) THEN type ELSE v3[d]
      /\ v5' = [n |-> v5.n + 1, outcome |-> v5.outcome]
  BY DEF Stored
<1>3. /\ v6'.given = v6.given \cup {path} /\ v6'.born = v6.born \cup new
      /\ v6'.twice = v6.twice \cup ({path} \cap v6.given)
      /\ v6'.dropped = v6.dropped \cup {p \in {path} : there /\ kind = "value"}
  BY DEF Stored
<1>4. kind \in {"table", "value"} /\ (kind = "value" <=> type = "Value")
  OBVIOUS
<1> HIDE DEF kind
<1>5. DocTypes'
  <2>1. v5'.n = v5.n + 1 /\ v5'.outcome = v5.outcome
    BY <1>2
  <2> QED BY <1>1, <1>2, <1>4, <2>1 DEF DocInv, DocTypes
<1>6. DocNodes'
  BY <1>1, <1>3, <1>4 DEF DocInv, DocNodes
\* Whoever shares its name goes on doing so, and the node of a name that is
\* implicit has one that shares it.
<1>7. \A p : DocShared(p) => DocShared(p)'
  BY <1>3 DEF DocShared
<1>8. \A p \in v6.given : (Dot(p) \in v2 \/ \E q \in new : Dot(q) = Dot(p)) => DocShared(p)'
  <2> SUFFICES ASSUME NEW p \in v6.given, Dot(p) \in v2 \/ \E q \in new : Dot(q) = Dot(p)
               PROVE  DocShared(p)'
    OBVIOUS
  <2>1. CASE Dot(p) \in v2
    BY <1>7, <2>1 DEF DocInv, DocMarks
  <2>2. CASE \E q \in new : Dot(q) = Dot(p)
    BY <1>3, <2>2 DEF DocInv, DocNodes, DocShared
  <2> QED BY <2>1, <2>2
<1>9. DocMarks'
  <2>1. \A d \in v2' : \E q \in v6'.born : Dot(q) = d
    BY <1>1, <1>3 DEF DocInv, DocMarks
  <2>2. ASSUME NEW p \in v6'.given, Dot(p) \in v2' PROVE DocShared(p)'
    <3>1. CASE p \in v6.given
      BY <1>1, <1>8, <2>2, <3>1
    <3>2. CASE p = path /\ p \notin v6.given
      <4>1. path \notin DOMAIN v1
        BY <1>1, <2>2, <3>2
      <4>2. PICK q \in v6'.born : Dot(q) = Dot(p)
        BY <2>1, <2>2
      <4>3. q # path
        BY <1>3, <4>1 DEF DocInv, DocNodes
      <4> QED BY <3>2, <4>2, <4>3 DEF DocShared
    <3> QED BY <1>3, <3>1, <3>2
  <2> QED BY <2>1, <2>2 DEF DocMarks
<1>10. DocOnce'
  <2>1. v5'.outcome = "bug" => v6'.twice # {}
    BY <1>2
  <2>2. \A p \in v6'.twice : DocShared(p)'
    BY <1>1, <1>3, <1>7, <1>8 DEF DocInv, DocOnce, DocNodes
  <2>3. ASSUME NEW p \in v6'.dropped PROVE p \in v6'.born \/ DocShared(p)'
    <3>1. CASE p \in v6.dropped
      BY <1>3, <1>7, <3>1 DEF DocInv, DocOnce
    <3>2. CASE p = path /\ there
      BY <1>1, <1>3, <1>8, <3>2 DEF DocInv, DocNodes
    <3> QED BY <1>3, <3>1, <3>2
  <2>4. \A p \in v6'.given : Dot(p) \in DOMAIN v3'
    BY <1>2, <1>3 DEF DocInv, DocOnce
  <2>5. ASSUME NEW p \in v6'.given \ v6'.dropped, DocAlone(p)'
        PROVE  v3'[Dot(p)] = "Value" <=> v1'[p] = "value"
    <3>1. CASE p # path
      <4>1. p \in v6.given \ v6.dropped /\ p \in DOMAIN v1 /\ path \in DOMAIN v1'
        BY <1>1, <1>3, <3>1 DEF DocInv, DocNodes
      <4>2. Dot(p) # Dot(path)
        BY <2>5, <3>1, <4>1 DEF DocAlone
      <4>3. DocAlone(p)
        BY <1>1, <2>5 DEF DocAlone
      <4>4. v3'[Dot(p)] = v3[Dot(p)] /\ v1'[p] = v1[p]
        BY <1>1, <1>2, <2>4, <4>1, <4>2
      <4> QED BY <4>1, <4>3, <4>4 DEF DocInv, DocOnce
    <3>2. CASE p = path /\ ~there
      BY <1>1, <1>2, <1>4, <2>4, <3>2
    <3>3. CASE p = path /\ there
      <4>1. kind # "value" /\ type # "Value"
        BY <1>3, <1>4, <2>5, <3>3
      <4>2. v3'[Dot(p)] # "Value"
        BY <1>2, <2>4, <3>3, <4>1
      <4>3. ~DocShared(p)'
        BY <1>1, <1>6, <2>5 DEF DocShared, DocAlone, DocNodes
      <4>4. p \notin v6.given
        BY <1>1, <1>8, <3>3, <4>3
      <4>5. v1'[p] = "table"
        BY <1>1, <3>3, <4>4 DEF DocInv, DocNodes
      <4> QED BY <4>2, <4>5
    <3> QED BY <3>1, <3>2, <3>3
  <2> QED BY <2>1, <2>2, <2>3, <2>4, <2>5 DEF DocOnce
<1> QED BY <1>5, <1>6, <1>9, <1>10

\* The context of a stored header: the way to its outer table goes on to it.
\* The counts: a single node changes none, an element changes its array's.
LEMMA SingleKeepsCounts ==
  ASSUME DocInv, NEW new, \A p \in new : Single(p), NEW path,
         path \in DOMAIN v1 \/ Single(path),
         DOMAIN v1' = DOMAIN v1 \cup new \cup {path}, v5'.n = v5.n + 1
  PROVE  /\ DocCounts'
         /\ \A at \in DocPaths, name \in Document!Keys :
              CountIn(DOMAIN v1', at, name) = CountIn(DOMAIN v1, at, name)
<1>1. ASSUME NEW at \in DocPaths, NEW name \in Document!Keys
      PROVE  ElementsIn(DOMAIN v1', at, name) = ElementsIn(DOMAIN v1, at, name)
  BY SameElements
<1>2. \A at \in DocPaths, name \in Document!Keys :
        CountIn(DOMAIN v1', at, name) = CountIn(DOMAIN v1, at, name)
  BY <1>1 DEF CountIn
<1>3. Counted(DOMAIN v1')
  BY <1>1 DEF DocInv, DocCounts, Counted
<1>4. \A at \in DocPaths, name \in Document!Keys : CountIn(DOMAIN v1', at, name) <= v5'.n
  <2> SUFFICES ASSUME NEW at \in DocPaths, NEW name \in Document!Keys
               PROVE  CountIn(DOMAIN v1, at, name) <= v5.n + 1
    BY <1>2
  <2>1. CountIn(DOMAIN v1, at, name) \in Nat
    BY Counts DEF DocInv, DocCounts
  <2>2. CountIn(DOMAIN v1, at, name) <= v5.n
    BY DEF DocInv, DocCounts
  <2> HIDE DEF CountIn
  <2> QED BY <2>1, <2>2 DEF DocInv, DocTypes
<1> QED BY <1>2, <1>3, <1>4 DEF DocCounts

LEMMA ElementCounts ==
  ASSUME DocInv, NEW at \in DocPaths, NEW name \in Document!Keys, v5.n < MaxStatements,
         NEW k, k = CountIn(DOMAIN v1, at, name), NEW path, path = Append(at, <<name, k + 1>>),
         DOMAIN v1 \subseteq DOMAIN v1', path \in DOMAIN v1',
         \A p \in DOMAIN v1' \ DOMAIN v1 : Single(p) \/ p = path, v5'.n = v5.n + 1
  PROVE  DocCounts' /\ CountIn(DOMAIN v1', at, name) = k + 1
<1> DEFINE N == DOMAIN v1
           M == DOMAIN v1'
           new == {p \in M \ N : Single(p)}
<1>1. k \in Nat /\ k + 1 \in 1..MaxStatements
  <2>1. k \in Nat
    BY Counts DEF DocInv, DocCounts
  <2>2. k <= v5.n
    BY DEF DocInv, DocCounts
  <2>3. v5.n \in Nat /\ MaxStatements \in Nat
    BY PartsAssumption DEF DocInv, DocTypes
  <2> QED BY <2>1, <2>2, <2>3
<1>2. path \in DocPaths /\ Len(path) = Len(at) + 1
  BY <1>1 DEF DocPaths, DocSteps
<1>3. \A other \in DocPaths, own \in Document!Keys, i \in Nat :
        Append(other, <<own, i>>) = path => other = at /\ own = name /\ i = k + 1
  <2> SUFFICES ASSUME NEW other \in DocPaths, NEW own \in Document!Keys, NEW i \in Nat,
                      Append(other, <<own, i>>) = path
               PROVE  other = at /\ own = name /\ i = k + 1
    OBVIOUS
  <2>1. other \in Seq(DocSteps) /\ <<own, i>> \in DocSteps /\ at \in Seq(DocSteps)
        /\ <<name, k + 1>> \in DocSteps
    BY <1>1 DEF DocPaths, DocSteps
  <2>2. other = at /\ <<own, i>> = <<name, k + 1>>
    BY <2>1, AppendInjective
  <2> QED BY <2>2
<1>4. ASSUME NEW other \in DocPaths, NEW own \in Document!Keys
      PROVE  ElementsIn(M, other, own) = IF other = at /\ own = name
                                         THEN ElementsIn(N, at, name) \cup {k + 1}
                                         ELSE ElementsIn(N, other, own)
  <2>1. M = (N \cup new) \cup {path}
    OBVIOUS
  <2>2. ElementsIn(N \cup new, other, own) = ElementsIn(N, other, own)
    BY SameElements
  <2>3. \A i \in 1..MaxStatements :
          Append(other, <<own, i>>) = path <=> other = at /\ own = name /\ i = k + 1
    BY <1>3
  <2>4. ElementsIn(M, other, own)
          = ElementsIn(N \cup new, other, own)
              \cup {i \in 1..MaxStatements : Append(other, <<own, i>>) = path}
    BY <2>1 DEF ElementsIn
  <2> QED BY <1>1, <2>2, <2>3, <2>4
<1>5. ElementsIn(M, at, name) = 1..k + 1
  <2>1. ElementsIn(N, at, name) = 1..k
    BY Counts DEF DocInv, DocCounts
  <2>2. 1..k + 1 = (1..k) \cup {k + 1}
    BY <1>1
  <2> QED BY <1>4, <2>1, <2>2
<1>6. CountIn(M, at, name) = k + 1
  <2>1. k + 1 \in 0..MaxStatements
    BY <1>1
  <2> QED BY <1>5, <2>1, CountIs
<1>7. ASSUME NEW other \in DocPaths, NEW own \in Document!Keys
      PROVE  /\ \E n \in 0..MaxStatements : ElementsIn(M, other, own) = 1..n
             /\ CountIn(M, other, own) <= v5'.n
  <2>1. CASE other = at /\ own = name
    <3>1. k <= v5.n
      BY DEF DocInv, DocCounts
    <3>2. k + 1 \in 0..MaxStatements /\ k + 1 <= v5'.n
      BY <1>1, <3>1 DEF DocInv, DocTypes
    <3> QED BY <1>5, <1>6, <2>1, <3>2
  <2>2. CASE ~(other = at /\ own = name)
    <3>1. ElementsIn(M, other, own) = ElementsIn(N, other, own)
      BY <1>4, <2>2
    <3>2. CountIn(M, other, own) = CountIn(N, other, own)
      BY <3>1 DEF CountIn
    <3>3. /\ \E n \in 0..MaxStatements : ElementsIn(N, other, own) = 1..n
          /\ CountIn(N, other, own) <= v5.n /\ CountIn(N, other, own) \in Nat
      BY Counts DEF DocInv, DocCounts, Counted
    <3> QED BY <3>1, <3>2, <3>3 DEF DocInv, DocTypes
  <2> QED BY <2>1, <2>2
<1> QED BY <1>6, <1>7 DEF DocCounts, Counted

LEMMA TableNames ==
  ASSUME NEW outer \in Document!Outer, NEW name \in Document!TableNames
  PROVE  /\ name \in Document!Keys /\ outer \in Seq(Document!Keys)
         /\ Append(outer, name) \in Seq(Document!Keys)
<1>1. Document!TableNames \subseteq Document!Keys
  BY DEF Document!Keys
<1>2. PICK n \in 0..MaxNames - 1 : outer \in [1..n -> Document!TableNames]
  BY DEF Document!Outer
<1>3. n \in Nat
  BY <1>2, PartsAssumption
<1>4. outer \in Seq(Document!Keys)
  BY <1>1, <1>2, <1>3
<1> QED BY <1>1, <1>4

\* What is new on a way has no node, and no path as long as what comes after.
LEMMA NewOnWay ==
  ASSUME DocInv, NEW names \in Seq(Document!Keys), NEW way, IsWay(DOMAIN v1, way, names),
         NEW step \in DocSteps
  PROVE  LET new == Begins(way) \ DOMAIN v1
         IN /\ new \subseteq DocPaths /\ \A p \in new : Single(p)
            /\ new \cap DOMAIN v1 = {} /\ Append(way, step) \notin new
            /\ Append(way, step) \in DocPaths /\ Len(Append(way, step)) = Len(names) + 1
<1>1. way \in DocPaths /\ Len(way) = Len(names) /\ Len(names) \in Nat
  BY DEF IsWay
<1>2. \A p \in Begins(way) \ DOMAIN v1 : Single(p)
  BY NewIsSingle DEF DocInv, DocCounts
<1>3. Append(way, step) \in DocPaths /\ Len(Append(way, step)) = Len(names) + 1
  BY <1>1 DEF DocPaths
<1>4. Append(way, step) \notin Begins(way)
  <2> SUFFICES ASSUME NEW i \in 1..Len(way) PROVE SubSeq(way, 1, i) # Append(way, step)
    BY DEF Begins
  <2>1. Len(SubSeq(way, 1, i)) = i
    BY <1>1, PathBegins
  <2> QED BY <1>1, <1>3, <2>1
<1> QED BY <1>2, <1>3, <1>4 DEF Single

LEMMA DocTable ==
  ASSUME DocInv, NEW outer \in Document!Outer, NEW name \in Document!TableNames,
         Document!Table(outer, name)
  PROVE  DocInv'
<1>1. /\ name \in Document!Keys /\ outer \in Seq(Document!Keys)
      /\ Append(outer, name) \in Seq(Document!Keys)
  BY TableNames
<1>2. PICK way \in Document!Ways(outer) :
        IF ~Document!Passes(way) THEN Document!Fails("error")
        ELSE /\ Document!SetValue(Document!Newest(way, name), "Hash", Document!New(way))
             /\ v4' = Append(outer, name)
  BY DEF Document!Table
<1> DEFINE N == DOMAIN v1
           k == CountIn(N, way, name)
           path == Append(way, <<name, k>>)
           new == Begins(way) \ N
<1>3. IsWay(N, way, outer) /\ Document!New(way) = new /\ Document!Newest(way, name) = path
  BY <1>1, WaysAreWays, SameIndex DEF Document!Newest
<1>4. way \in DocPaths /\ k \in Nat /\ Counted(N)
  BY <1>1, <1>3, Counts DEF IsWay, DocInv, DocCounts
<1>5. /\ new \subseteq DocPaths /\ (\A p \in new : Single(p)) /\ new \cap N = {}
      /\ path \notin new /\ path \in DocPaths /\ Len(path) = Len(outer) + 1
  BY <1>1, <1>3, <1>4, NewOnWay DEF DocSteps
<1>6. path \in N \/ Single(path)
  BY <1>1, <1>4, NewestIsSingle
<1>7. v5.outcome = "none"
  BY DEF Document!Table, Document!Goes
<1> HIDE DEF k, path, new
<1>8. CASE ~Document!Passes(way)
  BY <1>2, <1>8, DocFails DEF Document!Fails, Ends, DocInv, DocTypes
<1>9. CASE Document!Passes(way)
  <2>1. CASE Ends("error")
    BY <1>1, <1>2, <1>9, <2>1, DocFails
  <2>2. CASE Stored(path, "Hash", new)
    <3>1. DocTypes' /\ DocNodes' /\ DocMarks' /\ DocOnce'
      BY <1>1, <1>2, <1>5, <1>7, <1>9, <2>2, StoredKeeps
    <3>2. /\ DOMAIN v1' = N \cup new \cup {path} /\ v5'.n = v5.n + 1
          /\ \A p \in DOMAIN v1' : v1'[p] = IF p \in N THEN v1[p] ELSE "table"
          /\ v6'.twice = v6.twice \cup ({path} \cap v6.given)
      BY <2>2 DEF Stored
    <3>3. DocCounts'
      BY <1>5, <1>6, <3>2, SingleKeepsCounts
    <3>4. ASSUME v6'.twice = {}
          PROVE  /\ IsWay(DOMAIN v1', path, Append(outer, name)) /\ Begins(path) \subseteq DOMAIN v1'
                 /\ \A p \in Begins(path) : v1'[p] = "table"
      <4>1. IsWay(N, path, Append(outer, name)) /\ Begins(path) = Begins(way) \cup {path}
        BY <1>1, <1>3, <1>4, WayGoesOn DEF path, k
      <4>2. IsWay(DOMAIN v1', path, Append(outer, name))
        <5>1. N \subseteq DOMAIN v1' /\ \A p \in DOMAIN v1' \ N : Single(p)
          BY <1>5, <1>6, <3>2
        <5> QED BY <1>1, <4>1, <5>1, WayStays
      <4>3. Begins(path) \subseteq DOMAIN v1'
        BY <3>2, <4>1 DEF new
      <4>4. path \in N => v1[path] = "table"
        BY <3>2, <3>4 DEF DocInv, DocNodes
      <4>5. \A p \in Begins(way) \cap N : v1[p] = "table"
        BY <1>1, <1>9, WaysAreWays
      <4> QED BY <3>2, <4>1, <4>2, <4>3, <4>4, <4>5
    <3>5. DocContext'
      BY <1>2, <1>9, <3>4 DEF DocContext
    <3> QED BY <3>1, <3>3, <3>5 DEF DocInv
  <2>3. Ends("error") \/ Stored(path, "Hash", new)
    BY <1>2, <1>3, <1>5, <1>9, SetStores DEF DocInv
  <2> QED BY <2>1, <2>2, <2>3
<1> QED BY <1>8, <1>9

LEMMA DocArrayTable ==
  ASSUME DocInv, NEW outer \in Document!Outer, NEW name \in Document!TableNames,
         Document!ArrayTable(outer, name)
  PROVE  DocInv'
<1>1. /\ name \in Document!Keys /\ outer \in Seq(Document!Keys)
      /\ Append(outer, name) \in Seq(Document!Keys)
  BY TableNames
<1>2. PICK way \in Document!Ways(outer) :
        IF ~Document!Passes(way) \/ Append(way, <<name, 0>>) \in DOMAIN v1
        THEN Document!Fails("error")
        ELSE /\ Document!SetValue(Append(way, <<name, Document!Index(way, name) + 1>>),
                                 "ArrayHash", Document!New(way))
             /\ v4' = Append(outer, name)
  BY DEF Document!ArrayTable
<1> DEFINE N == DOMAIN v1
           k == CountIn(N, way, name)
           path == Append(way, <<name, k + 1>>)
           new == Begins(way) \ N
           fails == ~Document!Passes(way) \/ Append(way, <<name, 0>>) \in N
<1>3. /\ IsWay(N, way, outer) /\ Document!New(way) = new
      /\ Append(way, <<name, Document!Index(way, name) + 1>>) = path
  BY <1>1, WaysAreWays, SameIndex
<1>4. way \in DocPaths /\ k \in Nat /\ ElementsIn(N, way, name) = 1..k
  BY <1>1, <1>3, Counts DEF IsWay, DocInv, DocCounts
<1>5. /\ new \subseteq DocPaths /\ (\A p \in new : Single(p)) /\ new \cap N = {}
      /\ path \notin new /\ path \in DocPaths /\ Len(path) = Len(outer) + 1
  BY <1>1, <1>3, <1>4, NewOnWay DEF DocSteps
<1>6. v5.outcome = "none" /\ v5.n < MaxStatements
  BY DEF Document!ArrayTable, Document!Goes
<1> HIDE DEF k, path, new
<1>7. CASE fails
  BY <1>2, <1>7, DocFails DEF Document!Fails, Ends, DocInv, DocTypes
<1>8. CASE ~fails
  <2>1. CASE Ends("error")
    BY <1>1, <1>2, <1>8, <2>1, DocFails
  <2>2. CASE Stored(path, "ArrayHash", new)
    <3>1. DocTypes' /\ DocNodes' /\ DocMarks' /\ DocOnce'
      BY <1>1, <1>2, <1>5, <1>6, <1>8, <2>2, StoredKeeps
    <3>2. /\ DOMAIN v1' = N \cup new \cup {path} /\ v5'.n = v5.n + 1
          /\ \A p \in DOMAIN v1' : v1'[p] = IF p \in N THEN v1[p] ELSE "table"
      BY <2>2 DEF Stored
    <3>3. DocCounts' /\ CountIn(DOMAIN v1', way, name) = k + 1
      <4>1. /\ k = CountIn(DOMAIN v1, way, name) /\ path = Append(way, <<name, k + 1>>)
            /\ DOMAIN v1 \subseteq DOMAIN v1' /\ path \in DOMAIN v1'
        BY <3>2 DEF k, path
      <4>2. \A p \in DOMAIN v1' \ DOMAIN v1 : Single(p) \/ p = path
        BY <1>5, <3>2
      <4>3. name \in Document!Keys /\ way \in DocPaths /\ v5.n < MaxStatements /\ v5'.n = v5.n + 1
        BY <1>1, <1>4, <1>6, <3>2
      <4> QED BY <4>1, <4>2, <4>3, ElementCounts, ZenonT(40)
    <3>4. path \notin N
      <4>1. k + 1 \in 1..MaxStatements
        <5>1. k <= v5.n
          BY <1>1, <1>4 DEF DocInv, DocCounts, k
        <5> QED BY <1>4, <1>6, <5>1, PartsAssumption DEF DocInv, DocTypes
      <4>2. k + 1 \notin ElementsIn(N, way, name)
        BY <1>4
      <4> QED BY <4>1, <4>2 DEF ElementsIn, path
    <3>5. /\ IsWay(DOMAIN v1', path, Append(outer, name)) /\ Begins(path) \subseteq DOMAIN v1'
          /\ \A p \in Begins(path) : v1'[p] = "table"
      <4>1. Len(path) \notin 1..Len(outer)
        BY <1>1, <1>5
      <4>2. IsWay(DOMAIN v1', way, outer)
        BY <1>1, <1>3, <1>5, <3>2, <4>1, WayStays
      <4>3. IsWay(DOMAIN v1', path, Append(outer, name)) /\ Begins(path) = Begins(way) \cup {path}
        BY <1>1, <3>3, <4>2, WayGoesOn DEF path, DocCounts
      <4>4. Begins(path) \subseteq DOMAIN v1'
        BY <3>2, <4>3 DEF new
      <4>5. \A p \in Begins(way) \cap N : v1[p] = "table"
        BY <1>1, <1>8, WaysAreWays
      <4> QED BY <3>2, <3>4, <4>3, <4>4, <4>5
    <3>6. DocContext'
      BY <1>2, <1>8, <3>5 DEF DocContext
    <3> QED BY <3>1, <3>3, <3>6 DEF DocInv
  <2>3. Ends("error") \/ Stored(path, "ArrayHash", new)
    BY <1>2, <1>3, <1>5, <1>8, SetStores DEF DocInv
  <2> QED BY <2>1, <2>2, <2>3
<1> QED BY <1>7, <1>8

LEMMA DocKeyValue ==
  ASSUME DocInv, NEW key \in Document!Keys, Document!KeyValue(key)
  PROVE  DocInv'
<1>1. PICK way \in Document!Ways(v4) :
        IF ~Document!Passes(way) \/ Document!New(way) # {} THEN Document!Fails("bug")
        ELSE Document!SetValue(Document!Newest(way, key), "Value", {}) /\ UNCHANGED v4
  BY DEF Document!KeyValue
<1> DEFINE N == DOMAIN v1
           k == CountIn(N, way, key)
           path == Append(way, <<key, k>>)
           fails == ~Document!Passes(way) \/ Document!New(way) # {}
<1>2. v4 \in Seq(Document!Keys)
  BY DEF DocInv, DocTypes
<1>3. /\ IsWay(N, way, v4) /\ Document!New(way) = Begins(way) \ N
      /\ Document!Newest(way, key) = path
  BY <1>2, WaysAreWays, SameIndex DEF Document!Newest
<1>4. way \in DocPaths /\ k \in Nat /\ Counted(N)
  BY <1>3, Counts DEF IsWay, DocInv, DocCounts
<1>5. path \in DocPaths
  BY <1>4 DEF DocPaths, DocSteps
<1>6. path \in N \/ Single(path)
  BY <1>4, NewestIsSingle
<1>7. v5.outcome = "none"
  BY DEF Document!KeyValue, Document!Goes
<1> HIDE DEF k, path
<1>8. CASE fails
  <2>1. v6.twice # {}
    <3> SUFFICES ASSUME v6.twice = {} PROVE FALSE
      OBVIOUS
    <3>1. PICK known : /\ IsWay(N, known, v4) /\ Begins(known) \subseteq N
                       /\ \A p \in Begins(known) : v1[p] = "table"
      BY <1>7 DEF DocInv, DocContext
    <3>2. known = way
      BY <1>2, <1>3, <3>1, OneWay
    <3> QED BY <1>2, <1>3, <1>8, <3>1, <3>2, WaysAreWays
  <2> QED BY <1>1, <1>2, <1>8, <2>1, DocFails DEF Document!Fails, Ends
<1>9. CASE ~fails
  <2>1. CASE Ends("error")
    BY <1>1, <1>2, <1>9, <2>1, DocFails
  <2>2. CASE Stored(path, "Value", {})
    <3>1. DocTypes' /\ DocNodes' /\ DocMarks' /\ DocOnce'
      BY <1>1, <1>2, <1>5, <1>7, <1>9, <2>2, StoredKeeps
    <3>2. /\ DOMAIN v1' = N \cup {} \cup {path} /\ v5'.n = v5.n + 1
          /\ \A p \in N : p \in DOMAIN v1' /\ v1'[p] = v1[p]
      BY <2>2 DEF Stored
    <3>3. DocCounts'
      BY <1>6, <3>2, SingleKeepsCounts
    <3>4. Begins(way) \subseteq N /\ \A p \in Begins(way) : v1[p] = "table"
      BY <1>2, <1>3, <1>9, WaysAreWays
    <3>5. IsWay(DOMAIN v1', way, v4)
      BY <1>2, <1>3, <1>6, <3>2, WayStays
    <3>6. v4' = v4 /\ Begins(way) \subseteq DOMAIN v1' /\ \A p \in Begins(way) : v1'[p] = "table"
      BY <1>1, <1>9, <3>2, <3>4
    <3>7. DocContext'
      BY <3>5, <3>6 DEF DocContext
    <3> QED BY <3>1, <3>3, <3>7 DEF DocInv
  <2>3. Ends("error") \/ Stored(path, "Value", {})
    BY <1>1, <1>3, <1>9, SetStores DEF DocInv
  <2> QED BY <2>1, <2>2, <2>3
<1> QED BY <1>8, <1>9

LEMMA DocNext == DocInv /\ Document!Next => DocInv'
BY DocTable, DocArrayTable, DocKeyValue DEF Document!Next

-----------------------------------------------------------------------------
(* All parts: the invariant of the one that runs, which stays the one.     *)
PartsInv ==
  /\ part = "form" => Form!IInv
  /\ part = "database" => Database!IInv
  /\ part = "users" => UsersInv
  /\ part = "service" => ServiceInv
  /\ part = "script" => Script!IInv
  /\ part = "daemon" => Daemon!IInv
  /\ part = "url" => v1 \in Seq(UrlChars)
  /\ part = "writer" => BytesPlaced
  /\ part = "lexer" => FitsNow
  /\ part = "document" => DocInv

LEMMA PartsInit == Init => PartsInv
<1> SUFFICES ASSUME Init PROVE PartsInv
  OBVIOUS
<1>1. CASE part = "form" /\ Form!Init
  BY <1>1, FormInit DEF PartsInv
<1>2. CASE part = "database" /\ Database!Init
  BY <1>2, DatabaseInit DEF PartsInv
<1>3. CASE part = "users" /\ Users!Init
  BY <1>3, UsersInit DEF PartsInv
<1>4. CASE part = "service" /\ Service!Init
  BY <1>4, ServiceInit DEF PartsInv
<1>5. CASE part = "script" /\ Script!Init
  BY <1>5, ScriptInit DEF PartsInv
<1>6. CASE part = "daemon" /\ Daemon!Init
  BY <1>6, DaemonInit DEF PartsInv
<1>7. CASE part = "url" /\ v1 \in {<<>>, Url!Scheme}
  BY <1>7, SchemeIs, EmptySeq DEF PartsInv
<1>8. CASE part = "writer" /\ Writer!Init
  BY <1>8, WriterInit, PartsAssumption DEF PartsInv
<1>9. CASE part = "lexer" /\ Lexer!Init
  BY <1>9, LexInit DEF PartsInv
<1>10. CASE part \in {"reader", "buffer"}
  BY <1>10 DEF PartsInv
<1>11. CASE part = "document" /\ Document!Init
  BY <1>11, DocInit DEF PartsInv
<1> QED BY <1>1, <1>2, <1>3, <1>4, <1>5, <1>6, <1>7, <1>8, <1>9, <1>10, <1>11 DEF Init

LEMMA PartsNext == PartsInv /\ Next => PartsInv'
<1> SUFFICES ASSUME PartsInv, Next PROVE PartsInv'
  OBVIOUS
<1>1. part' = part
  BY DEF Next
<1>2. CASE part = "form" /\ Form!Next
  BY <1>1, <1>2, FormNext DEF PartsInv
<1>3. CASE part = "database" /\ Database!Next
  BY <1>1, <1>3, DatabaseNext DEF PartsInv
<1>4. CASE part = "users" /\ Users!Next
  BY <1>1, <1>4, UsersNext DEF PartsInv
<1>5. CASE part = "service" /\ Service!Next
  BY <1>1, <1>5, ServiceNext DEF PartsInv
<1>6. CASE part = "script" /\ Script!Next
  BY <1>1, <1>6, ScriptNext DEF PartsInv
<1>7. CASE part = "daemon" /\ Daemon!Next
  BY <1>1, <1>7, DaemonNext DEF PartsInv
<1>8. CASE part = "url" /\ Longer(v1)
  BY <1>1, <1>8, UrlNext DEF PartsInv
<1>9. CASE part = "writer" /\ Writer!Next
  BY <1>1, <1>9, WriterStep, PartsAssumption DEF PartsInv
<1>10. CASE part = "lexer" /\ Lexer!Next
  BY <1>1, <1>10, LexStep DEF PartsInv
<1>11. CASE part \in {"reader", "buffer"}
  BY <1>1, <1>11 DEF PartsInv
<1>12. CASE part = "document" /\ Document!Next
  BY <1>1, <1>12, DocNext DEF PartsInv
<1> QED BY <1>2, <1>3, <1>4, <1>5, <1>6, <1>7, <1>8, <1>9, <1>10, <1>11, <1>12 DEF Next

LEMMA PartsStutter == PartsInv /\ UNCHANGED vars => PartsInv'
<1> SUFFICES ASSUME PartsInv, UNCHANGED vars PROVE PartsInv'
  OBVIOUS
<1>1. /\ part' = part /\ v1' = v1 /\ v2' = v2 /\ v3' = v3 /\ v4' = v4 /\ v5' = v5
      /\ v6' = v6 /\ v7' = v7 /\ v8' = v8 /\ v9' = v9
  BY DEF vars
<1>2. Form!IInv' <=> Form!IInv
  BY <1>1 DEF Form!IInv, Form!TypeOK, Form!AllListed, Form!Listed, Form!InForm
<1>3. Database!IInv' <=> Database!IInv
  BY <1>1 DEF Database!IInv, Database!TypeOK, Database!Tallied, Database!FlagHasMonitor
<1>4. UsersInv' <=> UsersInv
  BY <1>1 DEF UsersInv, Users!IInv, Users!TypeOK, Users!Holders, Users!Stage, Users!Answered,
     Users!ToolInPlace, Users!RegisteredAsTold
<1>5. ServiceInv' <=> ServiceInv
  BY <1>1 DEF ServiceInv, Service!IInv, Service!TypeOK, Service!Holders, Service!Stage,
     Service!RanAsSent
<1>6. Script!IInv' <=> Script!IInv
  BY <1>1 DEF Script!IInv, Script!TypeOK, Script!Objs, Script!Apart, Script!Filled, Script!Sound,
     Script!Messages, Script!InLua, Script!OneAtATime
<1>7. Daemon!IInv' <=> Daemon!IInv
  BY <1>1 DEF Daemon!IInv, Daemon!TypeOK, Daemon!Visited, Daemon!ServesAsEntered
<1>8. BytesPlaced' <=> BytesPlaced
  BY <1>1 DEF BytesPlaced, Records, Placed, Upto
<1>9. FitsNow' <=> FitsNow
  BY <1>1 DEF FitsNow
<1>10. DocInv' <=> DocInv
  BY <1>1 DEF DocInv, DocTypes, DocNodes, DocCounts, DocMarks, DocContext, DocOnce, DocShared, DocAlone
<1> QED BY <1>1, <1>2, <1>3, <1>4, <1>5, <1>6, <1>7, <1>8, <1>9, <1>10 DEF PartsInv

LEMMA PartsAlways == Spec => []PartsInv
<1> QED BY PartsInit, PartsNext, PartsStutter, PTL DEF Spec

-----------------------------------------------------------------------------
(* What a handler answers is so, whatever the order of the form's keys,    *)
(* however the tool and its connection interleave with registrations, and  *)
(* however many monitors were asked for.                                   *)
THEOREM TrueAnswers == Spec => []AnswersAreTrue
<1>1. PartsInv => AnswersAreTrue
  BY FormMovesAll DEF PartsInv, AnswersAreTrue, UsersInv, Users!IInv, Database!IInv
<1> QED BY <1>1, PartsAlways, PTL

(* What runs for a request is its own: any pool size, any stack.           *)
THEOREM OwnRequest == Spec => []RunsOwnRequest
<1>1. PartsInv => RunsOwnRequest
  BY DEF PartsInv, RunsOwnRequest, ServiceInv, Service!IInv, Script!IInv
<1> QED BY <1>1, PartsAlways, PTL

(* A daemon that serves is in etcd and serves all it is configured for;    *)
(* what waits for ever was sent to a handler without section or objects,   *)
(* or to one whose operations wait; and a panic has its cause in the       *)
(* configuration, or in a monitor (main.go, cmds.go:32-51).                *)
THEOREM EnteredServes == Spec => []ServesAsEntered
<1>1. PartsInv => ServesAsEntered
  BY DEF PartsInv, ServesAsEntered, Daemon!IInv
<1> QED BY <1>1, PartsAlways, PTL

(* The key of a url of any length, over any characters.                    *)
THEOREM RestIsKey == Spec => []KeyIsRest
<1>1. PartsInv => KeyIsRest
  BY UrlKeyIsRest DEF PartsInv, KeyIsRest
<1> QED BY <1>1, PartsAlways, PTL

(* A tick begun without errors alarms exactly when all its pings fail, for *)
(* every pingCount.                                                        *)
THEOREM TicksAreExact == Spec => FreshTickExact
<1>1. PartsInv /\ [Next]_vars => [part = "database" => Database!TickIsExact]_vars
  <2> SUFFICES ASSUME PartsInv, Next, part = "database" PROVE Database!TickIsExact
    OBVIOUS
  <2>1. Database!Next
    BY DEF Next
  <2> QED BY <2>1, DatabaseNext DEF PartsInv
<1> QED BY <1>1, PartsAlways, PTL DEF Spec, FreshTickExact

(* The handlers /sctl and /qianke/ implement the abstract request pool.    *)
THEOREM PartsImplementPool == Spec => PoolPromise
<1>1. Init => /\ part = "service" => Service!Pool!Init
              /\ part = "users" => Users!Pool!Init
  BY ServiceInit, UsersInit DEF Init
<1>2. PartsInv /\ [Next]_vars =>
        [/\ part = "service" => [Service!Pool!Next]_(Service!Pool!poolVars)
         /\ part = "users" => [Users!Pool!Next]_(Users!Pool!poolVars)]_vars
  <2> SUFFICES ASSUME PartsInv, Next
               PROVE  /\ part = "service" => [Service!Pool!Next]_(Service!Pool!poolVars)
                      /\ part = "users" => [Users!Pool!Next]_(Users!Pool!poolVars)
    OBVIOUS
  <2>1. CASE part = "service"
    <3>1. Service!Next
      BY <2>1 DEF Next
    <3> QED BY <2>1, <3>1, ServiceNext DEF PartsInv
  <2>2. CASE part = "users"
    <3>1. Users!Next
      BY <2>2 DEF Next
    <3> QED BY <2>2, <3>1, UsersNext DEF PartsInv
  <2> QED BY <2>1, <2>2
<1> QED BY <1>1, <1>2, PartsAlways, PTL DEF Spec, PoolPromise

(* In both, a request inside the handler holds an object of its own, which  *)
(* is not in the channel, and every object is in the channel or held: the   *)
(* pool neither leaks nor shares one (scriptserv.go:73-79,                  *)
(* userserv.go:66-72).                                                      *)
THEOREM PoolsExclusive ==
  Spec => []/\ part = "service" => Service!Pool!Exclusive
            /\ part = "users" => Users!Pool!Exclusive
<1>1. ServiceInv => Service!Pool!Exclusive
  <2> SUFFICES ASSUME ServiceInv PROVE Service!Pool!Exclusive
    OBVIOUS
  <2>1. Service!Pool!Inside = {r \in Reqs : Service!Stage(r) = "inside"}
    BY DEF Service!Pool!Inside
  <2>2. /\ \A r \in Reqs : v3[r] # NoObj <=> Service!Stage(r) = "inside"
        /\ Partition(v1, v3)
    BY SameObjs DEF ServiceInv, Service!IInv, Service!Holders
  <2> QED BY <2>1, <2>2, SameObjs
          DEF Service!Pool!Exclusive, Partition, Elems, Service!Pool!Objs, Service!Pool!NoObj, Objs, NoObj
<1>2. UsersInv => Users!Pool!Exclusive
  <2> SUFFICES ASSUME UsersInv PROVE Users!Pool!Exclusive
    OBVIOUS
  <2>1. Users!Pool!Inside = {r \in Reqs : Users!Stage(r) = "inside"}
    BY DEF Users!Pool!Inside
  <2>2. /\ \A r \in Reqs : v2[r] # NoObj <=> Users!Stage(r) = "inside"
        /\ Partition(v1, v2)
    BY SameObjs DEF UsersInv, Users!IInv, Users!Holders
  <2> QED BY <2>1, <2>2, SameObjs
          DEF Users!Pool!Exclusive, Partition, Elems, Users!Pool!Objs, Users!Pool!NoObj, Objs, NoObj
<1>3. PartsInv => /\ part = "service" => Service!Pool!Exclusive
                  /\ part = "users" => Users!Pool!Exclusive
  BY <1>1, <1>2 DEF PartsInv
<1> QED BY <1>3, PartsAlways, PTL

(* The bytes that callers were told are written are below or buffered,     *)
(* each once and in order, whatever each flush left behind and for a       *)
(* buffer of any length (Writer of bufio.go).                              *)
THEOREM WrittenIsInOrder == Spec => []WrittenInOrder
<1>1. PartsInv => WrittenInOrder
  BY PlacedIsWritten, PartsAssumption DEF PartsInv, WrittenInOrder
<1> QED BY <1>1, PartsAlways, PTL

(* A Flush without an error leaves nothing behind, and after an error      *)
(* nothing goes below, but by the ReadFrom of the writer below             *)
(* (bufio.go:548-575).                                                     *)
THEOREM FlushIsForwarded == Spec => [][part = "writer" => Writer!FlushForwards]_vars
<1>1. PartsInv /\ [Next]_vars => [part = "writer" => Writer!FlushForwards]_vars
  <2> SUFFICES ASSUME PartsInv, Next, part = "writer" PROVE Writer!FlushForwards
    OBVIOUS
  <2>1. Writer!Next
    BY DEF Next
  <2> QED BY <2>1, WriterStep, PartsAssumption DEF PartsInv
<1> QED BY <1>1, PartsAlways, PTL DEF Spec

(* The lexer and the parser of TOML agree on the order of items for every  *)
(* document and any depth of arrays: none ends the process as a bug, and   *)
(* its end finds every array and table closed (lex.go, parse.go:75-225).   *)
THEOREM ItemsAreExpected == Spec => []ItemsFit
<1>1. PartsInv => ItemsFit
  BY FitsItems DEF PartsInv, ItemsFit
<1> QED BY <1>1, PartsAlways, PTL

(* What a document of any length says twice is an error, and what it says   *)
(* once is kept, unless another node that the parser made on its way down   *)
(* has the same dotted name (parse.go:233-371).                             *)
THEOREM DocumentsDefineOnce == Spec => []DefinedOnce
<1>1. PartsInv => DefinedOnce
  BY DocIsOnce DEF PartsInv, DefinedOnce
<1> QED BY <1>1, PartsAlways, PTL
=============================================================================
