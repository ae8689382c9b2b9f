---------------------------- MODULE MgoCmdProofs ----------------------------
(***************************************************************************)
(* Proofs about MgoCmd, for any requests, pool size, bodies and databases. *)
(***************************************************************************)
EXTENDS MgoCmd, SequenceTheorems, FiniteSetTheorems, TLAPS

(* A channel without duplicates: what receiving its head and sending to    *)
(* its end do to its elements.                                             *)
Elems(s) == {s[i] : i \in 1..Len(s)}
NoDup(s) == \A i, j \in 1..Len(s) : s[i] = s[j] => i = j

LEMMA ReceiveHead ==
  ASSUME NEW S, NEW s \in Seq(S), s # <<>>
  PROVE  /\ Tail(s) \in Seq(S)
         /\ Head(s) \in S
         /\ Head(s) = s[1]
         /\ Len(s) \in Nat \ {0}
         /\ Len(Tail(s)) = Len(s) - 1
         /\ \A i \in 1..Len(Tail(s)) : Tail(s)[i] = s[i + 1]
  OBVIOUS

LEMMA ReceiveElems ==
  ASSUME NEW S, NEW s \in Seq(S), s # <<>>, NoDup(s)
  PROVE  /\ NoDup(Tail(s))
         /\ Elems(Tail(s)) = Elems(s) \ {Head(s)}
<1>1. NoDup(Tail(s))
  BY ReceiveHead DEF NoDup
<1>2. ASSUME NEW x \in Elems(Tail(s)) PROVE x \in Elems(s) /\ x # Head(s)
  <2>1. PICK i \in 1..Len(Tail(s)) : x = Tail(s)[i]
    BY DEF Elems
  <2>2. x = s[i + 1] /\ i + 1 \in 1..Len(s) /\ i + 1 # 1
    BY <2>1, ReceiveHead
  <2> QED BY <2>2, ReceiveHead DEF Elems, NoDup
<1>3. ASSUME NEW x \in Elems(s), x # Head(s) PROVE x \in Elems(Tail(s))
  <2>1. PICK i \in 1..Len(s) : x = s[i]
    BY DEF Elems
  <2>2. i # 1
    BY <2>1, <1>3, ReceiveHead
  <2>3. (i - 1) \in 1..Len(Tail(s)) /\ Tail(s)[i - 1] = x
    BY <2>1, <2>2, ReceiveHead
  <2> QED BY <2>3 DEF Elems
<1> QED BY <1>1, <1>2, <1>3

LEMMA SendElems ==
  ASSUME NEW S, NEW s \in Seq(S), NEW x \in S
  PROVE  /\ Append(s, x) \in Seq(S)
         /\ Elems(Append(s, x)) = Elems(s) \cup {x}
         /\ NoDup(s) /\ x \notin Elems(s) => NoDup(Append(s, x))
<1>1. /\ Append(s, x) \in Seq(S)
      /\ Len(Append(s, x)) = Len(s) + 1
      /\ Len(s) \in Nat
      /\ \A i \in 1..Len(s) : Append(s, x)[i] = s[i]
      /\ Append(s, x)[Len(s) + 1] = x
  OBVIOUS
<1>2. Elems(Append(s, x)) \subseteq Elems(s) \cup {x}
  BY <1>1 DEF Elems
<1>3. Elems(s) \cup {x} \subseteq Elems(Append(s, x))
  BY <1>1 DEF Elems
<1>4. ASSUME NoDup(s), x \notin Elems(s) PROVE NoDup(Append(s, x))
  BY <1>1, <1>4 DEF Elems, NoDup
<1> QED BY <1>1, <1>2, <1>3, <1>4

-----------------------------------------------------------------------------
(* Type correctness.  It is not inductive alone: the object a monitor is   *)
(* started on and the one Recycle puts back are pointers only because a    *)
(* request past getAvalibleReq holds one.                                  *)
Holders == \A r \in Reqs : Holding(r) <=> hold[r] # NoObj

(* A monitor is the goroutine of a request that is past its handler.       *)
Monitors ==
  \A m \in Reqs : mon[m].st # "none" =>
    mon[m].ptr \in Objs /\ pc[m] \in {"recycle", "done"}

LEMMA MergeType ==
  ASSUME NEW old \in Content, NEW b \in Body
  PROVE  Merge(old, b) \in Content
  BY DEF Merge, Content, Body, Cmds, Handlers, DBNames


MonRecord == [st    : {"none", "spawned", "exited"} \cup Active,
              ptr   : Objs \cup {NoObj},
              db    : DBNames,
              from  : DBNames,
              names : SUBSET Colls]

LEMMA InitType == Init => TypeOK
<1> SUFFICES ASSUME Init PROVE TypeOK
  OBVIOUS
<1> USE DEF Init
<1>1. pc \in [Reqs -> Handlers \cup {"read", "wait", "decode", "recycle", "done"}]
  OBVIOUS
<1>2. body \in [Reqs -> Body]
  BY DEF NoBody, Body
<1>3. hold \in [Reqs -> Objs \cup {NoObj}] /\ reply \in [Reqs -> Replies]
  BY DEF Replies
<1>4. pool \in Seq(Objs)
  <2>1. MgoReqPoolSize \in Nat /\ pool \in [1..MgoReqPoolSize -> Objs]
    BY MgoCmdAssumption DEF MgoCmdAssumption, Objs
  <2> QED BY <2>1, SeqDef, Zenon
<1>5. obj \in [Objs -> Content]
  BY DEF Content, DBNames, Cmds
<1>6. writer \in [Objs -> {NoReq} \cup [req : Reqs]]
  OBVIOUS
<1>7. mon \in [Reqs -> MonRecord]
  BY DEF NoMon, DBNames, MonRecord
<1>8. diskMonState \in {0, 1} /\ colls \in [DBNames -> SUBSET Colls]
  BY MgoCmdAssumption DEF MgoCmdAssumption
<1> QED BY <1>1, <1>2, <1>3, <1>4, <1>5, <1>6, <1>7, <1>8 DEF TypeOK, MonRecord

LEMMA ServeType ==
  ASSUME TypeOK, Holders, NEW r \in Reqs, ServeHTTP(r)
  PROVE  TypeOK'
<1> DEFINE PCs == Handlers \cup {"read", "wait", "decode", "recycle", "done"}
<1> USE DEF reqVars, objVars, monVars, dbVars
<1>0. Objs' = Objs
  OBVIOUS
<1>1. CASE ReadBody(r)
  <2>1. body' \in [Reqs -> Body]
    BY <1>1, MgoCmdAssumption DEF ReadBody, TypeOK, MgoCmdAssumption
  <2>2. reply' \in [Reqs -> Replies]
    BY <1>1 DEF ReadBody, TypeOK, Replies
  <2>3. pc' \in [Reqs -> PCs]
    BY <1>1 DEF ReadBody, TypeOK
  <2> QED BY <1>1, <2>1, <2>2, <2>3 DEF ReadBody, TypeOK
<1>2. CASE GetAvalibleReq(r)
  <2>1. pool' \in Seq(Objs) /\ Head(pool) \in Objs
    BY <1>2, ReceiveHead DEF GetAvalibleReq, TypeOK
  <2>2. hold' \in [Reqs -> Objs \cup {NoObj}]
    BY <1>2, <2>1 DEF GetAvalibleReq, TypeOK
  <2>3. pc' \in [Reqs -> PCs]
    BY <1>2 DEF GetAvalibleReq, TypeOK
  <2> QED BY <1>2, <2>1, <2>2, <2>3 DEF GetAvalibleReq, TypeOK
<1>3. CASE Decode(r)
  <2>1. hold[r] \in Objs \cup {NoObj} /\ body[r] \in Body
    BY DEF TypeOK
  <2>2. obj' = [obj EXCEPT ![hold[r]] = Merge(obj[hold[r]], body[r])]
    BY <1>3 DEF Decode
  <2>3. obj' \in [Objs -> Content]
    <3>1. CASE hold[r] \in Objs
      <4>1. Merge(obj[hold[r]], body[r]) \in Content
        BY <3>1, <2>1, MergeType DEF TypeOK
      <4> QED BY <4>1, <2>2 DEF TypeOK
    <3>2. CASE hold[r] \notin Objs
      BY <3>2, <2>2 DEF TypeOK
    <3> QED BY <3>1, <3>2
  <2>4. writer' \in [Objs -> {NoReq} \cup [req : Reqs]]
    BY <1>3 DEF Decode, TypeOK
  <2>5. pc' \in [Reqs -> PCs]
    BY <1>3 DEF Decode, Answer, TypeOK
  <2>6. reply' \in [Reqs -> Replies]
    BY <1>3 DEF Decode, Answer, TypeOK, Replies
  <2> QED BY <1>3, <2>3, <2>4, <2>5, <2>6 DEF Decode, TypeOK
<1>4. CASE StatsHandler(r)
  <2>1. pc' \in [Reqs -> PCs]
    BY <1>4 DEF StatsHandler, Answer, TypeOK
  <2>2. reply' \in [Reqs -> Replies]
    BY <1>4 DEF StatsHandler, Answer, TypeOK, Replies
  <2> QED BY <1>4, <2>1, <2>2 DEF StatsHandler, TypeOK
<1>5. CASE DiskMonStartHandler(r)
  <2>1. mon' \in [Reqs -> MonRecord]
    <3>1. mon \in [Reqs -> MonRecord] /\ hold[r] \in Objs \cup {NoObj}
      BY DEF TypeOK, MonRecord
    <3>2. CASE UNCHANGED mon
      BY <3>1, <3>2
    <3>3. CASE mon' = [mon EXCEPT ![r] = [NoMon EXCEPT !.st = "spawned",
                                                       !.ptr = hold[r],
                                                       !.db = obj[hold[r]].db]]
      <4>1. obj[hold[r]].db \in DBNames
        BY <1>5 DEF DiskMonStartHandler, Holders, Holding, Handlers, TypeOK, Content
      <4> QED BY <3>1, <3>3, <4>1 DEF NoMon, MonRecord, DBNames
    <3> QED BY <1>5, <3>2, <3>3 DEF DiskMonStartHandler
  <2>2. reply' \in [Reqs -> Replies]
    BY <1>5 DEF DiskMonStartHandler, Answer, TypeOK, Replies
  <2>3. pc' \in [Reqs -> PCs]
    BY <1>5 DEF DiskMonStartHandler, Answer, TypeOK
  <2> QED BY <1>5, <2>1, <2>2, <2>3 DEF DiskMonStartHandler, TypeOK, MonRecord
<1>6. CASE DiskMonEndHandler(r)
  <2>1. mon' \in [Reqs -> MonRecord]
    <3>1. PICK m \in Reqs : mon' = [mon EXCEPT ![m].st = "stopping"]
      BY <1>6 DEF DiskMonEndHandler
    <3>2. mon[m] \in MonRecord /\ mon \in [Reqs -> MonRecord]
      BY DEF TypeOK, MonRecord
    <3>3. [mon[m] EXCEPT !.st = "stopping"] \in MonRecord
      BY <3>2 DEF MonRecord, Active
    <3> QED BY <3>1, <3>2, <3>3
  <2>2. reply' \in [Reqs -> Replies]
    BY <1>6 DEF DiskMonEndHandler, Answer, TypeOK, Replies
  <2>3. pc' \in [Reqs -> PCs]
    BY <1>6 DEF DiskMonEndHandler, Answer, TypeOK
  <2> QED BY <1>6, <2>1, <2>2, <2>3 DEF DiskMonEndHandler, TypeOK, MonRecord
<1>7. CASE DbMonStartHandler(r)
  <2>1. pc' \in [Reqs -> PCs]
    BY <1>7 DEF DbMonStartHandler, Answer, TypeOK
  <2>2. reply' \in [Reqs -> Replies]
    BY <1>7 DEF DbMonStartHandler, Answer, TypeOK, Replies
  <2> QED BY <1>7, <2>1, <2>2 DEF DbMonStartHandler, TypeOK
<1>8. CASE Recycle(r)
  <2>1. hold[r] \in Objs
    BY <1>8 DEF Recycle, Holders, Holding, TypeOK
  <2>2. pool' \in Seq(Objs)
    BY <1>8, <2>1, SendElems DEF Recycle, TypeOK
  <2>3. body' \in [Reqs -> Body]
    BY <1>8 DEF Recycle, TypeOK, NoBody, Body
  <2>4. hold' \in [Reqs -> Objs \cup {NoObj}] /\ pc' \in [Reqs -> PCs]
    BY <1>8 DEF Recycle, TypeOK
  <2> QED BY <1>8, <2>2, <2>3, <2>4 DEF Recycle, TypeOK
<1> QED BY <1>1, <1>2, <1>3, <1>4, <1>5, <1>6, <1>7, <1>8 DEF ServeHTTP

LEMMA ServeHolders ==
  ASSUME TypeOK, Holders, NEW r \in Reqs, ServeHTTP(r)
  PROVE  Holders'
<1> USE DEF TypeOK, Holders, Holding, Handlers
<1>0. NoObj \notin Objs
  BY DEF Objs, NoObj
<1>1. CASE ReadBody(r)
  BY <1>1 DEF ReadBody
<1>2. CASE GetAvalibleReq(r)
  BY <1>0, <1>2, ReceiveHead DEF GetAvalibleReq
<1>3. CASE Decode(r)
  BY <1>3 DEF Decode, Answer
<1>4. CASE StatsHandler(r)
  BY <1>4 DEF StatsHandler, Answer
<1>5. CASE DiskMonStartHandler(r)
  BY <1>5 DEF DiskMonStartHandler, Answer
<1>6. CASE DiskMonEndHandler(r)
  BY <1>6 DEF DiskMonEndHandler, Answer
<1>7. CASE DbMonStartHandler(r)
  BY <1>7 DEF DbMonStartHandler, Answer
<1>8. CASE Recycle(r)
  BY <1>8 DEF Recycle
<1> QED BY <1>1, <1>2, <1>3, <1>4, <1>5, <1>6, <1>7, <1>8 DEF ServeHTTP

LEMMA ServeMonitors ==
  ASSUME TypeOK, Holders, Monitors, NEW r \in Reqs, ServeHTTP(r)
  PROVE  Monitors'
<1> USE DEF Monitors, Handlers, monVars, dbVars
<1>0. pc \in [Reqs -> Handlers \cup {"read", "wait", "decode", "recycle", "done"}]
  BY DEF TypeOK
<1>1. CASE ReadBody(r)
  BY <1>0, <1>1 DEF ReadBody
<1>2. CASE GetAvalibleReq(r)
  BY <1>0, <1>2 DEF GetAvalibleReq
<1>3. CASE Decode(r)
  BY <1>0, <1>3 DEF Decode, Answer
<1>4. CASE StatsHandler(r)
  BY <1>0, <1>4 DEF StatsHandler, Answer
<1>5. CASE DiskMonStartHandler(r)
  <2>1. hold[r] \in Objs
    BY <1>5 DEF DiskMonStartHandler, TypeOK, Holders, Holding
  <2>2. mon' = mon \/ mon' = [mon EXCEPT ![r] = [NoMon EXCEPT !.st = "spawned",
                                                              !.ptr = hold[r],
                                                              !.db = obj[hold[r]].db]]
    BY <1>5 DEF DiskMonStartHandler
  <2>3. \A m \in Reqs : mon'[m] = mon[m] \/ (m = r /\ mon'[m].ptr = hold[r])
    <3>1. CASE mon' = mon
      BY <3>1
    <3>2. CASE mon' = [mon EXCEPT ![r] = [NoMon EXCEPT !.st = "spawned", !.ptr = hold[r],
                                                       !.db = obj[hold[r]].db]]
      <4> DEFINE new == [NoMon EXCEPT !.st = "spawned", !.ptr = hold[r],
                                      !.db = obj[hold[r]].db]
      <4>1. new.ptr = hold[r]
        BY DEF NoMon
      <4>2. mon \in [Reqs -> MonRecord] /\ mon' = [mon EXCEPT ![r] = new]
        BY <3>2 DEF TypeOK, MonRecord
      <4> HIDE DEF new
      <4> QED BY <4>1, <4>2
    <3> QED BY <2>2, <3>1, <3>2
  <2>4. pc' = [pc EXCEPT ![r] = "recycle"]
    BY <1>5 DEF DiskMonStartHandler, Answer
  <2> QED BY <1>0, <2>1, <2>3, <2>4
<1>6. CASE DiskMonEndHandler(r)
  <2>1. PICK k \in Reqs : mon[k].st = "select" /\ mon' = [mon EXCEPT ![k].st = "stopping"]
    BY <1>6 DEF DiskMonEndHandler
  <2>2. mon[k] \in MonRecord /\ mon \in [Reqs -> MonRecord]
    BY DEF TypeOK, MonRecord
  <2>3. ASSUME NEW m \in Reqs
        PROVE  mon'[m].ptr = mon[m].ptr /\ (mon'[m].st # "none" <=> mon[m].st # "none")
    <3>1. CASE m = k
      BY <2>1, <2>2, <3>1 DEF MonRecord
    <3>2. CASE m # k
      BY <2>1, <2>2, <3>2
    <3> QED BY <3>1, <3>2
  <2> QED BY <1>0, <1>6, <2>3 DEF DiskMonEndHandler, Answer
<1>7. CASE DbMonStartHandler(r)
  BY <1>0, <1>7 DEF DbMonStartHandler, Answer
<1>8. CASE Recycle(r)
  BY <1>0, <1>8 DEF Recycle
<1> QED BY <1>1, <1>2, <1>3, <1>4, <1>5, <1>6, <1>7, <1>8 DEF ServeHTTP

LEMMA MonStepType ==
  ASSUME TypeOK, Monitors, NEW m \in Reqs, DiskMon(m)
  PROVE  TypeOK' /\ Monitors'
<1>1. mon[m] \in MonRecord /\ mon \in [Reqs -> MonRecord]
  BY DEF TypeOK, MonRecord
<1>2. UNCHANGED <<reqVars, objVars>>
  BY DEF DiskMon, MonStart, MonTick, MonList, MonDrop, MonTickDone, MonExit
<1>3. diskMonState' \in {0, 1}
  BY DEF TypeOK, DiskMon, MonStart, MonTick, MonList, MonDrop, MonTickDone, MonExit
<1>4. mon[m].st # "none" /\ mon[m].ptr \in Objs /\ CurrentDB(m) \in DBNames
  <2>1. mon[m].st # "none"
    BY DEF DiskMon, MonStart, MonTick, MonList, MonDrop, MonTickDone, MonExit
  <2> QED BY <2>1 DEF Monitors, TypeOK, Content, CurrentDB
<1>5. /\ mon' \in [Reqs -> MonRecord]
      /\ colls' \in [DBNames -> SUBSET Colls] /\ astray' \in SUBSET DBNames
      /\ \A k \in Reqs \ {m} : mon'[k] = mon[k]
      /\ mon'[m].ptr = mon[m].ptr
  <2>0. colls \in [DBNames -> SUBSET Colls] /\ astray \in SUBSET DBNames
    BY DEF TypeOK
  <2>1. CASE MonStart(m)
    BY <1>1, <2>0, <2>1 DEF MonStart, MonRecord, dbVars, Active
  <2>2. CASE MonTick(m)
    BY <1>1, <2>0, <2>2 DEF MonTick, MonRecord, dbVars, Active
  <2>3. CASE MonList(m)
    <3>1. Victims(colls[CurrentDB(m)]) \in SUBSET Colls
      BY <1>4, <2>0 DEF Victims
    <3>2. [mon[m] EXCEPT !.st = "select"] \in MonRecord
      BY <1>1 DEF MonRecord, Active
    <3>3. [mon[m] EXCEPT !.st = "drop", !.from = CurrentDB(m),
                         !.names = Victims(colls[CurrentDB(m)])] \in MonRecord
      BY <1>1, <1>4, <3>1 DEF MonRecord, Active
    <3>4. CASE mon' = [mon EXCEPT ![m].st = "select"]
      BY <1>1, <2>0, <2>3, <3>2, <3>4 DEF MonList, MonRecord, monVars, dbVars
    <3>5. CASE mon' = [mon EXCEPT ![m].st = "drop",
                                  ![m].from = CurrentDB(m),
                                  ![m].names = Victims(colls[CurrentDB(m)])]
      <4>1. mon' = [mon EXCEPT ![m] = [mon[m] EXCEPT !.st = "drop", !.from = CurrentDB(m),
                                         !.names = Victims(colls[CurrentDB(m)])]]
        BY <3>5
      <4> QED BY <1>1, <2>0, <2>3, <3>3, <4>1 DEF MonList, MonRecord, dbVars
    <3> QED BY <2>3, <3>4, <3>5 DEF MonList
  <2>4. CASE MonDrop(m)
    <3>1. PICK c \in mon[m].names : mon' = [mon EXCEPT ![m].names = @ \ {c}]
      BY <2>4 DEF MonDrop
    <3>2. [mon[m] EXCEPT !.names = @ \ {c}] \in MonRecord
      BY <1>1 DEF MonRecord
    <3>3. mon' \in [Reqs -> MonRecord]
      BY <1>1, <3>1, <3>2
    <3>4. colls' \in [DBNames -> SUBSET Colls] /\ astray' \in SUBSET DBNames
      BY <2>0, <2>4, <1>4 DEF MonDrop, dbVars
    <3> QED BY <1>1, <3>1, <3>3, <3>4 DEF MonRecord
  <2>5. CASE MonTickDone(m)
    BY <1>1, <2>0, <2>5 DEF MonTickDone, MonRecord, dbVars, Active, DBNames
  <2>6. CASE MonExit(m)
    BY <1>1, <2>0, <2>6 DEF MonExit, MonRecord, dbVars
  <2> QED BY <2>1, <2>2, <2>3, <2>4, <2>5, <2>6 DEF DiskMon
<1>6. TypeOK'
  BY <1>2, <1>3, <1>5 DEF TypeOK, MonRecord, reqVars, objVars
<1>7. Monitors'
  BY <1>2, <1>4, <1>5 DEF Monitors, reqVars
<1> QED BY <1>6, <1>7

-----------------------------------------------------------------------------
IInv == TypeOK /\ Holders /\ Monitors

LEMMA InitInv == Init => IInv
<1> SUFFICES ASSUME Init PROVE IInv
  OBVIOUS
<1>1. Holders
  BY DEF Init, Holders, Holding, Handlers
<1>2. Monitors
  BY DEF Init, Monitors, NoMon
<1> QED BY <1>1, <1>2, InitType DEF IInv

LEMMA StepInv == IInv /\ [Next]_vars => IInv'
<1> SUFFICES ASSUME IInv, [Next]_vars PROVE IInv'
  OBVIOUS
<1>1. ASSUME NEW r \in Reqs, ServeHTTP(r) PROVE IInv'
  BY <1>1, ServeType, ServeHolders, ServeMonitors DEF IInv
<1>2. ASSUME NEW m \in Reqs, DiskMon(m) PROVE IInv'
  <2>1. UNCHANGED reqVars
    BY <1>2 DEF DiskMon, MonStart, MonTick, MonList, MonDrop, MonTickDone, MonExit
  <2>2. Holders'
    BY <2>1 DEF IInv, Holders, Holding, reqVars
  <2> QED BY <1>2, <2>2, MonStepType DEF IInv
<1>3. ASSUME NEW d \in DBNames, NewColl(d) PROVE IInv'
  <2>1. UNCHANGED <<reqVars, objVars, mon, diskMonState, astray>>
    BY <1>3 DEF NewColl
  <2>2. colls' \in [DBNames -> SUBSET Colls]
    BY <1>3 DEF NewColl, IInv, TypeOK
  <2> QED BY <2>1, <2>2 DEF IInv, TypeOK, Holders, Holding, Monitors, reqVars, objVars
<1>4. CASE UNCHANGED vars
  BY <1>4 DEF vars, reqVars, objVars, monVars, dbVars, IInv, TypeOK, Holders, Holding, Monitors
<1> QED BY <1>1, <1>2, <1>3, <1>4 DEF Next

(* Every variable keeps its type, whatever the requests, the bodies and    *)
(* the size of the pool.                                                   *)
THEOREM TypeCorrect == Spec => []TypeOK
<1>1. IInv => TypeOK
  BY DEF IInv
<1> QED BY <1>1, InitInv, StepInv, PTL DEF Spec

-----------------------------------------------------------------------------
(* Pool ownership.                                                         *)
Disjoint ==
  /\ NoDup(pool)
  /\ \A r, s \in Reqs : hold[r] = hold[s] /\ hold[r] # NoObj => r = s
  /\ \A r \in Reqs : hold[r] \notin Elems(pool)
  /\ \A o \in Objs : o \in Elems(pool) \/ \E r \in Reqs : hold[r] = o

LEMMA PartitionIsDisjoint == PoolPartition <=> Holders /\ Disjoint
<1>1. (\A r \in Reqs : \A i \in 1..Len(pool) : pool[i] # hold[r])
        <=> \A r \in Reqs : hold[r] \notin Elems(pool)
  BY DEF Elems
<1>2. \A o \in Objs : o \in Elems(pool) <=> \E i \in 1..Len(pool) : pool[i] = o
  BY DEF Elems
<1> QED BY <1>1, <1>2 DEF PoolPartition, Holders, Disjoint, NoDup

LEMMA IntervalEnd ==
  ASSUME NEW a \in Nat, NEW b \in Nat, 1..a = 1..b
  PROVE  a = b
<1>1. \A i \in Nat : (1 <= i /\ i <= a) <=> (1 <= i /\ i <= b)
  <2> SUFFICES ASSUME NEW i \in Nat PROVE i \in 1..a <=> i \in 1..b
    OBVIOUS
  <2> QED OBVIOUS
<1>2. (a >= 1 => a <= b) /\ (b >= 1 => b <= a)
  BY <1>1
<1> QED BY <1>2

LEMMA InitDisjoint == Init => Disjoint
<1> SUFFICES ASSUME Init PROVE Disjoint
  OBVIOUS
<1>1. MgoReqPoolSize \in Nat
  BY MgoCmdAssumption DEF MgoCmdAssumption
<1>2. /\ Len(pool) = MgoReqPoolSize
      /\ \A i \in 1..MgoReqPoolSize : pool[i] = i
  <2>1. pool = [i \in 1..MgoReqPoolSize |-> i] /\ DOMAIN pool = 1..MgoReqPoolSize
    BY DEF Init
  <2>2. Len(pool) \in Nat /\ DOMAIN pool = 1..Len(pool)
    BY InitType, LenProperties DEF TypeOK
  <2>3. 1..Len(pool) = 1..MgoReqPoolSize
    BY <2>1, <2>2
  <2>4. Len(pool) = MgoReqPoolSize
    BY <1>1, <2>2, <2>3, IntervalEnd
  <2> QED BY <2>1, <2>4
<1>3. NoDup(pool)
  BY <1>2 DEF NoDup
<1>4. Elems(pool) = Objs
  BY <1>2 DEF Elems, Objs
<1>5. \A r \in Reqs : hold[r] = NoObj
  BY DEF Init
<1>6. NoObj \notin Objs
  BY DEF NoObj, Objs
<1> QED BY <1>3, <1>4, <1>5, <1>6 DEF Disjoint

(* Only the receive and the send of the channel move an object.            *)
LEMMA PoolMoves ==
  ASSUME NEW r \in Reqs, ServeHTTP(r), ~GetAvalibleReq(r), ~Recycle(r)
  PROVE  UNCHANGED <<pool, hold>>
  BY DEF ServeHTTP, ReadBody, Decode, StatsHandler, DiskMonStartHandler,
         DiskMonEndHandler, DbMonStartHandler, objVars

LEMMA ReceiveDisjoint ==
  ASSUME IInv, Disjoint, NEW r \in Reqs, GetAvalibleReq(r)
  PROVE  /\ Disjoint'
         /\ Head(pool) \in Elems(pool)
         /\ Elems(pool)' = Elems(pool) \ {Head(pool)}
<1>1. /\ pool \in Seq(Objs) /\ pool # <<>> /\ NoDup(pool) /\ pool' = Tail(pool)
      /\ hold \in [Reqs -> Objs \cup {NoObj}]
      /\ hold' = [hold EXCEPT ![r] = Head(pool)]
  BY DEF IInv, TypeOK, Disjoint, GetAvalibleReq
<1>2. Head(pool) \in Elems(pool) /\ Head(pool) \in Objs
  BY <1>1, ReceiveHead DEF Elems
<1>3. NoDup(pool)' /\ Elems(pool)' = Elems(pool) \ {Head(pool)}
  BY <1>1, ReceiveElems DEF NoDup, Elems
<1>4. hold[r] = NoObj
  BY DEF IInv, Holders, Holding, GetAvalibleReq, Handlers
<1>5. \A s \in Reqs : hold'[s] = IF s = r THEN Head(pool) ELSE hold[s]
  BY <1>1
<1>6. \A o \in Objs : o \in Elems(pool)' \/ \E s \in Reqs : hold'[s] = o
  <2> SUFFICES ASSUME NEW o \in Objs, o \notin Elems(pool)'
               PROVE  \E s \in Reqs : hold'[s] = o
    OBVIOUS
  <2>1. CASE o = Head(pool)
    BY <1>5, <2>1
  <2>2. CASE o # Head(pool)
    <3>1. PICK s \in Reqs : hold[s] = o
      BY <1>3, <2>2 DEF Disjoint
    <3>2. s # r
      BY <1>4, <3>1 DEF Objs, NoObj
    <3> QED BY <1>5, <3>1, <3>2
  <2> QED BY <2>1, <2>2
<1>7. \A s \in Reqs : hold'[s] \notin Elems(pool)'
  BY <1>3, <1>5 DEF Disjoint
<1>8. \A s, q \in Reqs : hold'[s] = hold'[q] /\ hold'[s] # NoObj => s = q
  BY <1>2, <1>5 DEF Disjoint
<1> QED BY <1>2, <1>3, <1>6, <1>7, <1>8 DEF Disjoint

LEMMA SendDisjoint ==
  ASSUME IInv, Disjoint, NEW r \in Reqs, Recycle(r)
  PROVE  /\ Disjoint'
         /\ Elems(pool)' = Elems(pool) \cup {hold[r]}
<1>1. /\ pool \in Seq(Objs) /\ NoDup(pool) /\ pool' = Append(pool, hold[r])
      /\ hold \in [Reqs -> Objs \cup {NoObj}]
      /\ hold' = [hold EXCEPT ![r] = NoObj]
  BY DEF IInv, TypeOK, Disjoint, Recycle
<1>2. hold[r] \in Objs /\ hold[r] \notin Elems(pool)
  BY <1>1 DEF IInv, Holders, Holding, Recycle, Disjoint
<1>3. NoDup(pool)' /\ Elems(pool)' = Elems(pool) \cup {hold[r]}
  BY <1>1, <1>2, SendElems DEF NoDup, Elems
<1>4. \A s \in Reqs : hold'[s] = IF s = r THEN NoObj ELSE hold[s]
  BY <1>1
<1>5. NoObj \notin Elems(pool) /\ hold[r] # NoObj
  <2>1. \A i \in 1..Len(pool) : pool[i] \in Objs
    BY <1>1
  <2> QED BY <1>2, <2>1 DEF Elems, Objs, NoObj
<1>6. \A o \in Objs : o \in Elems(pool)' \/ \E s \in Reqs : hold'[s] = o
  BY <1>3, <1>4 DEF Disjoint
<1>7. \A s \in Reqs : hold'[s] \notin Elems(pool)'
  BY <1>2, <1>3, <1>4, <1>5 DEF Disjoint
<1>8. \A s, q \in Reqs : hold'[s] = hold'[q] /\ hold'[s] # NoObj => s = q
  BY <1>4 DEF Disjoint
<1> QED BY <1>3, <1>6, <1>7, <1>8 DEF Disjoint

LEMMA StepDisjoint == IInv /\ Disjoint /\ [Next]_vars => Disjoint'
<1> SUFFICES ASSUME IInv, Disjoint, [Next]_vars PROVE Disjoint'
  OBVIOUS
<1>1. ASSUME NEW r \in Reqs, ServeHTTP(r), ~GetAvalibleReq(r), ~Recycle(r)
      PROVE  Disjoint'
  BY <1>1, PoolMoves DEF Disjoint, NoDup, Elems
<1>2. ASSUME NEW m \in Reqs, DiskMon(m) PROVE Disjoint'
  <2>1. UNCHANGED <<pool, hold>>
    BY <1>2 DEF DiskMon, MonStart, MonTick, MonList, MonDrop, MonTickDone, MonExit,
                reqVars, objVars
  <2> QED BY <2>1 DEF Disjoint, NoDup, Elems
<1>3. CASE UNCHANGED <<pool, hold>>
  BY <1>3 DEF Disjoint, NoDup, Elems
<1>4. (\E d \in DBNames : NewColl(d)) \/ UNCHANGED vars => UNCHANGED <<pool, hold>>
  BY DEF NewColl, vars, reqVars, objVars
<1> QED BY <1>1, <1>2, <1>3, <1>4, ReceiveDisjoint, SendDisjoint DEF Next

(* No object of the pool is lost or shared, on any path through the        *)
(* handler, for any number of requests and objects.                        *)
THEOREM PoolPartitioned == Spec => []PoolPartition
<1>1. IInv /\ Disjoint => PoolPartition
  BY PartitionIsDisjoint DEF IInv
<1> QED BY <1>1, InitInv, StepInv, InitDisjoint, StepDisjoint, PTL DEF Spec

-----------------------------------------------------------------------------
(* A request is served as it was sent.                                     *)

LEMMA StepServed ==
  IInv /\ Disjoint /\ ServedAsSent /\ [Next]_vars => ServedAsSent'
<1> SUFFICES ASSUME IInv, Disjoint, ServedAsSent, [Next]_vars,
                    NEW s \in Reqs, pc'[s] \in Handlers
             PROVE  (/\ ~body[s].bad
                     /\ body[s].cmd \in {Absent, pc[s]}
                     /\ body[s].db \in {Absent, obj[hold[s]].db})'
  BY DEF ServedAsSent
<1>0. /\ pc \in [Reqs -> Handlers \cup {"read", "wait", "decode", "recycle", "done"}]
      /\ body \in [Reqs -> Body] /\ hold \in [Reqs -> Objs \cup {NoObj}]
      /\ obj \in [Objs -> Content]
  BY DEF IInv, TypeOK
<1>1. CASE UNCHANGED <<pc, body, hold, obj>>
  BY <1>1 DEF ServedAsSent
<1>2. ASSUME NEW r \in Reqs, Decode(r)
      PROVE  (/\ ~body[s].bad
              /\ body[s].cmd \in {Absent, pc[s]}
              /\ body[s].db \in {Absent, obj[hold[s]].db})'
  <2>1. UNCHANGED <<body, hold>> /\ hold[r] \in Objs
    BY <1>0, <1>2 DEF Decode, IInv, Holders, Holding
  <2>2. CASE s = r
    <3> DEFINE new == Merge(obj[hold[r]], body[r])
    <3>1. obj' = [obj EXCEPT ![hold[r]] = new]
      BY <1>2 DEF Decode
    <3>2. ~body[r].bad /\ new.cmd \in Handlers /\ pc' = [pc EXCEPT ![r] = new.cmd]
      BY <1>0, <1>2, <2>2 DEF Decode, Answer, Handlers
    <3>3. obj'[hold[r]] = new /\ pc'[r] = new.cmd
      BY <1>0, <2>1, <3>1, <3>2
    <3>4. new.cmd = body[r].cmd \/ body[r].cmd = Absent
      BY DEF Merge
    <3>5. new.db = body[r].db \/ body[r].db = Absent
      BY DEF Merge
    <3> QED BY <2>1, <2>2, <3>2, <3>3, <3>4, <3>5
  <2>3. CASE s # r
    <3>1. pc'[s] = pc[s]
      BY <1>0, <1>2, <2>3 DEF Decode, Answer
    <3>2. hold[s] # hold[r]
      BY <2>1, <2>3 DEF Disjoint, Objs, NoObj
    <3>3. obj'[hold[s]] = obj[hold[s]]
      BY <1>0, <1>2, <2>1, <3>1, <3>2 DEF Decode, IInv, Holders, Holding
    <3> QED BY <2>1, <3>1, <3>3 DEF ServedAsSent
  <2> QED BY <2>2, <2>3
<1>3. ASSUME NEW r \in Reqs, ServeHTTP(r), ~Decode(r)
      PROVE  s # r /\ UNCHANGED <<pc[s], body[s], hold[s], obj>>
  <2>1. s # r
    BY <1>0, <1>3 DEF ServeHTTP, ReadBody, GetAvalibleReq, StatsHandler,
       DiskMonStartHandler, DiskMonEndHandler, DbMonStartHandler, Recycle, Answer, Handlers
  <2> QED BY <1>0, <1>3, <2>1 DEF ServeHTTP, ReadBody, GetAvalibleReq, StatsHandler,
       DiskMonStartHandler, DiskMonEndHandler, DbMonStartHandler, Recycle, Answer, objVars
<1>4. ASSUME NEW m \in Reqs, DiskMon(m) PROVE UNCHANGED <<pc, body, hold, obj>>
  BY <1>4 DEF DiskMon, MonStart, MonTick, MonList, MonDrop, MonTickDone, MonExit,
              reqVars, objVars
<1>5. (\E d \in DBNames : NewColl(d)) \/ UNCHANGED vars => UNCHANGED <<pc, body, hold, obj>>
  BY DEF NewColl, vars, reqVars, objVars
<1> QED BY <1>1, <1>2, <1>3, <1>4, <1>5 DEF Next, ServedAsSent

(* Every handler runs with the database and the command its own body       *)
(* names, although the objects are shared and never cleared.               *)
THEOREM Served == Spec => []ServedAsSent
<1>1. Init => ServedAsSent
  BY DEF Init, ServedAsSent, Handlers
<1> QED BY <1>1, InitInv, StepInv, InitDisjoint, StepDisjoint, StepServed, PTL DEF Spec

-----------------------------------------------------------------------------
(* The flag of the disk monitor.                                           *)

LEMMA StepFlag == IInv /\ FlagHasMonitor /\ [Next]_vars => FlagHasMonitor'
<1> SUFFICES ASSUME IInv, FlagHasMonitor, [Next]_vars PROVE FlagHasMonitor'
  OBVIOUS
<1>0. mon \in [Reqs -> MonRecord]
  BY DEF IInv, TypeOK, MonRecord
<1>1. ASSUME UNCHANGED diskMonState,
             \A k \in Reqs : mon[k].st \in Active => mon'[k].st \in Active
      PROVE  FlagHasMonitor'
  BY <1>1 DEF FlagHasMonitor
<1>2. ASSUME NEW r \in Reqs, ServeHTTP(r) PROVE FlagHasMonitor'
  <2>1. CASE DiskMonStartHandler(r)
    <3>1. mon[r].st = "none"
      BY <2>1 DEF DiskMonStartHandler, IInv, Monitors, MonRecord
    <3>2. \A k \in Reqs \ {r} : mon'[k] = mon[k]
      BY <1>0, <2>1 DEF DiskMonStartHandler
    <3> QED BY <1>1, <2>1, <3>1, <3>2 DEF DiskMonStartHandler, Active
  <2>2. CASE DiskMonEndHandler(r)
    <3>1. PICK m \in Reqs : mon' = [mon EXCEPT ![m].st = "stopping"]
      BY <2>2 DEF DiskMonEndHandler
    <3>2. \A k \in Reqs : mon'[k].st = IF k = m THEN "stopping" ELSE mon[k].st
      BY <1>0, <3>1 DEF MonRecord
    <3> QED BY <1>1, <2>2, <3>2 DEF DiskMonEndHandler, Active
  <2>3. ~DiskMonStartHandler(r) /\ ~DiskMonEndHandler(r) => UNCHANGED monVars
    BY <1>2 DEF ServeHTTP, ReadBody, GetAvalibleReq, Decode, StatsHandler,
                DbMonStartHandler, Recycle
  <2> QED BY <1>1, <2>1, <2>2, <2>3 DEF monVars, dbVars
<1>3. ASSUME NEW m \in Reqs, DiskMon(m) PROVE FlagHasMonitor'
  <2>1. CASE MonStart(m)
    <3>1. mon'[m].st = "select"
      BY <1>0, <2>1 DEF MonStart, MonRecord
    <3> QED BY <3>1 DEF FlagHasMonitor, Active
  <2>2. CASE MonExit(m)
    BY <2>2 DEF MonExit, FlagHasMonitor
  <2>3. CASE MonTick(m) \/ MonList(m) \/ MonDrop(m) \/ MonTickDone(m)
    <3>1. mon'[m].st \in Active /\ \A k \in Reqs \ {m} : mon'[k] = mon[k]
      <4>1. CASE MonTick(m) \/ MonList(m)
        BY <1>0, <4>1 DEF MonTick, MonList, MonRecord, Active
      <4>2. CASE MonDrop(m)
        BY <1>0, <4>2 DEF MonDrop, MonRecord, Active
      <4>3. CASE MonTickDone(m)
        BY <1>0, <4>3 DEF MonTickDone, MonRecord, Active
      <4> QED BY <2>3, <4>1, <4>2, <4>3
    <3>2. UNCHANGED diskMonState
      BY <2>3 DEF MonTick, MonList, MonDrop, MonTickDone
    <3> QED BY <1>1, <3>1, <3>2
  <2> QED BY <1>3, <2>1, <2>2, <2>3 DEF DiskMon
<1>4. (\E d \in DBNames : NewColl(d)) \/ UNCHANGED vars => UNCHANGED <<mon, diskMonState>>
  BY DEF NewColl, vars, monVars, dbVars
<1> QED BY <1>1, <1>2, <1>3, <1>4 DEF Next

(* A raised flag always has a monitor behind it, however many monitors     *)
(* were started in the window between its load and its store.              *)
THEOREM FlagIsBacked == Spec => []FlagHasMonitor
<1>1. Init => FlagHasMonitor
  <2>1. Init => diskMonState = 0
    BY DEF Init
  <2> QED BY <2>1 DEF FlagHasMonitor
<1> QED BY <1>1, InitInv, StepInv, StepFlag, PTL DEF Spec

-----------------------------------------------------------------------------
(* The database of a monitor.                                              *)

LEMMA StepDBStable ==
  IInv /\ MonitorDBStable /\ [Next]_vars => MonitorDBStable'
<1> SUFFICES ASSUME IInv, MonitorDBStable, [Next]_vars,
                    NEW m \in Reqs, mon'[m].st # "none",
                    writer'[mon'[m].ptr] = [req |-> m]
             PROVE  obj'[mon'[m].ptr].db = mon'[m].db
  BY DEF MonitorDBStable, CurrentDB
<1>0. /\ mon \in [Reqs -> MonRecord]
      /\ hold \in [Reqs -> Objs \cup {NoObj}]
      /\ obj \in [Objs -> Content]
      /\ writer \in [Objs -> {NoReq} \cup [req : Reqs]]
  BY DEF IInv, TypeOK, MonRecord
<1>1. ASSUME UNCHANGED <<obj, writer>>, mon[m].st # "none",
             mon'[m].ptr = mon[m].ptr, mon'[m].db = mon[m].db
      PROVE  obj'[mon'[m].ptr].db = mon'[m].db
  BY <1>1 DEF MonitorDBStable, CurrentDB
<1>2. ASSUME NEW r \in Reqs, Decode(r)
      PROVE  obj'[mon'[m].ptr].db = mon'[m].db
  <2>1. /\ UNCHANGED mon
        /\ writer' = [writer EXCEPT ![hold[r]] = [req |-> r]]
        /\ obj' = [obj EXCEPT ![hold[r]] = Merge(obj[hold[r]], body[r])]
    BY <1>2 DEF Decode, monVars, dbVars
  <2>2. m # r /\ mon[m].ptr \in Objs
    BY <1>2, <2>1 DEF Decode, IInv, Monitors
  <2>3. mon[m].ptr # hold[r]
    <3>1. SUFFICES ASSUME mon[m].ptr = hold[r] PROVE FALSE
      OBVIOUS
    <3>2. [req |-> r] = [req |-> m]
      BY <1>0, <2>1, <2>2, <3>1
    <3>3. [req |-> r].req = [req |-> m].req
      BY <3>2
    <3> QED BY <2>2, <3>3
  <2> QED BY <1>0, <2>1, <2>2, <2>3 DEF MonitorDBStable, CurrentDB
<1>3. ASSUME NEW r \in Reqs, DiskMonStartHandler(r)
      PROVE  obj'[mon'[m].ptr].db = mon'[m].db
  <2>1. UNCHANGED <<obj, writer>>
    BY <1>3 DEF DiskMonStartHandler, objVars
  <2>2. CASE mon'[m] = mon[m]
    BY <1>1, <2>1, <2>2
  <2>3. CASE mon'[m] # mon[m]
    <3> DEFINE new == [NoMon EXCEPT !.st = "spawned", !.ptr = hold[r],
                                    !.db = obj[hold[r]].db]
    <3>1. mon' = [mon EXCEPT ![r] = new]
      BY <1>3, <2>3 DEF DiskMonStartHandler
    <3>2. new.ptr = hold[r] /\ new.db = obj[hold[r]].db
      BY DEF NoMon
    <3>3. mon'[m] = new
      <4> HIDE DEF new
      <4> QED BY <1>0, <2>3, <3>1
    <3> QED BY <2>1, <3>2, <3>3
  <2> QED BY <2>2, <2>3
<1>4. ASSUME NEW r \in Reqs, DiskMonEndHandler(r)
      PROVE  obj'[mon'[m].ptr].db = mon'[m].db
  <2>1. UNCHANGED <<obj, writer>>
    BY <1>4 DEF DiskMonEndHandler, objVars
  <2>2. PICK k \in Reqs : mon[k].st = "select" /\ mon' = [mon EXCEPT ![k].st = "stopping"]
    BY <1>4 DEF DiskMonEndHandler
  <2>3. /\ mon[m].st # "none"
        /\ mon'[m].ptr = mon[m].ptr
        /\ mon'[m].db = mon[m].db
    <3>1. CASE m = k
      BY <1>0, <2>2, <3>1 DEF MonRecord
    <3>2. CASE m # k
      BY <1>0, <2>2, <3>2
    <3> QED BY <3>1, <3>2
  <2> QED BY <1>1, <2>1, <2>3
<1>5. ASSUME NEW r \in Reqs, ServeHTTP(r), ~Decode(r),
             ~DiskMonStartHandler(r), ~DiskMonEndHandler(r)
      PROVE  UNCHANGED <<obj, writer, mon>>
  BY <1>5 DEF ServeHTTP, ReadBody, GetAvalibleReq, StatsHandler, DbMonStartHandler,
              Recycle, objVars, monVars, dbVars
<1>6. ASSUME NEW k \in Reqs, DiskMon(k)
      PROVE  obj'[mon'[m].ptr].db = mon'[m].db
  <2>1. UNCHANGED <<obj, writer>>
    BY <1>6 DEF DiskMon, MonStart, MonTick, MonList, MonDrop, MonTickDone, MonExit, objVars
  <2>2. /\ mon[k].st # "none"
        /\ \A j \in Reqs \ {k} : mon'[j] = mon[j]
        /\ mon'[k].ptr = mon[k].ptr
        /\ mon'[k].db = mon[k].db
    <3>1. CASE MonStart(k)
      BY <1>0, <3>1 DEF MonStart, MonRecord
    <3>2. CASE MonTick(k)
      BY <1>0, <3>2 DEF MonTick, MonRecord
    <3>3. CASE MonList(k)
      BY <1>0, <3>3 DEF MonList, MonRecord
    <3>4. CASE MonDrop(k)
      BY <1>0, <3>4 DEF MonDrop, MonRecord
    <3>5. CASE MonTickDone(k)
      <4>1. mon'[k] = [mon[k] EXCEPT !.st = "select", !.from = ""] /\ mon[k].st = "drop"
        BY <1>0, <3>5 DEF MonTickDone
      <4>2. \A j \in Reqs \ {k} : mon'[j] = mon[j]
        BY <1>0, <3>5 DEF MonTickDone
      <4> QED BY <1>0, <4>1, <4>2 DEF MonRecord
    <3>6. CASE MonExit(k)
      BY <1>0, <3>6 DEF MonExit, MonRecord
    <3> QED BY <1>6, <3>1, <3>2, <3>3, <3>4, <3>5, <3>6 DEF DiskMon
  <2>3. mon[m].st # "none" /\ mon'[m].ptr = mon[m].ptr /\ mon'[m].db = mon[m].db
    BY <2>2
  <2> QED BY <1>1, <2>1, <2>3
<1>7. (\E d \in DBNames : NewColl(d)) \/ UNCHANGED vars => UNCHANGED <<obj, writer, mon>>
  BY DEF NewColl, vars, objVars, monVars, dbVars
<1>8. UNCHANGED <<obj, writer, mon>> => obj'[mon'[m].ptr].db = mon'[m].db
  BY <1>1
<1> QED BY <1>2, <1>3, <1>4, <1>5, <1>6, <1>7, <1>8 DEF Next

(* Recycling an object does not move the monitor that still reads it to    *)
(* another database; only the next decode into it can.                     *)
THEOREM DBStable == Spec => []MonitorDBStable
<1>1. Init => MonitorDBStable
  <2>1. Init => \A m \in Reqs : mon[m].st = "none"
    <3>1. Init => mon = [m \in Reqs |-> NoMon]
      BY DEF Init
    <3>2. NoMon.st = "none"
      BY DEF NoMon
    <3> QED BY <3>1, <3>2
  <2> QED BY <2>1 DEF MonitorDBStable
<1> QED BY <1>1, InitInv, StepInv, StepDBStable, PTL DEF Spec

-----------------------------------------------------------------------------
(* The handler implements the pool.                                        *)

LEMMA InitPool == Init => RP!Init
<1> SUFFICES ASSUME Init PROVE RP!Init
  OBVIOUS
<1>1. Elems(pool) = Objs
  <2>1. MgoReqPoolSize \in Nat /\ pool = [i \in 1..MgoReqPoolSize |-> i]
    BY MgoCmdAssumption DEF MgoCmdAssumption, Init
  <2>2. Len(pool) \in Nat /\ DOMAIN pool = 1..Len(pool)
    BY InitType, LenProperties DEF TypeOK
  <2>3. Len(pool) = MgoReqPoolSize
    BY <2>1, <2>2, IntervalEnd
  <2> QED BY <2>1, <2>3 DEF Elems, Objs
<1>2. hold = [r \in Reqs |-> NoObj]
  BY DEF Init
<1>3. [r \in Reqs |-> StageOf(r)] = [r \in Reqs |-> "outside"]
  BY DEF Init, StageOf
<1> QED BY <1>1, <1>2, <1>3 DEF RP!Init, RP!Objs, RP!NoObj, Objs, NoObj, Elems

\* How a step of the handler changes the stage of the requests.
Stages == [r \in Reqs |-> StageOf(r)]

LEMMA StepPool == IInv /\ Disjoint /\ [Next]_vars => [RP!Next]_(RP!poolVars)
<1> SUFFICES ASSUME IInv, Disjoint, [Next]_vars PROVE RP!Next \/ UNCHANGED RP!poolVars
  OBVIOUS
<1>0. /\ pc \in [Reqs -> Handlers \cup {"read", "wait", "decode", "recycle", "done"}]
      /\ hold \in [Reqs -> Objs \cup {NoObj}]
  BY DEF IInv, TypeOK
<1>1. ASSUME UNCHANGED <<pool, hold, Stages>> PROVE UNCHANGED RP!poolVars
  BY <1>1 DEF RP!poolVars, Stages
<1>2. ASSUME NEW r \in Reqs, GetAvalibleReq(r) PROVE RP!Acquire(r)
  <2>1. /\ Head(pool) \in Elems(pool)
        /\ Elems(pool)' = Elems(pool) \ {Head(pool)}
        /\ hold' = [hold EXCEPT ![r] = Head(pool)]
    BY <1>2, ReceiveDisjoint DEF GetAvalibleReq
  <2>2. Stages[r] = "outside" /\ Stages' = [Stages EXCEPT ![r] = "inside"]
    BY <1>0, <1>2 DEF Stages, StageOf, GetAvalibleReq
  <2> QED BY <2>1, <2>2 DEF RP!Acquire, Elems, Stages
<1>3. ASSUME NEW r \in Reqs, Recycle(r) PROVE RP!Release(r)
  <2>1. /\ Elems(pool)' = Elems(pool) \cup {hold[r]}
        /\ hold' = [hold EXCEPT ![r] = NoObj]
    BY <1>3, SendDisjoint DEF Recycle
  <2>2. Stages[r] = "inside" /\ Stages' = [Stages EXCEPT ![r] = "left"]
    BY <1>0, <1>3 DEF Stages, StageOf, Recycle
  <2> QED BY <2>1, <2>2 DEF RP!Release, RP!NoObj, NoObj, Elems, Stages
<1>4. ASSUME NEW r \in Reqs, ReadBody(r)
      PROVE  RP!Refuse(r) \/ UNCHANGED RP!poolVars
  <2>1. UNCHANGED <<pool, hold>> /\ Stages[r] = "outside"
    BY <1>0, <1>4 DEF ReadBody, Stages, StageOf, objVars
  <2>2. CASE pc' = [pc EXCEPT ![r] = "done"]
    <3>1. Stages' = [Stages EXCEPT ![r] = "left"]
      BY <1>0, <2>2 DEF Stages, StageOf
    <3> QED BY <2>1, <3>1 DEF RP!Refuse, Stages
  <2>3. CASE pc' = [pc EXCEPT ![r] = "wait"]
    <3>1. Stages' = Stages
      BY <1>0, <1>4, <2>3 DEF Stages, StageOf, ReadBody
    <3> QED BY <1>1, <2>1, <3>1
  <2> QED BY <1>4, <2>2, <2>3 DEF ReadBody
<1>5. ASSUME NEW r \in Reqs, ServeHTTP(r), ~GetAvalibleReq(r), ~Recycle(r), ~ReadBody(r)
      PROVE  UNCHANGED RP!poolVars
  <2>1. PICK to : /\ to \in Handlers \cup {"recycle"}
                  /\ pc' = [pc EXCEPT ![r] = to]
                  /\ pc[r] \in Handlers \cup {"decode"}
    BY <1>0, <1>5 DEF ServeHTTP, Decode, StatsHandler, DiskMonStartHandler,
                 DiskMonEndHandler, DbMonStartHandler, Answer, Handlers
  <2>2. Stages' = Stages
    BY <1>0, <2>1 DEF Stages, StageOf, Handlers
  <2> QED BY <1>1, <1>5, <2>2, PoolMoves
<1>6. ASSUME NEW m \in Reqs, DiskMon(m) PROVE UNCHANGED RP!poolVars
  <2>1. UNCHANGED <<pc, pool, hold>>
    BY <1>6 DEF DiskMon, MonStart, MonTick, MonList, MonDrop, MonTickDone, MonExit,
                reqVars, objVars
  <2> QED BY <1>1, <2>1 DEF Stages, StageOf
<1>7. ASSUME UNCHANGED vars \/ \E d \in DBNames : NewColl(d)
      PROVE  UNCHANGED RP!poolVars
  <2>1. UNCHANGED <<pc, pool, hold>>
    BY <1>7 DEF NewColl, vars, reqVars, objVars
  <2> QED BY <1>1, <2>1 DEF Stages, StageOf
<1> QED BY <1>2, <1>3, <1>4, <1>5, <1>6, <1>7 DEF Next, RP!Next

(* Every execution of the handler is one of the abstract request pool.     *)
THEOREM ImplementsPool == Spec => PoolPromise
<1> QED BY InitInv, StepInv, InitDisjoint, StepDisjoint, InitPool, StepPool, PTL
        DEF Spec, PoolPromise, RP!Spec

-----------------------------------------------------------------------------
(* The collections of a hid that stay.                                     *)

(* The collections of one hid differ in their names: there are only as     *)
(* many as there are names.                                                *)
LEMMA HidIsFinite ==
  ASSUME NEW same \in SUBSET Colls, \A d, e \in same : d.hid = e.hid
  PROVE  IsFiniteSet(same)
<1> DEFINE name == [d \in same |-> d.name]
<1>1. IsFiniteSet(1..MaxNames)
  BY MgoCmdAssumption, FS_Interval DEF MgoCmdAssumption
<1>2. name \in [same -> 1..MaxNames]
  BY DEF Colls
<1>3. \A d, e \in same : name[d] = name[e] => d = e
  BY DEF Colls
<1>4. name \in Injection(same, 1..MaxNames)
  BY <1>2, <1>3, Zenon DEF Injection, IsInjective
<1> QED BY <1>1, <1>4, FS_Injection

(* The third that a tick drops never reaches the last name of a hid.       *)
LEMMA VictimHasLater ==
  ASSUME NEW names \in SUBSET Colls, NEW c \in Victims(names)
  PROVE  \E e \in names : e.hid = c.hid /\ e.name > c.name
<1> DEFINE same   == {d \in names : d.hid = c.hid}
           elders == {d \in same : d.name < c.name}
<1>1. c \in names /\ c \in same
  BY DEF Victims
<1>2. Cardinality(elders) < Cardinality(same) \div 3
  BY DEF Victims
<1>3. IsFiniteSet(same)
  BY HidIsFinite
<1>4. SUFFICES ASSUME \A e \in same : ~(e.name > c.name) PROVE FALSE
  OBVIOUS
<1>5. same \ {c} \subseteq elders
  <2> SUFFICES ASSUME NEW d \in same \ {c} PROVE d.name < c.name
    OBVIOUS
  <2>1. d \in Colls /\ c \in Colls /\ d.hid = c.hid /\ d # c
    BY <1>1
  <2>2. d.name \in Nat /\ c.name \in Nat /\ d.name # c.name
    BY <2>1, MgoCmdAssumption DEF Colls, MgoCmdAssumption
  <2> QED BY <1>4, <2>2
<1> HIDE DEF same, elders
<1>6. IsFiniteSet(elders)
  BY <1>3, FS_Subset DEF elders
<1>7. Cardinality(same \ {c}) = Cardinality(same) - 1
  BY <1>1, <1>3, FS_RemoveElement
<1>8. Cardinality(same \ {c}) <= Cardinality(elders)
  BY <1>5, <1>6, FS_Subset
<1>9. Cardinality(same) \in Nat /\ Cardinality(elders) \in Nat
  BY <1>3, <1>6, FS_CardinalityType
<1> QED BY <1>2, <1>7, <1>8, <1>9

(* What a monitor still has to drop has a collection with a later name     *)
(* beside it in the database it was listed in, as long as no monitor went  *)
(* astray there.                                                           *)
Later ==
  \A m \in Reqs : mon[m].st = "drop" /\ mon[m].from \notin astray =>
    \A c \in mon[m].names : \E e \in colls[mon[m].from] : e.hid = c.hid /\ e.name > c.name

LEMMA DropShape ==
  ASSUME IInv, NEW m \in Reqs, MonDrop(m)
  PROVE  \E c \in mon[m].names, db \in DBNames :
           /\ mon[m].st = "drop"
           /\ \/ UNCHANGED dbVars
              \/ /\ \A d \in DBNames : colls'[d] = IF d = db THEN colls[d] \ {c} ELSE colls[d]
                 /\ astray' = IF mon[m].from = db THEN astray ELSE astray \cup {db}
<1>1. CurrentDB(m) \in DBNames
  BY DEF MonDrop, IInv, Monitors, TypeOK, Content, CurrentDB
<1>2. colls \in [DBNames -> SUBSET Colls]
  BY DEF IInv, TypeOK
<1>3. PICK c \in mon[m].names :
        \/ /\ colls' = [colls EXCEPT ![CurrentDB(m)] = @ \ {c}]
           /\ astray' = IF mon[m].from = CurrentDB(m) THEN astray ELSE astray \cup {CurrentDB(m)}
        \/ UNCHANGED dbVars
  BY DEF MonDrop
<1>4. CASE UNCHANGED dbVars
  BY <1>1, <1>4 DEF MonDrop
<1>5. CASE /\ colls' = [colls EXCEPT ![CurrentDB(m)] = @ \ {c}]
           /\ astray' = IF mon[m].from = CurrentDB(m) THEN astray ELSE astray \cup {CurrentDB(m)}
  <2>1. \A d \in DBNames :
          colls'[d] = IF d = CurrentDB(m) THEN colls[d] \ {c} ELSE colls[d]
    BY <1>1, <1>2, <1>5
  <2>2. mon[m].st = "drop"
    BY DEF MonDrop
  <2> QED BY <1>1, <1>5, <2>1, <2>2
<1> QED BY <1>3, <1>4, <1>5

(* Only a drop touches the collections a database has.                     *)
LEMMA OthersKeepColls ==
  ASSUME IInv, [Next]_vars, ~\E m \in Reqs : MonDrop(m)
  PROVE  UNCHANGED astray /\ \A d \in DBNames : colls[d] \subseteq colls'[d]
<1>1. (\E r \in Reqs : ServeHTTP(r)) \/ UNCHANGED vars => UNCHANGED dbVars
  BY DEF ServeHTTP, ReadBody, GetAvalibleReq, Decode, StatsHandler, DiskMonStartHandler,
         DiskMonEndHandler, DbMonStartHandler, Recycle, monVars, vars
<1>2. (\E m \in Reqs : DiskMon(m)) => UNCHANGED dbVars
  BY DEF DiskMon, MonStart, MonTick, MonList, MonTickDone, MonExit
<1>3. ASSUME NEW d \in DBNames, NewColl(d)
      PROVE  UNCHANGED astray /\ \A f \in DBNames : colls[f] \subseteq colls'[f]
  BY <1>3 DEF NewColl, IInv, TypeOK
<1> QED BY <1>1, <1>2, <1>3 DEF Next, dbVars

(* A collection is outlived by itself or by a later name of its hid.       *)
LEMMA Outlived ==
  ASSUME IInv, Later, [Next]_vars, NEW d \in DBNames \ astray', NEW c \in colls[d]
  PROVE  \E e \in colls'[d] : e.hid = c.hid /\ e.name >= c.name
<1>0. colls[d] \subseteq Colls /\ \A e \in Colls : e.name \in Nat
  BY MgoCmdAssumption DEF IInv, TypeOK, Colls, MgoCmdAssumption
<1>1. c.name \in Nat
  BY <1>0
<1>2. c \in colls'[d] => \E e \in colls'[d] : e.hid = c.hid /\ e.name >= c.name
  BY <1>1
<1>3. ASSUME NEW m \in Reqs, MonDrop(m), c \notin colls'[d]
      PROVE  \E e \in colls'[d] : e.hid = c.hid /\ e.name >= c.name
  <2>1. PICK x \in mon[m].names, db \in DBNames :
           /\ mon[m].st = "drop"
           /\ \/ UNCHANGED dbVars
              \/ /\ \A f \in DBNames : colls'[f] = IF f = db THEN colls[f] \ {x} ELSE colls[f]
                 /\ astray' = IF mon[m].from = db THEN astray ELSE astray \cup {db}
    BY <1>3, DropShape
  <2>2. ~UNCHANGED dbVars
    BY <1>3 DEF dbVars
  <2>3. d = db /\ x = c /\ colls'[d] = colls[d] \ {c}
    BY <1>3, <2>1, <2>2
  <2>4. mon[m].from = d /\ d \notin astray
    BY <2>1, <2>2, <2>3
  <2>5. PICK e \in colls[d] : e.hid = c.hid /\ e.name > c.name
    BY <2>1, <2>3, <2>4 DEF Later
  <2>6. e.name \in Nat /\ e # c
    BY <1>0, <1>1, <2>5
  <2>7. e \in colls'[d] /\ e.name >= c.name
    BY <1>1, <2>3, <2>5, <2>6
  <2> QED BY <2>5, <2>7
<1> QED BY <1>2, <1>3, OthersKeepColls

(* Where the names of a monitor come from.                                 *)
LEMMA NamesComeFrom ==
  ASSUME IInv, [Next]_vars, NEW m \in Reqs, mon'[m].st = "drop"
  PROVE  \/ /\ mon[m].st = "drop"
            /\ mon'[m].from = mon[m].from
            /\ mon'[m].names \subseteq mon[m].names
         \/ /\ mon'[m].from \in DBNames
            /\ mon'[m].names = Victims(colls[mon'[m].from])
            /\ UNCHANGED dbVars
<1>0. mon \in [Reqs -> MonRecord]
  BY DEF IInv, TypeOK, MonRecord
<1>1. mon'[m] = mon[m] \/ mon'[m] # mon[m]
  OBVIOUS
<1>2. ASSUME NEW r \in Reqs, ServeHTTP(r) PROVE mon'[m] = mon[m]
  <2>1. CASE DiskMonStartHandler(r)
    <3> DEFINE new == [NoMon EXCEPT !.st = "spawned", !.ptr = hold[r], !.db = obj[hold[r]].db]
    <3>1. UNCHANGED mon \/ mon' = [mon EXCEPT ![r] = new]
      BY <2>1 DEF DiskMonStartHandler
    <3>2. new.st = "spawned"
      BY DEF NoMon
    <3> HIDE DEF new
    <3> QED BY <1>0, <3>1, <3>2
  <2>2. CASE DiskMonEndHandler(r)
    <3>1. PICK k \in Reqs : mon' = [mon EXCEPT ![k].st = "stopping"]
      BY <2>2 DEF DiskMonEndHandler
    <3>2. mon'[k].st = "stopping" /\ \A j \in Reqs \ {k} : mon'[j] = mon[j]
      BY <1>0, <3>1 DEF MonRecord
    <3> QED BY <3>2
  <2>3. ~DiskMonStartHandler(r) /\ ~DiskMonEndHandler(r) => UNCHANGED monVars
    BY <1>2 DEF ServeHTTP, ReadBody, GetAvalibleReq, Decode, StatsHandler,
                DbMonStartHandler, Recycle
  <2> QED BY <2>1, <2>2, <2>3 DEF monVars
<1>3. ASSUME NEW k \in Reqs, DiskMon(k), mon'[m] # mon[m] PROVE m = k /\ (MonList(k) \/ MonDrop(k))
  <2>1. \A j \in Reqs \ {k} : mon'[j] = mon[j]
    BY <1>0, <1>3 DEF DiskMon, MonStart, MonTick, MonList, MonDrop, MonTickDone, MonExit
  <2>2. MonStart(k) \/ MonTick(k) \/ MonTickDone(k) \/ MonExit(k) => mon'[k].st # "drop"
    BY <1>0 DEF MonStart, MonTick, MonTickDone, MonExit, MonRecord
  <2> QED BY <1>3, <2>1, <2>2 DEF DiskMon
<1>4. CASE MonList(m)
  <2>1. CurrentDB(m) \in DBNames
    BY <1>4 DEF MonList, IInv, Monitors, TypeOK, Content, CurrentDB
  <2>2. mon' # [mon EXCEPT ![m].st = "select"]
    BY <1>0 DEF MonRecord
  <2>3. mon' = [mon EXCEPT ![m].st = "drop",
                           ![m].from = CurrentDB(m),
                           ![m].names = Victims(colls[CurrentDB(m)])]
    BY <1>4, <2>2 DEF MonList
  <2>4. mon'[m].from = CurrentDB(m) /\ mon'[m].names = Victims(colls[CurrentDB(m)])
    BY <1>0, <2>3 DEF MonRecord
  <2> QED BY <1>4, <2>1, <2>4 DEF MonList
<1>5. CASE MonDrop(m)
  <2>1. PICK c \in mon[m].names : mon' = [mon EXCEPT ![m].names = @ \ {c}]
    BY <1>5 DEF MonDrop
  <2>2. mon'[m].from = mon[m].from /\ mon'[m].names = mon[m].names \ {c}
    BY <1>0, <2>1 DEF MonRecord
  <2> QED BY <1>5, <2>2 DEF MonDrop
<1>6. (\E d \in DBNames : NewColl(d)) \/ UNCHANGED vars => UNCHANGED mon
  BY DEF NewColl, vars, monVars
<1>7. CASE mon'[m] = mon[m]
  BY <1>7
<1> QED BY <1>2, <1>3, <1>4, <1>5, <1>6, <1>7 DEF Next

LEMMA StepLater == IInv /\ Later /\ [Next]_vars => Later'
<1> SUFFICES ASSUME IInv, Later, [Next]_vars,
                    NEW m \in Reqs, mon'[m].st = "drop", mon'[m].from \notin astray',
                    NEW c \in mon'[m].names
             PROVE  \E e \in colls'[mon'[m].from] : e.hid = c.hid /\ e.name > c.name
  BY DEF Later
<1>0. /\ mon \in [Reqs -> MonRecord] /\ colls \in [DBNames -> SUBSET Colls]
      /\ colls' \in [DBNames -> SUBSET Colls]
      /\ \A e \in Colls : e.name \in Nat
  BY StepInv, MgoCmdAssumption DEF IInv, TypeOK, MonRecord, Colls, MgoCmdAssumption
<1>1. CASE /\ mon[m].st = "drop"
           /\ mon'[m].from = mon[m].from
           /\ mon'[m].names \subseteq mon[m].names
  <2> DEFINE d == mon[m].from
  <2>1. d \in DBNames \ astray' /\ c \in Colls
    BY <1>0, <1>1 DEF MonRecord
  <2>2. astray \subseteq astray'
    <3>1. ASSUME NEW k \in Reqs, MonDrop(k) PROVE astray \subseteq astray'
      BY <3>1 DEF MonDrop, dbVars
    <3> QED BY <3>1, OthersKeepColls
  <2>3. PICK e \in colls[d] : e.hid = c.hid /\ e.name > c.name
    BY <1>1, <2>1, <2>2 DEF Later
  <2>4. PICK f \in colls'[d] : f.hid = e.hid /\ f.name >= e.name
    BY <2>1, <2>3, Outlived
  <2>5. c.name \in Nat /\ e.name \in Nat /\ f.name \in Nat
    BY <1>0, <2>1, <2>3, <2>4
  <2>6. f.hid = c.hid /\ f.name > c.name
    BY <2>3, <2>4, <2>5
  <2> QED BY <1>1, <2>6
<1>2. CASE /\ mon'[m].from \in DBNames
           /\ mon'[m].names = Victims(colls[mon'[m].from])
           /\ UNCHANGED dbVars
  <2>1. colls[mon'[m].from] \in SUBSET Colls
    BY <1>0, <1>2
  <2> QED BY <1>2, <2>1, VictimHasLater DEF dbVars
<1> QED BY <1>1, <1>2, NamesComeFrom

(* A collection that sorts after the one that is dropped was there before  *)
(* the drop too.                                                           *)
LEMMA OutlivedByOld ==
  ASSUME IInv, Later, [Next]_vars, NEW d \in DBNames \ astray', NEW c \in colls[d] \ colls'[d]
  PROVE  \E e \in colls[d] \cap colls'[d] : e.hid = c.hid /\ e.name > c.name
<1>1. PICK m \in Reqs : MonDrop(m)
  BY OthersKeepColls
<1>2. colls'[d] \subseteq colls[d]
  BY <1>1, DropShape DEF dbVars
<1>3. PICK e \in colls'[d] : e.hid = c.hid /\ e.name >= c.name
  BY Outlived
<1>4. c \in Colls /\ e \in Colls /\ e # c
  BY StepInv DEF IInv, TypeOK
<1>5. e.name \in Nat /\ c.name \in Nat /\ e.name # c.name
  BY <1>3, <1>4, MgoCmdAssumption DEF Colls, MgoCmdAssumption
<1> QED BY <1>2, <1>3, <1>5

(* What a monitor drops leaves a later name of its hid behind, and a newer *)
(* collection where names sort as their dates do, however many monitors    *)
(* work on the database, however old their listings are, whatever arrives  *)
(* and whatever fails - unless one of them listed in one database and      *)
(* dropped in this one.                                                    *)
THEOREM NewestIsKept == Spec => NewestKept
<1>1. Init => Later
  <2>1. Init => mon = [m \in Reqs |-> NoMon]
    BY DEF Init
  <2>2. NoMon.st = "none"
    BY DEF NoMon
  <2> QED BY <2>1, <2>2 DEF Later
<1>2. IInv /\ Later /\ [Next]_vars =>
        [\A d \in DBNames : \A c \in colls[d] \ colls'[d] : LeftBehind(d, c) \/ d \in astray']_vars
  <2> SUFFICES ASSUME IInv, Later, [Next]_vars,
                      NEW d \in DBNames, NEW c \in colls[d] \ colls'[d], d \notin astray'
               PROVE  LeftBehind(d, c)
    OBVIOUS
  <2> DEFINE SameHid == {f \in colls[d] : f.hid = c.hid}
  <2>1. PICK e \in colls[d] \cap colls'[d] : e.hid = c.hid /\ e.name > c.name
    BY OutlivedByOld
  <2>2. c \in SameHid /\ e \in SameHid \cap colls'[d]
    BY <2>1
  <2>3. c \in Colls /\ e \in Colls
    BY <2>2 DEF IInv, TypeOK
  <2>4. /\ c.name \in Nat /\ e.name \in Nat
        /\ Date[c.name] \in Nat /\ Date[e.name] \in Nat
    BY <2>3, MgoCmdAssumption DEF Colls, MgoCmdAssumption
  <2>5. SortAsDated(SameHid) => Date[c.name] <= Date[e.name]
    BY <2>1, <2>2, <2>4 DEF SortAsDated
  <2> QED BY <2>1, <2>2, <2>4, <2>5 DEF LeftBehind
<1> QED BY <1>1, <1>2, InitInv, StepInv, StepLater, PTL DEF Spec, NewestKept

-----------------------------------------------------------------------------
(* Monitors and the requests that stopped them.                            *)

Told == {r \in Reqs : reply[r] = "disk monitor stopped"}
Gone == {m \in Reqs : mon[m].st \in Ended}

(* A request answers once, when it is past its handler.                    *)
Unanswered == \A r \in Reqs : pc[r] \notin {"recycle", "done"} => reply[r] = ""

(* One monitor alone has an exact flag; and only finitely many requests    *)
(* were told "stopped", or the two numbers would mean nothing.             *)
AccountInv ==
  /\ Unanswered
  /\ IsFiniteSet(Told) /\ IsFiniteSet(Gone)
  /\ MonitorsAccounted

LEMMA StepUnanswered == IInv /\ Unanswered /\ [Next]_vars => Unanswered'
<1> SUFFICES ASSUME IInv, Unanswered, [Next]_vars PROVE Unanswered'
  OBVIOUS
<1>0. /\ pc \in [Reqs -> Handlers \cup {"read", "wait", "decode", "recycle", "done"}]
      /\ reply \in [Reqs -> Replies]
  BY DEF IInv, TypeOK
<1>1. ASSUME NEW r \in Reqs, ServeHTTP(r) PROVE Unanswered'
  <2>1. /\ \A q \in Reqs \ {r} : pc'[q] = pc[q] /\ reply'[q] = reply[q]
        /\ reply'[r] = reply[r] \/ pc'[r] \in {"recycle", "done"}
    BY <1>0, <1>1 DEF ServeHTTP, ReadBody, GetAvalibleReq, Decode, StatsHandler,
       DiskMonStartHandler, DiskMonEndHandler, DbMonStartHandler, Recycle, Answer
  <2>2. pc[r] \in {"recycle", "done"} => pc'[r] \in {"recycle", "done"}
    BY <1>0, <1>1 DEF ServeHTTP, ReadBody, GetAvalibleReq, Decode, StatsHandler,
       DiskMonStartHandler, DiskMonEndHandler, DbMonStartHandler, Recycle, Answer
  <2> QED BY <2>1, <2>2 DEF Unanswered
<1>2. (\E m \in Reqs : DiskMon(m)) => UNCHANGED <<pc, reply>>
  BY DEF DiskMon, MonStart, MonTick, MonList, MonDrop, MonTickDone, MonExit, reqVars
<1>3. (\E d \in DBNames : NewColl(d)) \/ UNCHANGED vars => UNCHANGED <<pc, reply>>
  BY DEF NewColl, vars, reqVars
<1> QED BY <1>1, <1>2, <1>3 DEF Next, Unanswered

(* A stop is one answer and one monitor out of its loop.                   *)
LEMMA StopCounts ==
  ASSUME IInv, Unanswered, NEW r \in Reqs, DiskMonEndHandler(r)
  PROVE  \E m \in Reqs \ Gone :
           /\ mon[m].st = "select"
           /\ \A k \in Reqs : mon'[k].st = IF k = m THEN "stopping" ELSE mon[k].st
           /\ r \notin Told
           /\ Told' = Told \cup {r}
           /\ Gone' = Gone \cup {m}
<1>0. mon \in [Reqs -> MonRecord] /\ reply \in [Reqs -> Replies]
  BY DEF IInv, TypeOK, MonRecord
<1>1. PICK m \in Reqs : mon[m].st = "select" /\ mon' = [mon EXCEPT ![m].st = "stopping"]
  BY DEF DiskMonEndHandler
<1>2. \A k \in Reqs : mon'[k].st = IF k = m THEN "stopping" ELSE mon[k].st
  BY <1>0, <1>1 DEF MonRecord
<1>3. Gone' = Gone \cup {m} /\ m \notin Gone
  BY <1>1, <1>2 DEF Gone, Ended
<1>4. reply[r] = "" /\ reply' = [reply EXCEPT ![r] = "disk monitor stopped"]
  BY DEF DiskMonEndHandler, Unanswered, Answer
<1>5. Told' = Told \cup {r} /\ r \notin Told
  BY <1>0, <1>4 DEF Told
<1> QED BY <1>1, <1>2, <1>3, <1>5

(* Whatever else a request does, nobody is told "stopped".                 *)
LEMMA NobodyTold ==
  ASSUME IInv, Unanswered, NEW r \in Reqs, ServeHTTP(r), ~DiskMonEndHandler(r)
  PROVE  Told' = Told
<1>0. reply \in [Reqs -> Replies]
  BY DEF IInv, TypeOK
<1>1. CASE UNCHANGED reply
  BY <1>1 DEF Told
<1>2. CASE ~UNCHANGED reply
  <2>1. PICK msg : msg # "disk monitor stopped" /\ reply' = [reply EXCEPT ![r] = msg]
    BY <1>2 DEF ServeHTTP, ReadBody, GetAvalibleReq, Decode, StatsHandler,
                DiskMonStartHandler, DbMonStartHandler, Recycle, Answer
  <2>2. pc[r] \notin {"recycle", "done"}
    BY <1>2 DEF ServeHTTP, ReadBody, GetAvalibleReq, Decode, StatsHandler,
                DiskMonStartHandler, DbMonStartHandler, Recycle, Handlers
  <2>3. reply[r] = ""
    BY <2>2 DEF Unanswered
  <2> QED BY <1>0, <2>1, <2>3 DEF Told
<1> QED BY <1>1, <1>2

(* A start that finds the flag down: the monitor of a request that had none. *)
LEMMA StartShape ==
  ASSUME IInv, NEW r \in Reqs, DiskMonStartHandler(r)
  PROVE  /\ UNCHANGED diskMonState
         /\ \/ UNCHANGED mon
            \/ /\ diskMonState = 0
               /\ mon[r].st = "none"
               /\ \A k \in Reqs : mon'[k].st = IF k = r THEN "spawned" ELSE mon[k].st
<1> DEFINE new == [NoMon EXCEPT !.st = "spawned", !.ptr = hold[r], !.db = obj[hold[r]].db]
<1>0. mon \in [Reqs -> MonRecord]
  BY DEF IInv, TypeOK, MonRecord
<1>1. UNCHANGED diskMonState /\ (UNCHANGED mon \/ (diskMonState = 0 /\ mon' = [mon EXCEPT ![r] = new]))
  BY DEF DiskMonStartHandler
<1>2. mon[r].st = "none"
  BY DEF DiskMonStartHandler, IInv, Monitors
<1>3. new.st = "spawned"
  BY DEF NoMon
<1> HIDE DEF new
<1> QED BY <1>0, <1>1, <1>2, <1>3

(* A monitor's own steps.                                                  *)
LEMMA MonShape ==
  ASSUME IInv, NEW m \in Reqs, DiskMon(m)
  PROVE  /\ \A k \in Reqs \ {m} : mon'[k].st = mon[k].st
         /\ mon[m].st # "none" /\ mon'[m].st # "none"
         /\ mon'[m].st \in Ended <=> mon[m].st \in Ended
         /\ \/ MonStart(m) /\ diskMonState' = 1 /\ mon'[m].st \in Active
            \/ MonExit(m) /\ diskMonState' = 0 /\ mon'[m].st \notin Active
            \/ /\ UNCHANGED diskMonState
               /\ mon[m].st \in Active /\ mon'[m].st \in Active
<1>0. mon \in [Reqs -> MonRecord]
  BY DEF IInv, TypeOK, MonRecord
<1>1. CASE MonStart(m)
  BY <1>0, <1>1 DEF MonStart, MonRecord, Active, Ended
<1>2. CASE MonTick(m)
  BY <1>0, <1>2 DEF MonTick, MonRecord, Active, Ended
<1>3. CASE MonList(m)
  <2>1. \A k \in Reqs \ {m} : mon'[k] = mon[k]
    BY <1>0, <1>3 DEF MonList
  <2>2. mon[m].st = "list" /\ mon'[m].st \in {"select", "drop"}
    BY <1>0, <1>3 DEF MonList, MonRecord
  <2> QED BY <1>3, <2>1, <2>2 DEF MonList, Active, Ended
<1>4. CASE MonDrop(m)
  <2>1. \A k \in Reqs \ {m} : mon'[k] = mon[k]
    BY <1>0, <1>4 DEF MonDrop
  <2>2. mon[m].st = "drop" /\ mon'[m].st = "drop"
    BY <1>0, <1>4 DEF MonDrop, MonRecord
  <2> QED BY <1>4, <2>1, <2>2 DEF MonDrop, Active, Ended
<1>5. CASE MonTickDone(m)
  BY <1>0, <1>5 DEF MonTickDone, MonRecord, Active, Ended
<1>6. CASE MonExit(m)
  BY <1>0, <1>6 DEF MonExit, MonRecord, Active, Ended
<1> QED BY <1>1, <1>2, <1>3, <1>4, <1>5, <1>6 DEF DiskMon

(* The flag of a monitor that stayed the only one.                         *)
LoneFlag ==
  \A m \in Reqs :
    (mon[m].st # "none" /\ \A k \in Reqs \ {m} : mon[k].st = "none")
      => (diskMonState = 1 <=> mon[m].st \in Active)

LEMMA StepAccount == IInv /\ AccountInv /\ [Next]_vars => AccountInv'
<1> SUFFICES ASSUME IInv, AccountInv, [Next]_vars PROVE AccountInv'
  OBVIOUS
<1>0. Unanswered /\ LoneFlag /\ diskMonState \in {0, 1}
  BY DEF AccountInv, MonitorsAccounted, LoneFlag, IInv, TypeOK
<1>1. Unanswered'
  BY <1>0, StepUnanswered
<1>2. ASSUME LoneFlag', Told' = Told, Gone' = Gone PROVE AccountInv'
  BY <1>1, <1>2 DEF AccountInv, MonitorsAccounted, LoneFlag, Told, Gone
<1>3. ASSUME UNCHANGED diskMonState, \A m \in Reqs : mon'[m].st = mon[m].st
      PROVE  LoneFlag' /\ Gone' = Gone
  BY <1>0, <1>3 DEF LoneFlag, Gone
<1>4. ASSUME NEW r \in Reqs, DiskMonEndHandler(r) PROVE AccountInv'
  <2>1. PICK m \in Reqs \ Gone :
          /\ mon[m].st = "select"
          /\ \A k \in Reqs : mon'[k].st = IF k = m THEN "stopping" ELSE mon[k].st
          /\ r \notin Told
          /\ Told' = Told \cup {r}
          /\ Gone' = Gone \cup {m}
    BY <1>0, <1>4, StopCounts
  <2>2. UNCHANGED diskMonState
    BY <1>4 DEF DiskMonEndHandler
  <2>3. LoneFlag'
    BY <1>0, <2>1, <2>2 DEF LoneFlag, Active
  <2>4. IsFiniteSet(Told) /\ IsFiniteSet(Gone) /\ Cardinality(Told) = Cardinality(Gone)
    BY DEF AccountInv, MonitorsAccounted, Told, Gone
  <2>5. /\ IsFiniteSet(Told') /\ IsFiniteSet(Gone')
        /\ Cardinality(Told') = Cardinality(Told) + 1
        /\ Cardinality(Gone') = Cardinality(Gone) + 1
    BY <2>1, <2>4, FS_AddElement
  <2> QED BY <1>1, <2>3, <2>4, <2>5 DEF AccountInv, MonitorsAccounted, LoneFlag, Told, Gone
<1>5. ASSUME NEW r \in Reqs, ServeHTTP(r), ~DiskMonEndHandler(r) PROVE AccountInv'
  <2>1. Told' = Told
    BY <1>0, <1>5, NobodyTold
  <2>2. CASE DiskMonStartHandler(r)
    <3>1. CASE UNCHANGED <<mon, diskMonState>>
      BY <1>2, <1>3, <2>1, <3>1
    <3>2. CASE /\ UNCHANGED diskMonState /\ diskMonState = 0
               /\ mon[r].st = "none"
               /\ \A k \in Reqs : mon'[k].st = IF k = r THEN "spawned" ELSE mon[k].st
      <4>1. Gone' = Gone
        BY <3>2 DEF Gone, Ended
      <4>2. LoneFlag'
        BY <1>0, <3>2 DEF LoneFlag, Active
      <4> QED BY <1>2, <2>1, <4>1, <4>2
    <3> QED BY <2>2, <3>1, <3>2, StartShape
  <2>3. CASE ~DiskMonStartHandler(r)
    <3>1. UNCHANGED <<mon, diskMonState>>
      BY <1>5, <2>3 DEF ServeHTTP, ReadBody, GetAvalibleReq, Decode, StatsHandler,
                        DbMonStartHandler, Recycle, monVars
    <3> QED BY <1>2, <1>3, <2>1, <3>1
  <2> QED BY <2>2, <2>3
<1>6. ASSUME NEW m \in Reqs, DiskMon(m) PROVE AccountInv'
  <2>1. Told' = Told
    BY <1>6 DEF DiskMon, MonStart, MonTick, MonList, MonDrop, MonTickDone, MonExit,
                reqVars, Told
  <2>2. Gone' = Gone
    BY <1>6, MonShape DEF Gone
  <2>3. LoneFlag'
    BY <1>0, <1>6, MonShape DEF LoneFlag
  <2> QED BY <1>2, <2>1, <2>2, <2>3
<1>7. CASE (\E d \in DBNames : NewColl(d)) \/ UNCHANGED vars
  <2>1. UNCHANGED <<mon, diskMonState, reply>>
    BY <1>7 DEF NewColl, vars, reqVars, monVars
  <2> QED BY <1>2, <1>3, <2>1 DEF Told
<1> QED BY <1>4, <1>5, <1>6, <1>7 DEF Next

(* The flag is exact while one monitor was ever started, and as many       *)
(* monitors have left their loop as requests were told "stopped".          *)
THEOREM Accounted == Spec => []MonitorsAccounted
<1>1. Init => AccountInv
  <2> SUFFICES ASSUME Init PROVE AccountInv
    OBVIOUS
  <2>1. mon = [m \in Reqs |-> NoMon] /\ reply = [r \in Reqs |-> ""]
    BY DEF Init
  <2>2. NoMon.st = "none"
    BY DEF NoMon
  <2>3. Told = {} /\ Gone = {}
    BY <2>1, <2>2 DEF Told, Gone, Ended
  <2>4. Unanswered /\ LoneFlag
    BY <2>1, <2>2 DEF Unanswered, LoneFlag
  <2> QED BY <2>3, <2>4, FS_EmptySet DEF AccountInv, MonitorsAccounted, LoneFlag, Told, Gone
<1>2. AccountInv => MonitorsAccounted
  BY DEF AccountInv
<1> QED BY <1>1, <1>2, InitInv, StepInv, StepAccount, PTL DEF Spec
=============================================================================
