---------------------------- MODULE SysCmdProofs ----------------------------
(***************************************************************************)
(* Proofs about SysCmd, for any requests, pool size, bodies and commands.  *)
(***************************************************************************)
EXTENDS SysCmd, SequenceTheorems, TLAPS

Stages == [r \in Reqs |-> StageOf(r)]

-----------------------------------------------------------------------------
(* The channel of the pool: what receiving its head and sending to its end  *)
(* do to the objects in it.                                                 *)
Elems(ch) == {ch[i] : i \in 1..Len(ch)}
NoDup(ch) == \A i, j \in 1..Len(ch) : ch[i] = ch[j] => i = j

\* No object is in the channel twice or held twice, or both, or lost.
Parted(ch, h) ==
  /\ NoDup(ch)
  /\ \A r, s \in Reqs : h[r] = h[s] /\ h[r] # NoObj => r = s
  /\ \A r \in Reqs : h[r] \notin Elems(ch)
  /\ \A o \in Objs : o \in Elems(ch) \/ \E r \in Reqs : h[r] = o

LEMMA TailElement ==
  ASSUME NEW S, NEW s \in Seq(S), s # <<>>
  PROVE  /\ Tail(s) \in Seq(S)
         /\ Head(s) \in S
         /\ Head(s) = s[1]
         /\ Len(s) \in Nat \ {0}
         /\ Len(Tail(s)) = Len(s) - 1
         /\ \A i \in 1..Len(Tail(s)) : Tail(s)[i] = s[i + 1]
  OBVIOUS

LEMMA ReceiveElems ==
  ASSUME NEW S, NEW s \in Seq(S), s # <<>>, NoDup(s)
  PROVE  /\ NoDup(Tail(s))
         /\ Elems(Tail(s)) = Elems(s) \ {Head(s)}
         /\ Head(s) \in Elems(s)
<1>1. NoDup(Tail(s)) /\ Head(s) \in Elems(s)
  BY TailElement DEF NoDup, Elems
<1>2. ASSUME NEW x \in Elems(Tail(s)) PROVE x \in Elems(s) /\ x # Head(s)
  <2>1. PICK i \in 1..Len(Tail(s)) : x = Tail(s)[i]
    BY DEF Elems
  <2>2. x = s[i + 1] /\ i + 1 \in 1..Len(s) /\ i + 1 # 1
    BY <2>1, TailElement
  <2> QED BY <2>2, TailElement DEF Elems, NoDup
<1>3. ASSUME NEW x \in Elems(s), x # Head(s) PROVE x \in Elems(Tail(s))
  <2>1. PICK i \in 1..Len(s) : x = s[i]
    BY DEF Elems
  <2>2. i # 1
    BY <2>1, <1>3, TailElement
  <2>3. (i - 1) \in 1..Len(Tail(s)) /\ Tail(s)[i - 1] = x
    BY <2>1, <2>2, TailElement
  <2> QED BY <2>3 DEF Elems
<1> QED BY <1>1, <1>2, <1>3

LEMMA SendElems ==
  ASSUME NEW S, NEW s \in Seq(S), NEW x \in S
  PROVE  /\ Append(s, x) \in Seq(S)
         /\ Elems(Append(s, x)) = Elems(s) \cup {x}
         /\ NoDup(s) /\ x \notin Elems(s) => NoDup(Append(s, x))
<1>1. /\ Append(s, x) \in Seq(S)
      /\ Len(Append(s, x)) = Len(s) + 1
      /\ Len(s) \in Nat
      /\ \A i \in 1..Len(s) : Append(s, x)[i] = s[i]
      /\ Append(s, x)[Len(s) + 1] = x
  OBVIOUS
<1>2. Elems(Append(s, x)) \subseteq Elems(s) \cup {x}
  BY <1>1 DEF Elems
<1>3. Elems(s) \cup {x} \subseteq Elems(Append(s, x))
  BY <1>1 DEF Elems
<1>4. ASSUME NoDup(s), x \notin Elems(s) PROVE NoDup(Append(s, x))
  BY <1>1, <1>4 DEF Elems, NoDup
<1> QED BY <1>1, <1>2, <1>3, <1>4

LEMMA FullChannel ==
  ASSUME SysRequestPoolSize \in Nat, NEW ch, ch = [i \in 1..SysRequestPoolSize |-> i]
  PROVE  ch \in Seq(Objs) /\ NoDup(ch) /\ Elems(ch) = Objs
<1>1. ch \in [1..SysRequestPoolSize -> Objs]
  BY DEF Objs
<1>2. ch \in Seq(Objs)
  BY <1>1, SeqDef, Zenon
<1>3. Len(ch) = SysRequestPoolSize
  <2>1. Len(ch) \in Nat /\ DOMAIN ch = 1..Len(ch)
    BY <1>2, LenProperties
  <2>2. 1..Len(ch) = 1..SysRequestPoolSize
    BY <2>1
  <2>3. \A i \in Nat : (1 <= i /\ i <= Len(ch)) <=> (1 <= i /\ i <= SysRequestPoolSize)
    <3> SUFFICES ASSUME NEW i \in Nat PROVE i \in 1..Len(ch) <=> i \in 1..SysRequestPoolSize
      OBVIOUS
    <3> QED BY <2>2
  <2> QED BY <2>1, <2>3
<1> QED BY <1>2, <1>3 DEF NoDup, Elems, Objs

LEMMA FullPartition ==
  ASSUME SysRequestPoolSize \in Nat
  PROVE  Parted([i \in 1..SysRequestPoolSize |-> i], [r \in Reqs |-> NoObj])
<1>1. NoObj \notin Objs
  BY DEF Objs, NoObj
<1> QED BY <1>1, FullChannel DEF Parted

LEMMA ReceivePartition ==
  ASSUME NEW ch \in Seq(Objs), ch # <<>>, NEW h \in [Reqs -> Objs \cup {NoObj}],
         Parted(ch, h), NEW r \in Reqs, h[r] = NoObj
  PROVE  Parted(Tail(ch), [h EXCEPT ![r] = Head(ch)])
<1> DEFINE now == [h EXCEPT ![r] = Head(ch)]
<1>1. /\ NoDup(Tail(ch)) /\ Elems(Tail(ch)) = Elems(ch) \ {Head(ch)}
      /\ Head(ch) \in Elems(ch) /\ Head(ch) \in Objs
  BY ReceiveElems, TailElement DEF Parted
<1>2. \A s \in Reqs : now[s] = IF s = r THEN Head(ch) ELSE h[s]
  OBVIOUS
<1>3. ASSUME NEW o \in Objs, o \notin Elems(Tail(ch)) PROVE \E s \in Reqs : now[s] = o
  <2>1. CASE o = Head(ch)
    BY <1>2, <2>1
  <2>2. CASE o # Head(ch)
    <3>1. PICK s \in Reqs : h[s] = o
      BY <1>1, <1>3, <2>2 DEF Parted
    <3>2. s # r
      BY <3>1 DEF Objs, NoObj
    <3> QED BY <1>2, <3>1, <3>2
  <2> QED BY <2>1, <2>2
<1>4. \A s \in Reqs : now[s] \notin Elems(Tail(ch))
  BY <1>1, <1>2 DEF Parted
<1>5. \A s, q \in Reqs : now[s] = now[q] /\ now[s] # NoObj => s = q
  BY <1>1, <1>2 DEF Parted
<1> QED BY <1>1, <1>3, <1>4, <1>5 DEF Parted

LEMMA SendPartition ==
  ASSUME NEW ch \in Seq(Objs), NEW h \in [Reqs -> Objs \cup {NoObj}],
         Parted(ch, h), NEW r \in Reqs, h[r] # NoObj
  PROVE  /\ Append(ch, h[r]) \in Seq(Objs)
         /\ Elems(Append(ch, h[r])) = Elems(ch) \cup {h[r]}
         /\ Parted(Append(ch, h[r]), [h EXCEPT ![r] = NoObj])
<1> DEFINE now == [h EXCEPT ![r] = NoObj]
           after == Append(ch, h[r])
<1>1. h[r] \in Objs /\ h[r] \notin Elems(ch)
  BY DEF Parted
<1>2. after \in Seq(Objs) /\ NoDup(after) /\ Elems(after) = Elems(ch) \cup {h[r]}
  BY <1>1, SendElems DEF Parted
<1>3. \A s \in Reqs : now[s] = IF s = r THEN NoObj ELSE h[s]
  OBVIOUS
<1>4. NoObj \notin Elems(after)
  <2>1. \A i \in 1..Len(after) : after[i] \in Objs
    BY <1>2
  <2> QED BY <2>1 DEF Elems, Objs, NoObj
<1> HIDE DEF now, after
<1>5. \A o \in Objs : o \in Elems(after) \/ \E s \in Reqs : now[s] = o
  BY <1>2, <1>3 DEF Parted
<1>6. \A s \in Reqs : now[s] \notin Elems(after)
  BY <1>1, <1>2, <1>3, <1>4 DEF Parted
<1>7. \A s, q \in Reqs : now[s] = now[q] /\ now[s] # NoObj => s = q
  BY <1>3 DEF Parted
<1> QED BY <1>2, <1>5, <1>6, <1>7 DEF Parted, now, after

-----------------------------------------------------------------------------
(* The inductive invariant: types, who holds an object, who has a monitor, *)
(* and the partition of the objects.                                       *)
PCs == {"read", "wait", "decode", "monitor", "syscmd", "stream", "recycle", "done"}
Content == [op : Ops, args : Args]
Output0 == [lines : 0..MaxLines, rest : BOOLEAN, closed : BOOLEAN]

TypeOK ==
  /\ pc \in [Reqs -> PCs]
  /\ body \in [Reqs -> Body]
  /\ hold \in [Reqs -> Objs \cup {NoObj}]
  /\ pool \in Seq(Objs)
  /\ obj \in [Objs -> Content]
  /\ cmd \in [Reqs -> Args]
  /\ out \in [Reqs -> Output0]
  /\ sent \in [Reqs -> 0..MaxLines]
  /\ mon \in [Reqs -> {"none", "spawned", "running", "exited"}]
  /\ diskMonState \in {0, 1}
  /\ low \in BOOLEAN

\* Exactly the requests past getAvalibleReq and before recycle hold an object.
Holders == \A r \in Reqs : hold[r] # NoObj <=> StageOf(r) = "inside"

\* A monitor is the goroutine of a request that is past its handler.
Monitors == \A m \in Reqs : mon[m] # "none" => pc[m] \in {"recycle", "done"}

\* No more lines are sent than were written.
SentWritten == \A r \in Reqs : sent[r] <= out[r].lines

Partition == Parted(pool, hold)

IInv == TypeOK /\ Holders /\ Monitors /\ SentWritten /\ Partition

LEMMA SameObjs == RP!Objs = Objs /\ RP!NoObj = NoObj /\ NoObj \notin Objs
BY DEF RP!Objs, Objs, RP!NoObj, NoObj

LEMMA NoLines == MaxLines \in Nat /\ 0 \in 0..MaxLines /\ NoOut \in Output0 /\ 0 <= NoOut.lines
<1>1. MaxLines \in Nat
  BY SysCmdAssumption DEF SysCmdAssumption
<1>2. 0 \in 0..MaxLines
  BY <1>1
<1> QED BY <1>1, <1>2 DEF NoOut, Output0

LEMMA InitInv == Init => IInv
<1> SUFFICES ASSUME Init PROVE IInv
  OBVIOUS
<1>1. pool \in Seq(Objs) /\ Partition
  BY SysCmdAssumption, FullChannel, FullPartition, SameObjs
     DEF SysCmdAssumption, Init, Partition
<1>2. body \in [Reqs -> Body]
  BY DEF Init, NoBody, Body
<1>3. obj \in [Objs -> Content] /\ cmd \in [Reqs -> Args]
  BY DEF Init, Content, Ops, Args
<1>4. out \in [Reqs -> Output0] /\ sent \in [Reqs -> 0..MaxLines] /\ SentWritten
  <2>1. out = [r \in Reqs |-> NoOut] /\ sent = [r \in Reqs |-> 0]
    BY DEF Init
  <2> QED BY <2>1, NoLines DEF SentWritten
<1>5. TypeOK
  BY <1>1, <1>2, <1>3, <1>4 DEF TypeOK, PCs, Init
<1>6. Holders /\ Monitors
  BY DEF Holders, StageOf, Monitors, Init
<1> QED BY <1>1, <1>4, <1>5, <1>6 DEF IInv

(* One lemma per operation.                                                *)
LEMMA ReadBodyInv ==
  ASSUME IInv, NEW r \in Reqs, ReadBody(r)
  PROVE  IInv'
<1> USE DEF IInv, ReadBody, GoTo, objVars, runVars, monVars
<1>1. body' \in [Reqs -> Body] /\ pc' \in [Reqs -> PCs]
  <2>1. Bodies \subseteq Body
    BY SysCmdAssumption DEF SysCmdAssumption
  <2> QED BY <2>1 DEF TypeOK, PCs
<1>2. TypeOK'
  BY <1>1 DEF TypeOK
<1>3. Holders' /\ Monitors' /\ SentWritten'
  BY <1>1 DEF TypeOK, Holders, StageOf, Monitors, SentWritten
<1> QED BY <1>2, <1>3 DEF Partition

LEMMA ReceiveInv ==
  ASSUME IInv, NEW r \in Reqs, GetAvalibleReq(r)
  PROVE  /\ IInv'
         /\ Elems(pool') = Elems(pool) \ {Head(pool)}
         /\ Head(pool) \in Elems(pool)
<1> USE DEF IInv, GetAvalibleReq, GoTo, runVars, monVars
<1>1. pool' \in Seq(Objs) /\ Head(pool) \in Objs
  BY TailElement DEF TypeOK
<1>2. TypeOK'
  BY <1>1 DEF TypeOK, PCs
<1>3. hold[r] = NoObj
  BY DEF Holders, StageOf
<1>4. Partition'
  BY <1>3, ReceivePartition, SameObjs DEF Partition, TypeOK
<1>5. Holders' /\ Monitors' /\ SentWritten'
  BY <1>1, SameObjs DEF TypeOK, Holders, StageOf, Monitors, SentWritten
<1>6. NoDup(pool) /\ pool \in Seq(Objs)
  BY DEF Partition, Parted, TypeOK
<1> QED BY <1>2, <1>4, <1>5, <1>6, ReceiveElems

LEMMA DecodeInv ==
  ASSUME IInv, NEW r \in Reqs, Decode(r)
  PROVE  IInv'
<1> USE DEF IInv, Decode, GoTo, runVars, monVars
<1>1. hold[r] \in Objs
  BY DEF Holders, StageOf, TypeOK
<1>2. Merge(obj[hold[r]], body[r]) \in Content
  BY <1>1 DEF TypeOK, Merge, Content, Body
<1>3. obj' \in [Objs -> Content]
  BY <1>1, <1>2 DEF TypeOK
<1>4. \E to \in {"monitor", "syscmd", "recycle"} : pc' = [pc EXCEPT ![r] = to]
  OBVIOUS
<1>5. TypeOK'
  BY <1>3, <1>4 DEF TypeOK, PCs
<1>6. Holders' /\ Monitors' /\ SentWritten'
  BY <1>4 DEF TypeOK, Holders, StageOf, Monitors, SentWritten
<1> QED BY <1>5, <1>6 DEF Partition

LEMMA MonitorHandlerInv ==
  ASSUME IInv, NEW r \in Reqs, MonitorHandler(r)
  PROVE  IInv'
<1> USE DEF IInv, MonitorHandler, GoTo, objVars, runVars
<1>1. TypeOK'
  BY DEF TypeOK, PCs
<1>2. Holders' /\ Monitors' /\ SentWritten'
  BY DEF TypeOK, Holders, StageOf, Monitors, SentWritten
<1> QED BY <1>1, <1>2 DEF Partition

LEMMA StartInv ==
  ASSUME IInv, NEW r \in Reqs, Start(r)
  PROVE  IInv'
<1> USE DEF IInv, Start, GoTo, objVars, monVars
<1>1. obj[hold[r]].args \in Args /\ Lower[obj[hold[r]].args] \in Args
  BY SysCmdAssumption DEF SysCmdAssumption, Holders, StageOf, TypeOK, Content
<1>2. TypeOK'
  BY <1>1 DEF TypeOK, PCs
<1>3. Holders' /\ Monitors' /\ SentWritten'
  BY DEF TypeOK, Holders, StageOf, Monitors, SentWritten
<1> QED BY <1>2, <1>3 DEF Partition

LEMMA StreamInv ==
  ASSUME IInv, NEW r \in Reqs, Stream(r)
  PROVE  IInv'
<1> USE DEF IInv, Stream, GoTo, objVars, monVars
<1>1. sent' \in [Reqs -> 0..MaxLines] /\ SentWritten'
  <2>1. out[r].lines \in 0..MaxLines /\ sent[r] \in 0..MaxLines /\ MaxLines \in Nat
    BY SysCmdAssumption DEF SysCmdAssumption, TypeOK, Output0
  <2>2. sent[r] < out[r].lines => sent[r] + 1 \in 0..MaxLines /\ sent[r] + 1 <= out[r].lines
    BY <2>1
  <2> HIDE DEF IInv
  <2>3. sent \in [Reqs -> 0..MaxLines] /\ SentWritten /\ UNCHANGED out
    BY DEF IInv, TypeOK
  <2> QED BY <2>2, <2>3 DEF SentWritten
<1>2. TypeOK'
  BY <1>1 DEF TypeOK, PCs
<1>3. Holders' /\ Monitors'
  BY DEF TypeOK, Holders, StageOf, Monitors
<1> QED BY <1>1, <1>2, <1>3 DEF Partition

LEMMA RecycleInv ==
  ASSUME IInv, NEW r \in Reqs, Recycle(r)
  PROVE  IInv' /\ Elems(pool') = Elems(pool) \cup {hold[r]}
<1>1. /\ pool' = Append(pool, hold[r]) /\ hold' = [hold EXCEPT ![r] = NoObj]
      /\ pc[r] = "recycle" /\ pc' = [pc EXCEPT ![r] = "done"]
      /\ UNCHANGED <<body, obj, cmd, out, sent, mon, diskMonState, low>>
  BY DEF Recycle, GoTo, runVars, monVars
<1>2. hold[r] # NoObj
  BY <1>1 DEF IInv, Holders, StageOf
<1>3. /\ Append(pool, hold[r]) \in Seq(Objs)
      /\ Parted(Append(pool, hold[r]), [hold EXCEPT ![r] = NoObj])
      /\ Elems(Append(pool, hold[r])) = Elems(pool) \cup {hold[r]}
  <2>1. /\ pool \in Seq(Objs) /\ hold \in [Reqs -> Objs \cup {NoObj}]
        /\ Parted(pool, hold) /\ hold[r] # NoObj
    BY <1>2, SameObjs DEF Partition, IInv, TypeOK
  <2> QED BY <2>1, SendPartition
<1>4. pool' \in Seq(Objs) /\ Partition' /\ Elems(pool') = Elems(pool) \cup {hold[r]}
  BY <1>1, <1>3, SameObjs DEF Partition
<1>5. TypeOK'
  BY <1>1, <1>4 DEF TypeOK, PCs, IInv
<1>6. Holders' /\ Monitors' /\ SentWritten'
  BY <1>1 DEF IInv, TypeOK, Holders, StageOf, Monitors, SentWritten
<1> QED BY <1>4, <1>5, <1>6 DEF IInv

LEMMA MonStepInv ==
  ASSUME IInv, NEW m \in Reqs, MonStart(m) \/ MonTick(m)
  PROVE  IInv'
<1> USE DEF IInv, MonStart, MonTick, reqVars, objVars, runVars
<1>1. TypeOK'
  BY DEF TypeOK
<1>2. Holders' /\ Monitors' /\ SentWritten'
  BY DEF TypeOK, Holders, StageOf, Monitors, SentWritten
<1> QED BY <1>1, <1>2 DEF Partition

LEMMA OutputInv ==
  ASSUME IInv, NEW r \in Reqs, Output(r)
  PROVE  IInv'
<1>1. UNCHANGED <<reqVars, objVars, cmd, sent, monVars>>
  BY DEF Output
<1>2. PICK o \in Output0 : out' = [out EXCEPT ![r] = o] /\ out[r].lines <= o.lines
  <2>1. out[r] \in Output0 /\ out \in [Reqs -> Output0] /\ MaxLines \in Nat
    BY NoLines DEF IInv, TypeOK
  <2>2. CASE out[r].lines < MaxLines /\ out' = [out EXCEPT ![r].lines = @ + 1]
    <3> DEFINE o == [lines |-> out[r].lines + 1, rest |-> out[r].rest, closed |-> out[r].closed]
    <3>1. [out[r] EXCEPT !.lines = @ + 1] = o
      BY <2>1 DEF Output0
    <3>2. out[r].lines + 1 \in 0..MaxLines /\ out[r].lines <= out[r].lines + 1
      BY <2>1, <2>2 DEF Output0
    <3>3. o \in Output0
      BY <2>1, <3>2 DEF Output0
    <3>4. out' = [out EXCEPT ![r] = o]
      BY <2>2, <3>1
    <3> QED BY <3>2, <3>3, <3>4
  <2>3. ASSUME NEW end \in BOOLEAN,
               out' = [out EXCEPT ![r] = [lines |-> @.lines, rest |-> end, closed |-> TRUE]]
        PROVE  \E o \in Output0 : out' = [out EXCEPT ![r] = o] /\ out[r].lines <= o.lines
    <3> DEFINE o == [lines |-> out[r].lines, rest |-> end, closed |-> TRUE]
    <3>1. o \in Output0 /\ out[r].lines <= o.lines
      BY <2>1 DEF Output0
    <3>2. out' = [out EXCEPT ![r] = o]
      BY <2>3
    <3> QED BY <3>1, <3>2
  <2> QED BY <2>2, <2>3 DEF Output
<1>3. out' \in [Reqs -> Output0]
  BY <1>2 DEF IInv, TypeOK
<1>4. SentWritten'
  <2>1. ASSUME NEW q \in Reqs PROVE sent[q] <= out'[q].lines
    <3>1. sent[q] \in Nat /\ out[q].lines \in Nat /\ o.lines \in Nat /\ sent[q] <= out[q].lines
      BY NoLines DEF IInv, TypeOK, Output0, SentWritten
    <3>2. CASE q = r
      BY <1>2, <3>1, <3>2 DEF IInv, TypeOK
    <3>3. CASE q # r
      BY <1>2, <3>1, <3>3 DEF IInv, TypeOK
    <3> QED BY <3>2, <3>3
  <2> QED BY <1>1, <2>1 DEF SentWritten
<1>5. TypeOK'
  BY <1>1, <1>3 DEF TypeOK, IInv, reqVars, objVars, monVars
<1>6. Holders' /\ Monitors' /\ Partition'
  BY <1>1 DEF IInv, Holders, StageOf, Monitors, Partition, reqVars, objVars, monVars
<1> QED BY <1>4, <1>5, <1>6 DEF IInv

LEMMA StepInv == IInv /\ [Next]_vars => IInv'
<1> SUFFICES ASSUME IInv, [Next]_vars PROVE IInv'
  OBVIOUS
<1>1. CASE Disk \/ UNCHANGED vars
  <2>1. UNCHANGED <<reqVars, objVars, runVars, mon, diskMonState>> /\ low' \in BOOLEAN
    BY <1>1 DEF Disk, vars, monVars, IInv, TypeOK
  <2> QED BY <2>1 DEF reqVars, objVars, runVars, IInv, TypeOK, Holders, StageOf, Monitors,
                      SentWritten, Partition
<1> QED BY <1>1, ReadBodyInv, ReceiveInv, DecodeInv, MonitorHandlerInv, StartInv, StreamInv,
           RecycleInv, MonStepInv, OutputInv DEF Next, ServeHTTP

(* Every reachable state is typed, its objects are accounted for, and no   *)
(* request has been sent a line that its command did not write.            *)
THEOREM TypeCorrect == Spec => []IInv
<1> QED BY InitInv, StepInv, PTL DEF Spec

-----------------------------------------------------------------------------
(* A monitor runs while the flag says so.                                  *)

LEMMA StepFlag == IInv /\ FlagHasMonitor /\ [Next]_vars => FlagHasMonitor'
<1> SUFFICES ASSUME IInv, FlagHasMonitor, [Next]_vars PROVE FlagHasMonitor'
  OBVIOUS
<1>1. mon \in [Reqs -> {"none", "spawned", "running", "exited"}]
  BY DEF IInv, TypeOK
<1>2. ASSUME NEW r \in Reqs, MonitorHandler(r) PROVE FlagHasMonitor'
  <2>1. mon[r] = "none" /\ UNCHANGED diskMonState
    BY <1>1, <1>2 DEF MonitorHandler, IInv, Monitors
  <2>2. \A q \in Reqs \ {r} : mon'[q] = mon[q]
    BY <1>1, <1>2 DEF MonitorHandler
  <2> QED BY <2>1, <2>2 DEF FlagHasMonitor
<1>3. ASSUME NEW m \in Reqs, MonStart(m) \/ MonTick(m) PROVE FlagHasMonitor'
  BY <1>1, <1>3 DEF MonStart, MonTick, FlagHasMonitor
<1>4. \/ UNCHANGED <<mon, diskMonState>>
      \/ \E r \in Reqs : MonitorHandler(r) \/ MonStart(r) \/ MonTick(r)
  BY DEF Next, ServeHTTP, ReadBody, GetAvalibleReq, Decode, Start, Stream, Recycle, Output, Disk,
         vars, monVars
<1>5. UNCHANGED <<mon, diskMonState>> => FlagHasMonitor'
  BY DEF FlagHasMonitor
<1> QED BY <1>2, <1>3, <1>4, <1>5

-----------------------------------------------------------------------------
(* Where the arguments of a command come from.                             *)
Unread   == \A r \in Reqs : pc[r] = "read" => body[r].args = Absent
Unused   == \A r \in Reqs : cmd[r] # "" => pc[r] \in {"stream", "recycle", "done"}
FromBody == \A o \in Objs : obj[o].args # "" => \E q \in Reqs : body[q].args = obj[o].args
Decoded  == \A r \in Reqs :
              pc[r] = "syscmd" => /\ obj[hold[r]].args # ""
                                  /\ body[r].args \in {Absent, obj[hold[r]].args}

Provenance == Unread /\ Unused /\ FromBody /\ Decoded /\ RanAsSent

\* The arguments of the bodies, of the objects and of the commands.
LEMMA ArgsType ==
  IInv => /\ \A a \in Args : a # Absent
          /\ \A r \in Reqs : cmd[r] \in Args /\ body[r].args \in Args \cup {Absent}
          /\ \A o \in Objs : obj[o].args \in Args
BY SysCmdAssumption DEF SysCmdAssumption, IInv, TypeOK, Body, Content

LEMMA RanStays ==
  ASSUME RanAsSent, UNCHANGED <<body, cmd>>
  PROVE  RanAsSent'
<1> SUFFICES ASSUME NEW p \in Reqs, cmd'[p] # ""
             PROVE  \E a \in Args \ {""} : cmd'[p] = Lower[a] /\ SentFor(p, a)'
  BY DEF RanAsSent
<1>1. PICK a \in Args \ {""} : cmd[p] = Lower[a] /\ SentFor(p, a)
  BY DEF RanAsSent
<1>2. SentFor(p, a)'
  BY <1>1 DEF SentFor
<1> QED BY <1>1, <1>2

LEMMA InitProvenance == Init => Provenance
<1> SUFFICES ASSUME Init PROVE Provenance
  OBVIOUS
<1>1. Unread /\ Unused /\ Decoded
  BY DEF Init, NoBody, Unread, Unused, Decoded
<1>2. FromBody /\ RanAsSent
  BY DEF Init, FromBody, RanAsSent
<1> QED BY <1>1, <1>2 DEF Provenance

LEMMA ReadBodyProvenance ==
  ASSUME IInv, Provenance, NEW r \in Reqs, ReadBody(r)
  PROVE  Provenance'
<1>1. UNCHANGED <<hold, obj, cmd>>
  BY DEF ReadBody, objVars, runVars
<1>2. /\ pc[r] = "read" /\ pc'[r] \in {"wait", "done"}
      /\ \A q \in Reqs \ {r} : pc'[q] = pc[q] /\ body'[q] = body[q]
  BY DEF ReadBody, GoTo, IInv, TypeOK
<1>3. cmd[r] = "" /\ body[r].args = Absent
  BY <1>2 DEF Provenance, Unread, Unused
<1>4. Unread' /\ Unused' /\ Decoded'
  <2>1. Unread'
    BY <1>2 DEF Provenance, Unread
  <2>2. Unused'
    BY <1>1, <1>2, <1>3 DEF Provenance, Unused
  <2>3. Decoded'
    BY <1>1, <1>2 DEF Provenance, Decoded
  <2> QED BY <2>1, <2>2, <2>3
<1>5. \A q \in Reqs, a \in Args : body[q].args = a => body'[q].args = a
  BY <1>2, <1>3, ArgsType
<1>6. FromBody'
  BY <1>1, <1>5, ArgsType DEF Provenance, FromBody
<1>7. RanAsSent'
  <2> SUFFICES ASSUME NEW p \in Reqs, cmd'[p] # ""
               PROVE  \E a \in Args \ {""} : cmd'[p] = Lower[a] /\ SentFor(p, a)'
    BY DEF RanAsSent
  <2>1. p # r /\ body'[p] = body[p] /\ cmd'[p] = cmd[p]
    BY <1>1, <1>2, <1>3
  <2>2. PICK a \in Args \ {""} : cmd[p] = Lower[a] /\ SentFor(p, a)
    BY <2>1 DEF Provenance, RanAsSent
  <2>3. SentFor(p, a)'
    BY <1>5, <2>1, <2>2 DEF SentFor
  <2> QED BY <2>1, <2>2, <2>3
<1> QED BY <1>4, <1>6, <1>7 DEF Provenance

LEMMA DecodeProvenance ==
  ASSUME IInv, Provenance, NEW r \in Reqs, Decode(r)
  PROVE  Provenance'
<1> DEFINE new == Merge(obj[hold[r]], body[r])
<1>1. UNCHANGED <<body, hold, cmd>>
  BY DEF Decode, runVars
<1>2. hold[r] \in Objs /\ pc[r] = "decode" /\ obj' = [obj EXCEPT ![hold[r]] = new]
  BY DEF Decode, IInv, Holders, StageOf, TypeOK
<1>3. PICK to \in {"monitor", "syscmd", "recycle"} :
        /\ pc' = [pc EXCEPT ![r] = to]
        /\ to = "syscmd" => new.args # ""
  BY DEF Decode, GoTo
<1>4. /\ pc'[r] = to
      /\ \A q \in Reqs \ {r} : pc'[q] = pc[q]
      /\ obj'[hold[r]] = new
      /\ \A o \in Objs \ {hold[r]} : obj'[o] = obj[o]
  BY <1>2, <1>3 DEF IInv, TypeOK
<1>5. new.args = IF body[r].args = Absent THEN obj[hold[r]].args ELSE body[r].args
  BY DEF Merge
<1> HIDE DEF new
<1>6. FromBody'
  <2>1. ASSUME NEW o \in Objs, obj'[o].args # ""
        PROVE  \E q \in Reqs : body[q].args = obj'[o].args
    <3>1. CASE o = hold[r]
      <4>1. obj'[o].args = new.args
        BY <1>4, <3>1
      <4>2. \/ new.args = body[r].args
            \/ new.args = obj[o].args
        BY <1>5, <3>1
      <4> QED BY <2>1, <4>1, <4>2 DEF Provenance, FromBody
    <3>2. CASE o # hold[r]
      BY <1>4, <2>1, <3>2 DEF Provenance, FromBody
    <3> QED BY <3>1, <3>2
  <2> QED BY <1>1, <2>1 DEF FromBody
<1>7. Decoded'
  <2>1. ASSUME NEW p \in Reqs, pc'[p] = "syscmd"
        PROVE  obj'[hold[p]].args # "" /\ body[p].args \in {Absent, obj'[hold[p]].args}
    <3>1. CASE p = r
      BY <1>3, <1>4, <1>5, <2>1, <3>1
    <3>2. CASE p # r
      <4>1. hold[p] # NoObj /\ hold[r] # NoObj
        BY <1>2, <1>4, <2>1, <3>2 DEF IInv, Holders, StageOf
      <4>2. hold[p] \in Objs \ {hold[r]}
        BY <3>2, <4>1, SameObjs DEF IInv, TypeOK, Partition, Parted
      <4> QED BY <1>4, <2>1, <3>2, <4>2 DEF Provenance, Decoded
    <3> QED BY <3>1, <3>2
  <2> QED BY <1>1, <2>1 DEF Decoded
<1>8. Unread' /\ Unused' /\ RanAsSent'
  <2>1. Unread' /\ Unused'
    BY <1>1, <1>2, <1>4 DEF Provenance, Unread, Unused
  <2>2. RanAsSent'
    BY <1>1, RanStays DEF Provenance
  <2> QED BY <2>1, <2>2
<1> QED BY <1>6, <1>7, <1>8 DEF Provenance

LEMMA StartProvenance ==
  ASSUME IInv, Provenance, NEW r \in Reqs, Start(r)
  PROVE  Provenance'
<1>1. UNCHANGED <<body, hold, obj>>
  BY DEF Start, objVars
<1>2. pc[r] = "syscmd" /\ cmd[r] = "" /\ hold[r] \in Objs
  BY DEF Start, Provenance, Unused, IInv, Holders, StageOf, TypeOK
<1>3. /\ \/ pc'[r] = "recycle" /\ cmd'[r] = cmd[r]
         \/ pc'[r] = "stream" /\ cmd'[r] = Lower[obj[hold[r]].args]
      /\ \A q \in Reqs \ {r} : pc'[q] = pc[q] /\ cmd'[q] = cmd[q]
  BY DEF Start, GoTo, IInv, TypeOK
<1>4. Unread' /\ Unused' /\ Decoded'
  <2>1. Unread' /\ Unused'
    BY <1>1, <1>3 DEF Provenance, Unread, Unused
  <2>2. Decoded'
    BY <1>1, <1>3 DEF Provenance, Decoded
  <2> QED BY <2>1, <2>2
<1>5. FromBody'
  BY <1>1 DEF Provenance, FromBody
<1>6. RanAsSent'
  <2>1. UNCHANGED body => \A p \in Reqs, a \in Args : SentFor(p, a) => SentFor(p, a)'
    BY DEF SentFor
  <2>2. ASSUME NEW p \in Reqs, cmd'[p] # ""
        PROVE  \E a \in Args \ {""} : cmd'[p] = Lower[a] /\ SentFor(p, a)
    <3>1. CASE p = r
      <4> DEFINE a == obj[hold[r]].args
      <4>1. a \in Args \ {""} /\ body[r].args \in {Absent, a} /\ cmd'[r] = Lower[a]
        BY <1>2, <1>3, <2>2, <3>1, ArgsType DEF Provenance, Decoded
      <4>2. PICK q \in Reqs : body[q].args = a
        BY <1>2, <4>1 DEF Provenance, FromBody
      <4> QED BY <3>1, <4>1, <4>2 DEF SentFor
    <3>2. CASE p # r
      <4>1. cmd'[p] = cmd[p]
        BY <1>3, <3>2
      <4> QED BY <2>2, <4>1 DEF Provenance, RanAsSent
    <3> QED BY <3>1, <3>2
  <2> QED BY <1>1, <2>1, <2>2 DEF RanAsSent
<1> QED BY <1>4, <1>5, <1>6 DEF Provenance

\* What the other operations can change of it.
LEMMA OtherProvenance ==
  ASSUME IInv, Provenance, NEW r \in Reqs, UNCHANGED <<body, obj, cmd>>,
         pc'[r] \notin {"read", "syscmd"}, pc[r] \in {"stream", "recycle", "done"} => 
                                           pc'[r] \in {"stream", "recycle", "done"},
         \A q \in Reqs \ {r} : pc'[q] = pc[q] /\ hold'[q] = hold[q]
  PROVE  Provenance'
<1>1. Unread' /\ Unused'
  BY DEF Provenance, Unread, Unused
<1>2. Decoded'
  BY DEF Provenance, Decoded
<1>3. FromBody' /\ RanAsSent'
  BY RanStays DEF Provenance, FromBody
<1> QED BY <1>1, <1>2, <1>3 DEF Provenance

LEMMA StepProvenance == IInv /\ Provenance /\ [Next]_vars => Provenance'
<1> SUFFICES ASSUME IInv, Provenance, [Next]_vars PROVE Provenance'
  OBVIOUS
<1>1. ASSUME NEW r \in Reqs,
             GetAvalibleReq(r) \/ MonitorHandler(r) \/ Stream(r) \/ Recycle(r)
      PROVE  Provenance'
  <2>1. UNCHANGED <<body, obj, cmd>>
    BY <1>1 DEF GetAvalibleReq, MonitorHandler, Stream, Recycle, objVars, runVars
  <2>2. /\ pc'[r] \notin {"read", "syscmd"}
        /\ pc[r] \in {"stream", "recycle", "done"} => pc'[r] \in {"stream", "recycle", "done"}
        /\ \A q \in Reqs \ {r} : pc'[q] = pc[q] /\ hold'[q] = hold[q]
    BY <1>1 DEF GetAvalibleReq, MonitorHandler, Stream, Recycle, GoTo, IInv, TypeOK
  <2> QED BY <2>1, <2>2, OtherProvenance
<1>2. CASE UNCHANGED <<reqVars, objVars, cmd>>
  BY <1>2, RanStays DEF reqVars, objVars, Provenance, Unread, Unused, FromBody, Decoded
<1>3. \/ UNCHANGED <<reqVars, objVars, cmd>>
      \/ \E r \in Reqs : ServeHTTP(r)
  BY DEF Next, MonStart, MonTick, Output, Disk, vars, runVars
<1> QED BY <1>1, <1>2, <1>3, ReadBodyProvenance, DecodeProvenance, StartProvenance DEF ServeHTTP

-----------------------------------------------------------------------------
(* All the lines are sent when the handler is over.                        *)
Complete == \A r \in Reqs : cmd[r] # "" /\ pc[r] \in {"recycle", "done"} =>
              out[r].closed /\ sent[r] = out[r].lines

LEMMA StepComplete == IInv /\ Unused /\ Complete /\ [Next]_vars => Complete'
<1> SUFFICES ASSUME IInv, Unused, Complete, [Next]_vars PROVE Complete'
  OBVIOUS
<1> DEFINE C(r) == cmd[r] # "" /\ pc[r] \in {"recycle", "done"} =>
                     out[r].closed /\ sent[r] = out[r].lines
<1>0. pc \in [Reqs -> PCs] /\ cmd \in [Reqs -> Args] /\ \A r \in Reqs : C(r)
  BY DEF IInv, TypeOK, Complete
<1>1. ASSUME NEW r \in Reqs, ServeHTTP(r) \/ Output(r) PROVE \A q \in Reqs \ {r} : C(q)'
  <2>1. ASSUME NEW q \in Reqs \ {r}
        PROVE  pc'[q] = pc[q] /\ cmd'[q] = cmd[q] /\ sent'[q] = sent[q] /\ out'[q] = out[q]
    BY <1>1 DEF ServeHTTP, ReadBody, GetAvalibleReq, Decode, MonitorHandler, Start, Stream, Recycle,
           Output, GoTo, IInv, TypeOK, reqVars, runVars
  <2> QED BY <1>0, <2>1
<1>2. ASSUME NEW r \in Reqs, ServeHTTP(r) PROVE C(r)'
  <2>1. CASE pc[r] \in {"read", "wait", "decode", "monitor", "syscmd"}
    <3>1. cmd[r] = ""
      BY <2>1 DEF Unused
    <3>2. cmd'[r] = "" \/ pc'[r] = "stream"
      BY <1>0, <1>2, <2>1, <3>1 DEF ServeHTTP, ReadBody, GetAvalibleReq, Decode, MonitorHandler,
            Start, Stream, Recycle, GoTo, runVars
    <3> QED BY <3>2
  <2>2. CASE pc[r] = "stream"
    <3>1. \/ pc'[r] = "stream"
          \/ out[r].closed /\ sent[r] = out[r].lines /\ UNCHANGED <<out, sent>>
      BY <1>0, <1>2, <2>2 DEF ServeHTTP, ReadBody, GetAvalibleReq, Decode, MonitorHandler,
            Start, Stream, Recycle, GoTo
    <3> QED BY <3>1
  <2>3. CASE pc[r] = "recycle"
    BY <1>0, <1>2, <2>3 DEF ServeHTTP, ReadBody, GetAvalibleReq, Decode, MonitorHandler,
            Start, Stream, Recycle, GoTo, runVars
  <2> QED BY <1>2, <2>1, <2>2, <2>3 DEF ServeHTTP, ReadBody, GetAvalibleReq, Decode,
            MonitorHandler, Start, Stream, Recycle
<1>3. ASSUME NEW r \in Reqs, Output(r) PROVE C(r)'
  <2>1. cmd[r] # "" /\ ~out[r].closed /\ UNCHANGED pc
    BY <1>3 DEF Output, reqVars
  <2>2. pc'[r] \notin {"recycle", "done"}
    BY <1>0, <2>1
  <2> QED BY <2>2
<1>4. UNCHANGED <<pc, cmd, out, sent>> => Complete'
  BY DEF Complete
<1>5. \/ UNCHANGED <<pc, cmd, out, sent>>
      \/ \E r \in Reqs : ServeHTTP(r) \/ Output(r)
  BY DEF Next, MonStart, MonTick, Disk, vars, reqVars, runVars
<1>6. (\A r \in Reqs : C(r)') => Complete'
  BY DEF Complete
<1> QED BY <1>1, <1>2, <1>3, <1>4, <1>5, <1>6

-----------------------------------------------------------------------------
Truth == Provenance /\ Complete /\ FlagHasMonitor

LEMMA TruthAnswers == Truth => AnswersAreTrue
BY DEF Truth, Provenance, Complete, AnswersAreTrue, AllLinesSent

LEMMA InitTruth == Init => Truth
<1>1. Init => Complete
  <2>1. Init => \A r \in Reqs : cmd[r] = ""
    BY DEF Init
  <2> QED BY <2>1 DEF Complete
<1>2. Init => FlagHasMonitor
  <2>1. Init => diskMonState = 0
    BY DEF Init
  <2> QED BY <2>1 DEF FlagHasMonitor
<1> QED BY <1>1, <1>2, InitProvenance DEF Truth

LEMMA StepTruth == IInv /\ Truth /\ [Next]_vars => Truth'
BY StepProvenance, StepComplete, StepFlag DEF Truth, Provenance

(* What /syscmd runs is what was sent (or, for a body without args, what   *)
(* some other body sent) in lower case, it answers all complete lines of   *)
(* the output, and a monitor really runs whenever the answer says so.      *)
THEOREM AnswersTrue == Spec => []AnswersAreTrue
<1> QED BY InitInv, StepInv, InitTruth, StepTruth, TruthAnswers, PTL DEF Spec

-----------------------------------------------------------------------------
(* The handler implements the pool.                                        *)

LEMMA InitPool == Init => RP!Init
<1> SUFFICES ASSUME Init PROVE RP!Init
  OBVIOUS
<1>1. Elems(pool) = Objs
  BY SysCmdAssumption, FullChannel, SameObjs DEF SysCmdAssumption, Init
<1>2. hold = [r \in Reqs |-> NoObj] /\ Stages = [r \in Reqs |-> "outside"]
  BY DEF Init, Stages, StageOf
<1> QED BY <1>1, <1>2 DEF RP!Init, RP!Objs, RP!NoObj, Objs, NoObj, Elems, Stages

LEMMA StepPool == IInv /\ [Next]_vars => [RP!Next]_(RP!poolVars)
<1> SUFFICES ASSUME IInv, [Next]_vars PROVE RP!Next \/ UNCHANGED RP!poolVars
  OBVIOUS
<1>0. pc \in [Reqs -> PCs]
  BY DEF IInv, TypeOK
<1>1. ASSUME UNCHANGED <<pool, hold, Stages>> PROVE UNCHANGED RP!poolVars
  BY <1>1 DEF RP!poolVars, Stages
<1>2. ASSUME NEW r \in Reqs, ReadBody(r)
      PROVE  RP!Refuse(r) \/ UNCHANGED RP!poolVars
  <2>1. UNCHANGED <<pool, hold>> /\ Stages[r] = "outside"
    BY <1>2 DEF ReadBody, Stages, StageOf, objVars
  <2>2. Stages' = [Stages EXCEPT ![r] = "left"] \/ Stages' = Stages
    BY <1>0, <1>2 DEF ReadBody, GoTo, Stages, StageOf
  <2> QED BY <1>1, <2>1, <2>2 DEF RP!Refuse, Stages
<1>3. ASSUME NEW r \in Reqs, GetAvalibleReq(r) PROVE RP!Acquire(r)
  <2>1. /\ Head(pool) \in Elems(pool) /\ Elems(pool') = Elems(pool) \ {Head(pool)}
        /\ hold' = [hold EXCEPT ![r] = Head(pool)]
    BY <1>3, ReceiveInv DEF GetAvalibleReq
  <2>2. Stages[r] = "outside" /\ Stages' = [Stages EXCEPT ![r] = "inside"]
    BY <1>0, <1>3 DEF Stages, StageOf, GetAvalibleReq, GoTo
  <2> QED BY <2>1, <2>2 DEF RP!Acquire, Elems, Stages
<1>4. ASSUME NEW r \in Reqs, Recycle(r) PROVE RP!Release(r)
  <2>1. Elems(pool') = Elems(pool) \cup {hold[r]} /\ hold' = [hold EXCEPT ![r] = NoObj]
    BY <1>4, RecycleInv DEF Recycle
  <2>2. Stages[r] = "inside" /\ Stages' = [Stages EXCEPT ![r] = "left"]
    BY <1>0, <1>4 DEF Stages, StageOf, Recycle, GoTo
  <2> QED BY <2>1, <2>2 DEF RP!Release, RP!NoObj, NoObj, Elems, Stages
<1>5. ASSUME NEW r \in Reqs, Decode(r) \/ MonitorHandler(r) \/ Start(r) \/ Stream(r)
      PROVE  UNCHANGED RP!poolVars
  <2>1. UNCHANGED <<pool, hold>>
    BY <1>5 DEF Decode, MonitorHandler, Start, Stream, objVars
  <2>2. /\ pc[r] \in {"decode", "monitor", "syscmd", "stream"}
        /\ \E to \in {"monitor", "syscmd", "stream", "recycle"} : pc' = [pc EXCEPT ![r] = to]
    BY <1>0, <1>5 DEF Decode, MonitorHandler, Start, Stream, GoTo
  <2>3. Stages' = Stages
    BY <1>0, <2>2 DEF Stages, StageOf
  <2> QED BY <1>1, <2>1, <2>3
<1>6. ASSUME \/ \E m \in Reqs : MonStart(m) \/ MonTick(m) \/ Output(m)
             \/ Disk \/ UNCHANGED vars
      PROVE  UNCHANGED RP!poolVars
  <2>1. UNCHANGED <<pc, pool, hold>>
    BY <1>6 DEF MonStart, MonTick, Output, Disk, vars, reqVars, objVars
  <2> QED BY <1>1, <2>1 DEF Stages, StageOf
<1> QED BY <1>2, <1>3, <1>4, <1>5, <1>6 DEF Next, ServeHTTP, RP!Next

(* Every execution of the handler is one of the abstract request pool.     *)
THEOREM ImplementsPool == Spec => PoolPromise
<1> QED BY InitInv, StepInv, InitPool, StepPool, PTL DEF Spec, PoolPromise, RP!Spec

(* A request inside the handler holds an object of its own, which is not in *)
(* the channel, and every object is in the channel or held: the pool        *)
(* neither leaks nor shares one (system_cmd.go:188-194).                    *)
THEOREM PoolExclusive == Spec => []RP!Exclusive
<1>1. IInv => RP!Exclusive
  <2> SUFFICES ASSUME IInv PROVE RP!Exclusive
    OBVIOUS
  <2>1. RP!Inside = {r \in Reqs : StageOf(r) = "inside"}
    BY DEF RP!Inside
  <2>2. /\ \A r \in Reqs : hold[r] # NoObj <=> r \in RP!Inside
        /\ \A r \in Reqs : hold[r] \in Objs \cup {NoObj}
        /\ \A r, s \in Reqs : hold[r] = hold[s] /\ hold[r] # NoObj => r = s
        /\ \A r \in Reqs : hold[r] \notin Elems(pool)
        /\ \A o \in Objs : o \in Elems(pool) \/ \E r \in Reqs : hold[r] = o
    BY <2>1 DEF IInv, TypeOK, Holders, Partition, Parted
  <2> QED BY <2>1, <2>2, SameObjs DEF RP!Exclusive, Elems
<1> QED BY <1>1, TypeCorrect, PTL
=============================================================================
