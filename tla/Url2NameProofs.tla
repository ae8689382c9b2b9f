--------------------------- MODULE Url2NameProofs ---------------------------
(***************************************************************************)
(* Proofs about Url2Name, for any number of requests, writers, downloads   *)
(* and failing commands: what the index promises without locks or          *)
(* transactions.                                                           *)
(***************************************************************************)
EXTENDS Url2Name, TLAPS

(* Which entry a goroutine works on while it has one.                      *)
Entries ==
  /\ \A r \in Reqs : pc[r] = "send" => entry[r] \in Adds
  /\ \A w \in Writers : wpc[w] \notin {"receive", "exited"} => wentry[w] \in Adds

Typed == TypeOK /\ Entries

(* A writer in its window found its key absent, and the key still is,      *)
(* unless windows on the key overlapped.                                   *)
WindowsHold ==
  \A w \in Writers : InWindow(w) /\ Key(wentry[w]) \in Keys \ crossed =>
    /\ hash[Key(wentry[w])] = NoName
    /\ \A x \in Writers \ {w} : InWindow(x) => Key(wentry[x]) # Key(wentry[w])

LEMMA EntryKey ==
  ASSUME NEW e \in Adds \cup Rms
  PROVE  Key(e) \in Keys /\ e.name \in Names
  BY Url2NameAssumption DEF Url2NameAssumption, Entry, Key, Keys

LEMMA InitTyped == Init => Typed
<1> SUFFICES ASSUME Init PROVE Typed
  OBVIOUS
<1>1. pc \in [Reqs -> {"start", "dispatch", "send", "hdel", "zrem", "save", "recycle", "done"}]
  BY DEF Init
<1>2. entry \in [Reqs -> Adds \cup Rms \cup {NoEntry}] /\ reply \in [Reqs -> {"", "ok", "error"}]
  BY DEF Init
<1>3. free \in Nat /\ faults \in 0..MaxFaults
  <2>1. free = RequestPoolSize /\ faults = 0
    BY DEF Init
  <2> QED BY <2>1, Url2NameAssumption DEF Url2NameAssumption
<1>4. queue \in Seq(Adds) /\ Len(queue) <= EntryPoolSize
  <2>1. queue = <<>>
    BY DEF Init
  <2> QED BY <2>1, Url2NameAssumption DEF Url2NameAssumption
<1>5. wpc \in [Writers -> {"receive", "get", "zadd", "hmset", "save", "exited"}]
  BY DEF Init
<1>6. wentry \in [Writers -> Adds \cup {NoEntry}]
  BY DEF Init
<1>7. vpc \in [Visits -> {"get", "visit", "serve", "refused"}] /\ vlink \in [Visits -> Links]
  BY DEF Init
<1>8. hash \in [Keys -> Names \cup {NoName}] /\ zset \in SUBSET Keys
  BY DEF Init
<1>9. saved \in [hash : [Keys -> Names \cup {NoName}], zset : SUBSET Keys]
  BY <1>8 DEF Init
<1>10. closed \in BOOLEAN /\ ended \in BOOLEAN /\ crossed \in SUBSET Keys /\ raced \in SUBSET Keys
  BY DEF Init
<1>11. Entries
  BY DEF Init, Entries
<1> QED BY <1>1, <1>2, <1>3, <1>4, <1>5, <1>6, <1>7, <1>8, <1>9, <1>10, <1>11 DEF Typed, TypeOK

LEMMA OutcomeType ==
  ASSUME faults \in 0..MaxFaults, NEW o, Outcome(o)
  PROVE  faults' \in 0..MaxFaults
  BY Url2NameAssumption DEF Outcome, Url2NameAssumption

LEMMA SaveType ==
  ASSUME TypeOK, Save
  PROVE  /\ saved' \in [hash : [Keys -> Names \cup {NoName}], zset : SUBSET Keys]
         /\ faults' \in 0..MaxFaults
         /\ UNCHANGED <<hash, zset>>
<1>1. PICK o : Outcome(o) /\ saved' = IF o = "err" THEN saved ELSE [hash |-> hash, zset |-> zset]
  BY DEF Save
<1>2. /\ saved \in [hash : [Keys -> Names \cup {NoName}], zset : SUBSET Keys]
      /\ [hash |-> hash, zset |-> zset] \in [hash : [Keys -> Names \cup {NoName}], zset : SUBSET Keys]
      /\ faults \in 0..MaxFaults
  BY DEF TypeOK
<1>3. faults' \in 0..MaxFaults
  BY <1>1, <1>2, OutcomeType
<1> QED BY <1>1, <1>2, <1>3 DEF Save

LEMMA RequestTyped ==
  ASSUME Typed, NEW r \in Reqs, Request(r), UNCHANGED ended
  PROVE  Typed'
<1> DEFINE PCs == {"start", "dispatch", "send", "hdel", "zrem", "save", "recycle", "done"}
<1>0. /\ TypeOK /\ Entries
      /\ pc \in [Reqs -> PCs]
      /\ entry \in [Reqs -> Adds \cup Rms \cup {NoEntry}]
      /\ reply \in [Reqs -> {"", "ok", "error"}]
      /\ free \in Nat
  BY DEF Typed, TypeOK
<1>1. CASE ServeHTTP(r)
  <2>1. pc' \in [Reqs -> PCs] /\ reply' \in [Reqs -> {"", "ok", "error"}] /\ free' \in Nat
    <3>1. free > 0 => free - 1 \in Nat
      <4>1. free \in Nat
        BY <1>0
      <4> QED BY <4>1
    <3>2. CASE pc' = [pc EXCEPT ![r] = "done"] /\ reply' = [reply EXCEPT ![r] = "error"] /\ UNCHANGED free
      BY <1>0, <3>1, <3>2
    <3>3. CASE pc' = [pc EXCEPT ![r] = "dispatch"] /\ UNCHANGED reply /\ free > 0 /\ free' = free - 1
      BY <1>0, <3>1, <3>3
    <3> QED BY <1>1, <3>2, <3>3 DEF ServeHTTP
  <2>2. UNCHANGED <<entry, queueVars, wrtVars, visVars, redisVars, crossed, raced>>
    BY <1>1 DEF ServeHTTP
  <2>3. \A q \in Reqs : pc'[q] = "send" => pc[q] = "send"
    BY <1>0, <1>1 DEF ServeHTTP
  <2> QED BY <1>0, <2>1, <2>2, <2>3 DEF Typed, TypeOK, Entries, queueVars, wrtVars, visVars, redisVars
<1>2. CASE Dispatch(r)
  <2>1. pc' \in [Reqs -> PCs] /\ reply' \in [Reqs -> {"", "ok", "error"}]
    BY <1>0, <1>2 DEF Dispatch, Answer
  <2>2. entry' \in [Reqs -> Adds \cup Rms \cup {NoEntry}]
    BY <1>0, <1>2 DEF Dispatch
  <2>3. \A q \in Reqs : pc'[q] = "send" => entry'[q] \in Adds
    BY <1>0, <1>2 DEF Dispatch, Answer, Entries
  <2> QED BY <1>0, <1>2, <2>1, <2>2, <2>3 DEF Dispatch, Typed, TypeOK, Entries, queueVars,
             wrtVars, visVars, redisVars
<1>3. CASE Send(r)
  <2>1. pc' \in [Reqs -> PCs] /\ reply' \in [Reqs -> {"", "ok", "error"}]
    BY <1>0, <1>3 DEF Send, Answer
  <2>2. queue' \in Seq(Adds) /\ Len(queue') <= EntryPoolSize
    <3>1. queue \in Seq(Adds) /\ Len(queue) <= EntryPoolSize /\ EntryPoolSize \in Nat
      BY <1>0, Url2NameAssumption DEF TypeOK, Url2NameAssumption
    <3>2. entry[r] \in Adds
      BY <1>0, <1>3 DEF Send, Entries
    <3> QED BY <1>3, <3>1, <3>2 DEF Send
  <2>3. \A q \in Reqs : pc'[q] = "send" => pc[q] = "send"
    BY <1>0, <1>3 DEF Send, Answer
  <2> QED BY <1>0, <1>3, <2>1, <2>2, <2>3 DEF Send, Typed, TypeOK, Entries, wrtVars, visVars, redisVars
<1>4. CASE HDel(r)
  <2>1. pc' \in [Reqs -> PCs] /\ reply' \in [Reqs -> {"", "ok", "error"}]
    BY <1>0, <1>4 DEF HDel, Answer
  <2>2. hash' \in [Keys -> Names \cup {NoName}]
    BY <1>0, <1>4 DEF HDel, TypeOK
  <2>3. faults' \in 0..MaxFaults
    BY <1>0, <1>4, OutcomeType DEF HDel, TypeOK
  <2>4. \A q \in Reqs : pc'[q] = "send" => pc[q] = "send"
    BY <1>0, <1>4 DEF HDel, Answer
  <2> QED BY <1>0, <1>4, <2>1, <2>2, <2>3, <2>4 DEF HDel, Typed, TypeOK, Entries, queueVars, wrtVars, visVars
<1>5. CASE ZRem(r)
  <2>1. pc' \in [Reqs -> PCs] /\ reply' \in [Reqs -> {"", "ok", "error"}]
    BY <1>0, <1>5 DEF ZRem, Answer
  <2>2. zset' \in SUBSET Keys
    BY <1>0, <1>5 DEF ZRem, TypeOK
  <2>3. faults' \in 0..MaxFaults
    BY <1>0, <1>5, OutcomeType DEF ZRem, TypeOK
  <2>4. raced' \in SUBSET Keys
    <3>1. \A w \in Writers : wpc[w] = "hmset" => Key(wentry[w]) \in Keys
      BY <1>0, EntryKey DEF Entries
    <3>2. {Key(wentry[w]) : w \in {x \in Writers : wpc[x] = "hmset"}} \subseteq Keys
      BY <3>1
    <3> QED BY <1>0, <1>5, <3>2 DEF ZRem, TypeOK
  <2>5. \A q \in Reqs : pc'[q] = "send" => pc[q] = "send"
    BY <1>0, <1>5 DEF ZRem, Answer
  <2> QED BY <1>0, <1>5, <2>1, <2>2, <2>3, <2>4, <2>5 DEF ZRem, Typed, TypeOK, Entries, queueVars, wrtVars, visVars
<1>6. CASE SaveRemoval(r)
  <2>1. pc' \in [Reqs -> PCs] /\ reply' \in [Reqs -> {"", "ok", "error"}]
    BY <1>0, <1>6 DEF SaveRemoval, Answer
  <2>2. \A q \in Reqs : pc'[q] = "send" => pc[q] = "send"
    BY <1>0, <1>6 DEF SaveRemoval, Answer
  <2>3. /\ UNCHANGED <<entry, free, queue, closed, wpc, wentry, vpc, vlink, hash, zset>>
        /\ UNCHANGED <<crossed, raced>>
    BY <1>6 DEF SaveRemoval, Save, queueVars, wrtVars, visVars
  <2>4. TypeOK'
    BY <1>0, <1>6, <2>1, <2>3, SaveType DEF SaveRemoval, TypeOK
  <2>5. Entries'
    BY <1>0, <2>2, <2>3 DEF Entries
  <2> QED BY <2>4, <2>5 DEF Typed
<1>7. CASE Recycle(r)
  <2>1. pc' \in [Reqs -> PCs] /\ entry' \in [Reqs -> Adds \cup Rms \cup {NoEntry}] /\ free' \in Nat
    <3>1. free + 1 \in Nat
      <4>1. free \in Nat
        BY <1>0
      <4> QED BY <4>1
    <3> QED BY <1>0, <1>7, <3>1 DEF Recycle
  <2>2. \A q \in Reqs : pc'[q] = "send" => pc[q] = "send" /\ entry'[q] = entry[q]
    BY <1>0, <1>7 DEF Recycle
  <2> QED BY <1>0, <1>7, <2>1, <2>2 DEF Recycle, Typed, TypeOK, Entries, queueVars, wrtVars, visVars, redisVars
<1> QED BY <1>1, <1>2, <1>3, <1>4, <1>5, <1>6, <1>7 DEF Request

LEMMA WriterTyped ==
  ASSUME Typed, NEW w \in Writers, WriteToRedis(w), UNCHANGED ended
  PROVE  Typed'
<1> DEFINE PCs == {"receive", "get", "zadd", "hmset", "save", "exited"}
<1>0. /\ TypeOK /\ Entries
      /\ wpc \in [Writers -> PCs]
      /\ wentry \in [Writers -> Adds \cup {NoEntry}]
  BY DEF Typed, TypeOK
<1>1. ASSUME NEW next \in PCs \ {"receive", "exited"},
             wpc[w] \notin {"receive", "exited"}, Proceed(w, next) \/ Continue(w)
      PROVE  /\ wpc' \in [Writers -> PCs]
             /\ wentry' \in [Writers -> Adds \cup {NoEntry}]
             /\ \A x \in Writers : wpc'[x] \notin {"receive", "exited"} => wentry'[x] \in Adds
  BY <1>0, <1>1 DEF Proceed, Continue, Entries
<1>2. wpc[w] \notin {"receive", "exited"} => Key(wentry[w]) \in Keys /\ wentry[w].name \in Names
  BY <1>0, EntryKey DEF Entries
<1>3. CASE Receive(w)
  <2>1. queue \in Seq(Adds) /\ Len(queue) <= EntryPoolSize /\ EntryPoolSize \in Nat
    BY <1>0, Url2NameAssumption DEF TypeOK, Url2NameAssumption
  <2>2. queue # <<>> => /\ Head(queue) \in Adds
                        /\ Tail(queue) \in Seq(Adds)
                        /\ Len(Tail(queue)) <= EntryPoolSize
    BY <2>1
  <2>3. queue' \in Seq(Adds) /\ Len(queue') <= EntryPoolSize
    BY <1>3, <2>1, <2>2 DEF Receive
  <2>4. /\ wpc' \in [Writers -> PCs]
        /\ wentry' \in [Writers -> Adds \cup {NoEntry}]
        /\ \A x \in Writers : wpc'[x] \notin {"receive", "exited"} => wentry'[x] \in Adds
    BY <1>0, <1>3, <2>2 DEF Receive, Entries
  <2> QED BY <1>0, <1>3, <2>3, <2>4 DEF Receive, Typed, TypeOK, Entries, reqVars, visVars, redisVars
<1>4. CASE HMGet(w)
  <2>1. faults' \in 0..MaxFaults
    BY <1>0, <1>4, OutcomeType DEF HMGet, TypeOK
  <2>2. crossed' \in SUBSET Keys
    BY <1>0, <1>2, <1>4 DEF HMGet, TypeOK
  <2>3. wpc[w] = "get" /\ (Proceed(w, "zadd") \/ Continue(w))
    BY <1>4 DEF HMGet
  <2> QED BY <1>0, <1>1, <1>4, <2>1, <2>2, <2>3 DEF HMGet, Typed, TypeOK, Entries, reqVars, queueVars, visVars
<1>5. CASE ZAdd(w)
  <2>1. faults' \in 0..MaxFaults
    BY <1>0, <1>5, OutcomeType DEF ZAdd, TypeOK
  <2>2. zset' \in SUBSET Keys
    BY <1>0, <1>2, <1>5 DEF ZAdd, TypeOK
  <2>3. wpc[w] = "zadd" /\ (Proceed(w, "hmset") \/ Continue(w))
    BY <1>5 DEF ZAdd
  <2> QED BY <1>0, <1>1, <1>5, <2>1, <2>2, <2>3 DEF ZAdd, Typed, TypeOK, Entries, reqVars, queueVars, visVars
<1>6. CASE HMSet(w)
  <2>1. faults' \in 0..MaxFaults
    BY <1>0, <1>6, OutcomeType DEF HMSet, TypeOK
  <2>2. hash' \in [Keys -> Names \cup {NoName}]
    BY <1>0, <1>2, <1>6 DEF HMSet, TypeOK
  <2>3. raced' \in SUBSET Keys
    BY <1>0, <1>2, <1>6 DEF HMSet, TypeOK
  <2>4. wpc[w] = "hmset" /\ (Proceed(w, "save") \/ Continue(w))
    BY <1>6 DEF HMSet
  <2> QED BY <1>0, <1>1, <1>6, <2>1, <2>2, <2>3, <2>4 DEF HMSet, Typed, TypeOK, Entries, reqVars, queueVars, visVars
<1>7. CASE SaveEntry(w)
  <2>1. wpc[w] = "save" /\ Continue(w)
    BY <1>7 DEF SaveEntry
  <2> QED BY <1>0, <1>1, <1>7, <2>1, SaveType DEF SaveEntry, Typed, TypeOK, Entries, reqVars, queueVars, visVars
<1> QED BY <1>3, <1>4, <1>5, <1>6, <1>7 DEF WriteToRedis

LEMMA VisitTyped ==
  ASSUME Typed, NEW v \in Visits, Lookup(v) \/ Visit(v), UNCHANGED ended
  PROVE  Typed'
<1>0. TypeOK /\ Entries /\ vlink[v] \in Keys
  BY DEF Typed, TypeOK, Keys
<1>1. vpc' \in [Visits -> {"get", "visit", "serve", "refused"}]
  <2>1. vpc \in [Visits -> {"get", "visit", "serve", "refused"}]
    BY <1>0 DEF TypeOK
  <2>2. \E at \in {"get", "visit", "serve", "refused"} : vpc' = [vpc EXCEPT ![v] = at]
    BY DEF Lookup, Visit
  <2> QED BY <2>1, <2>2
<1>2. faults' \in 0..MaxFaults
  BY <1>0, OutcomeType DEF Lookup, Visit, TypeOK
<1>3. zset' \in SUBSET Keys
  <2>1. zset \in SUBSET Keys
    BY <1>0 DEF TypeOK
  <2>2. zset' = zset \/ zset' = zset \cup {vlink[v]}
    BY DEF Lookup, Visit
  <2> QED BY <1>0, <2>1, <2>2
<1>4. /\ UNCHANGED <<pc, entry, reply, free, queue, closed, wpc, wentry, vlink, hash>>
      /\ UNCHANGED <<saved, crossed, raced>>
  BY DEF Lookup, Visit, reqVars, queueVars, wrtVars
<1>5. TypeOK'
  BY <1>0, <1>1, <1>2, <1>3, <1>4 DEF TypeOK
<1>6. Entries'
  BY <1>0, <1>4 DEF Entries
<1> QED BY <1>5, <1>6 DEF Typed

(* Every variable keeps its type, the queue its capacity.                  *)
LEMMA TypedHolds == Spec => []Typed
<1>1. Typed /\ [Next]_vars => Typed'
  <2>1. Typed /\ (Runs(Uninit) \/ End \/ UNCHANGED vars) => Typed'
    BY DEF Runs, Uninit, End, vars, Typed, TypeOK, Entries, reqVars, queueVars, wrtVars, visVars, redisVars
  <2> QED BY <2>1, RequestTyped, WriterTyped, VisitTyped DEF Next, Runs
<1> QED BY <1>1, InitTyped, PTL DEF Spec

THEOREM TypeCorrect == Spec => []TypeOK
<1>1. Typed => TypeOK
  BY DEF Typed
<1> QED BY <1>1, TypedHolds, PTL

-----------------------------------------------------------------------------
(* The first name stays.                                                   *)

(* Whatever is not a writer's step only takes names away.                  *)
LEMMA OthersOnlyRemove ==
  ASSUME Typed, [Next]_vars, ~\E w \in Writers : WriteToRedis(w)
  PROVE  /\ UNCHANGED <<wpc, wentry, crossed>>
         /\ \A k \in Keys : hash'[k] \in {hash[k], NoName}
<1>1. ASSUME NEW r \in Reqs, HDel(r)
      PROVE  /\ UNCHANGED <<wpc, wentry, crossed>>
             /\ \A k \in Keys : hash'[k] \in {hash[k], NoName}
  BY <1>1 DEF HDel, Typed, TypeOK, wrtVars
<1>2. ASSUME NEW r \in Reqs, Request(r), ~HDel(r)
      PROVE  UNCHANGED <<wpc, wentry, crossed, hash>>
  BY <1>2 DEF Request, ServeHTTP, Dispatch, Send, ZRem, SaveRemoval, Recycle, Save,
              wrtVars, redisVars
<1>3. ASSUME NEW v \in Visits, Lookup(v) \/ Visit(v)
      PROVE  UNCHANGED <<wpc, wentry, crossed, hash>>
  BY <1>3 DEF Lookup, Visit, wrtVars
<1>4. Runs(Uninit) \/ End \/ UNCHANGED vars => UNCHANGED <<wpc, wentry, crossed, hash>>
  BY DEF Runs, Uninit, End, vars, wrtVars, redisVars
<1> QED BY <1>1, <1>2, <1>3, <1>4 DEF Next, Runs

LEMMA WriterWindows ==
  ASSUME Typed, WindowsHold, NEW w \in Writers, WriteToRedis(w)
  PROVE  WindowsHold'
<1> DEFINE KeyAt(x) == Key(wentry[x])
<1>0. /\ wpc \in [Writers -> {"receive", "get", "zadd", "hmset", "save", "exited"}]
      /\ wentry \in [Writers -> Adds \cup {NoEntry}]
      /\ hash \in [Keys -> Names \cup {NoName}]
  BY DEF Typed, TypeOK
<1>1. \A x \in Writers \ {w} :
        /\ InWindow(x)' <=> InWindow(x)
        /\ wentry'[x] = wentry[x]
  BY <1>0 DEF WriteToRedis, Receive, HMGet, ZAdd, HMSet, SaveEntry, Proceed, Continue, InWindow
<1>2. ASSUME UNCHANGED <<hash, crossed>>,
             InWindow(w)' => InWindow(w) /\ wentry'[w] = wentry[w]
      PROVE  WindowsHold'
  BY <1>1, <1>2 DEF WindowsHold
<1>3. CASE Receive(w) \/ ZAdd(w) \/ SaveEntry(w)
  <2>1. UNCHANGED <<hash, crossed>>
    BY <1>3 DEF Receive, ZAdd, SaveEntry, Save, redisVars
  <2>2. InWindow(w)' => InWindow(w) /\ wentry'[w] = wentry[w]
    BY <1>0, <1>3 DEF Receive, ZAdd, SaveEntry, Proceed, Continue, InWindow
  <2> QED BY <1>2, <2>1, <2>2
<1>4. CASE HMGet(w)
  <2>1. UNCHANGED hash
    BY <1>4 DEF HMGet
  <2>2. CASE Continue(w) /\ UNCHANGED crossed
    <3>1. ~InWindow(w)'
      BY <1>0, <2>2 DEF Continue, InWindow
    <3> QED BY <1>2, <2>1, <2>2, <3>1
  <2>3. CASE /\ hash[KeyAt(w)] = NoName
             /\ Proceed(w, "zadd")
             /\ crossed' = crossed \cup ({KeyAt(w)} \cap
                  {KeyAt(x) : x \in {y \in Writers \ {w} : InWindow(y)}})
    <3>1. wentry' = wentry /\ crossed \subseteq crossed'
      BY <2>3 DEF Proceed
    <3>2. \A x \in Writers \ {w} : InWindow(x) /\ KeyAt(x) = KeyAt(w) => KeyAt(w) \in crossed'
      BY <2>3
    <3>3. \A x \in Writers : InWindow(x)' /\ KeyAt(x) \in Keys \ crossed' =>
            /\ hash[KeyAt(x)] = NoName
            /\ \A y \in Writers \ {x} : InWindow(y)' => KeyAt(y) # KeyAt(x)
      BY <1>1, <2>3, <3>1, <3>2 DEF WindowsHold
    <3> QED BY <2>1, <3>1, <3>3 DEF WindowsHold
  <2> QED BY <1>4, <2>2, <2>3 DEF HMGet
<1>5. CASE HMSet(w)
  <2>1. InWindow(w) /\ ~InWindow(w)' /\ UNCHANGED crossed
    BY <1>0, <1>5 DEF HMSet, Proceed, Continue, InWindow
  <2>2. \A k \in Keys \ {KeyAt(w)} : hash'[k] = hash[k]
    BY <1>0, <1>5 DEF HMSet
  <2>3. \A x \in Writers : InWindow(x)' => x # w /\ InWindow(x) /\ wentry'[x] = wentry[x]
    BY <1>1, <2>1
  <2> QED BY <2>1, <2>2, <2>3 DEF WindowsHold
<1> QED BY <1>3, <1>4, <1>5 DEF WriteToRedis

LEMMA StepWindows ==
  ASSUME Typed, WindowsHold, [Next]_vars
  PROVE  WindowsHold'
<1>1. CASE \E w \in Writers : WriteToRedis(w)
  BY <1>1, WriterWindows
<1>2. CASE ~\E w \in Writers : WriteToRedis(w)
  BY <1>2, OthersOnlyRemove DEF WindowsHold, InWindow
<1> QED BY <1>1, <1>2

LEMMA StepKeepsName ==
  ASSUME Typed, WindowsHold, [Next]_vars,
         NEW k \in Keys, hash[k] # NoName, hash'[k] # hash[k]
  PROVE  hash'[k] = NoName \/ k \in crossed
<1>1. CASE \E w \in Writers : WriteToRedis(w)
  <2>1. PICK w \in Writers : HMSet(w)
    BY <1>1 DEF WriteToRedis, Receive, HMGet, ZAdd, SaveEntry, Save, redisVars
  <2>2. k = Key(wentry[w]) /\ InWindow(w)
    BY <2>1 DEF HMSet, Typed, TypeOK, InWindow
  <2> QED BY <2>2 DEF WindowsHold
<1>2. CASE ~\E w \in Writers : WriteToRedis(w)
  BY <1>2, OthersOnlyRemove
<1> QED BY <1>1, <1>2

(* Whatever is added, in whatever order and with whatever failures, a key  *)
(* keeps the name it has until it is removed, unless two writers found it  *)
(* absent at the same time.  With one writer this never happens.           *)
THEOREM NameKept == Spec => FirstNameKept
<1>1. Init => WindowsHold
  BY DEF Init, WindowsHold, InWindow
<1>2. Typed /\ WindowsHold /\ [Next]_vars =>
        [\A k \in Keys : hash[k] # NoName /\ hash'[k] # hash[k] =>
           hash'[k] = NoName \/ k \in crossed]_vars
  BY StepKeepsName
<1> QED BY <1>1, <1>2, TypedHolds, StepWindows, PTL DEF Spec, FirstNameKept

-----------------------------------------------------------------------------
(* The two halves of the index agree.                                      *)

(* A key about to be set is in urltime, and a key a rm is about to take    *)
(* out of urltime has no name, unless the two interleaved.                 *)
HalvesInv ==
  /\ \A w \in Writers : wpc[w] = "hmset" => Key(wentry[w]) \in zset \cup raced
  /\ \A r \in Reqs : pc[r] = "zrem" /\ Key(entry[r]) \in Keys \ raced =>
       hash[Key(entry[r])] = NoName
  /\ IndexConsistent

LEMMA SaveHalves ==
  ASSUME IndexConsistent, Save, UNCHANGED raced
  PROVE  IndexConsistent'
<1>1. PICK o : saved' = IF o = "err" THEN saved ELSE [hash |-> hash, zset |-> zset]
  BY DEF Save
<1> QED BY <1>1 DEF Save, IndexConsistent, Indexed

LEMMA RequestHalves ==
  ASSUME Typed, HalvesInv, NEW r \in Reqs, Request(r)
  PROVE  HalvesInv'
<1>0. /\ pc \in [Reqs -> {"start", "dispatch", "send", "hdel", "zrem", "save", "recycle", "done"}]
      /\ entry \in [Reqs -> Adds \cup Rms \cup {NoEntry}]
      /\ hash \in [Keys -> Names \cup {NoName}]
  BY DEF Typed, TypeOK
<1>1. ASSUME UNCHANGED <<wpc, wentry, hash, zset, raced>>, IndexConsistent',
             \A q \in Reqs : pc'[q] = "zrem" => pc[q] = "zrem" /\ entry'[q] = entry[q]
      PROVE  HalvesInv'
  BY <1>1 DEF HalvesInv
<1>2. CASE ServeHTTP(r) \/ Dispatch(r) \/ Send(r) \/ Recycle(r)
  <2>1. UNCHANGED <<wpc, wentry, hash, zset, saved, raced>>
    BY <1>2 DEF ServeHTTP, Dispatch, Send, Recycle, wrtVars, redisVars
  <2>2. \A q \in Reqs : pc'[q] = "zrem" => pc[q] = "zrem" /\ entry'[q] = entry[q]
    BY <1>0, <1>2 DEF ServeHTTP, Dispatch, Send, Recycle, Answer
  <2>3. IndexConsistent'
    BY <2>1 DEF HalvesInv, IndexConsistent, Indexed
  <2> QED BY <1>1, <2>1, <2>2, <2>3
<1>3. CASE SaveRemoval(r)
  <2>1. UNCHANGED <<wpc, wentry, hash, zset, raced>>
    BY <1>3 DEF SaveRemoval, Save, wrtVars
  <2>2. \A q \in Reqs : pc'[q] = "zrem" => pc[q] = "zrem" /\ entry'[q] = entry[q]
    BY <1>0, <1>3 DEF SaveRemoval, Answer
  <2>3. IndexConsistent'
    BY <1>3, <2>1, SaveHalves DEF SaveRemoval, HalvesInv
  <2> QED BY <1>1, <2>1, <2>2, <2>3
<1>4. CASE HDel(r)
  <2> DEFINE k == Key(entry[r])
  <2>1. UNCHANGED <<wpc, wentry, entry, zset, saved, raced>>
    BY <1>4 DEF HDel, wrtVars
  <2>2. /\ \A j \in Keys : hash'[j] \in {hash[j], NoName}
        /\ pc'[r] = "zrem" /\ k \in Keys => hash'[k] = NoName
    BY <1>0, <1>4 DEF HDel, Answer
  <2>3. \A q \in Reqs \ {r} : pc'[q] = pc[q]
    BY <1>0, <1>4 DEF HDel, Answer
  <2>4. IndexConsistent'
    BY <2>1, <2>2 DEF HalvesInv, IndexConsistent, Indexed
  <2>5. \A q \in Reqs : pc'[q] = "zrem" /\ Key(entry[q]) \in Keys \ raced =>
          hash'[Key(entry[q])] = NoName
    BY <2>2, <2>3 DEF HalvesInv
  <2> QED BY <2>1, <2>4, <2>5 DEF HalvesInv
<1>5. CASE ZRem(r)
  <2> DEFINE k == Key(entry[r])
             SetNow == {Key(wentry[w]) : w \in {x \in Writers : wpc[x] = "hmset"}}
  <2>1. /\ UNCHANGED <<wpc, wentry, entry, hash, saved>>
        /\ zset' = zset \/ zset' = zset \ {k}
        /\ raced' = raced \cup ({k} \cap SetNow)
        /\ pc[r] = "zrem"
    BY <1>5 DEF ZRem, wrtVars
  <2>2. \A q \in Reqs : pc'[q] = "zrem" => pc[q] = "zrem"
    BY <1>0, <1>5 DEF ZRem, Answer
  <2>3. \A w \in Writers : wpc[w] = "hmset" => Key(wentry[w]) \in zset' \cup raced'
    BY <2>1 DEF HalvesInv
  <2>4. k \in Keys \ raced => hash[k] = NoName
    BY <2>1 DEF HalvesInv
  <2>5. IndexConsistent'
    BY <2>1, <2>4 DEF HalvesInv, IndexConsistent, Indexed
  <2>6. \A q \in Reqs : pc'[q] = "zrem" /\ Key(entry[q]) \in Keys \ raced' =>
          hash[Key(entry[q])] = NoName
    BY <2>1, <2>2 DEF HalvesInv
  <2> QED BY <2>1, <2>3, <2>5, <2>6 DEF HalvesInv
<1> QED BY <1>2, <1>3, <1>4, <1>5 DEF Request

LEMMA WriterHalves ==
  ASSUME Typed, HalvesInv, NEW w \in Writers, WriteToRedis(w)
  PROVE  HalvesInv'
<1> DEFINE k == Key(wentry[w])
<1>0. /\ wpc \in [Writers -> {"receive", "get", "zadd", "hmset", "save", "exited"}]
      /\ wentry \in [Writers -> Adds \cup {NoEntry}]
      /\ hash \in [Keys -> Names \cup {NoName}]
  BY DEF Typed, TypeOK
<1>1. ASSUME UNCHANGED <<pc, entry, hash, raced>>, zset \subseteq zset', IndexConsistent',
             \A x \in Writers : wpc'[x] = "hmset" =>
               \/ wpc[x] = "hmset" /\ wentry'[x] = wentry[x]
               \/ Key(wentry'[x]) \in zset'
      PROVE  HalvesInv'
  BY <1>1 DEF HalvesInv
<1>2. CASE Receive(w) \/ HMGet(w)
  <2>1. UNCHANGED <<pc, entry, hash, raced, zset, saved>>
    BY <1>2 DEF Receive, HMGet, reqVars, redisVars
  <2>2. \A x \in Writers : wpc'[x] = "hmset" => wpc[x] = "hmset" /\ wentry'[x] = wentry[x]
    BY <1>0, <1>2 DEF Receive, HMGet, Proceed, Continue
  <2>3. IndexConsistent'
    BY <2>1 DEF HalvesInv, IndexConsistent, Indexed
  <2> QED BY <1>1, <2>1, <2>2, <2>3
<1>3. CASE SaveEntry(w)
  <2>1. UNCHANGED <<pc, entry, hash, raced, zset>>
    BY <1>3 DEF SaveEntry, Save, reqVars
  <2>2. \A x \in Writers : wpc'[x] = "hmset" => wpc[x] = "hmset" /\ wentry'[x] = wentry[x]
    BY <1>0, <1>3 DEF SaveEntry, Continue
  <2>3. IndexConsistent'
    BY <1>3, <2>1, SaveHalves DEF SaveEntry, HalvesInv
  <2> QED BY <1>1, <2>1, <2>2, <2>3
<1>4. CASE ZAdd(w)
  <2>1. /\ UNCHANGED <<pc, entry, hash, raced, saved>>
        /\ zset \subseteq zset'
    BY <1>4 DEF ZAdd, reqVars
  <2>2. \A x \in Writers : wpc'[x] = "hmset" =>
          \/ wpc[x] = "hmset" /\ wentry'[x] = wentry[x]
          \/ Key(wentry'[x]) \in zset'
    BY <1>0, <1>4 DEF ZAdd, Proceed, Continue
  <2>3. IndexConsistent'
    BY <2>1 DEF HalvesInv, IndexConsistent, Indexed
  <2> QED BY <1>1, <2>1, <2>2, <2>3
<1>5. CASE HMSet(w)
  <2> DEFINE Removing == {Key(entry[r]) : r \in {x \in Reqs : pc[x] = "zrem"}}
  <2>1. /\ UNCHANGED <<pc, entry, zset, saved>>
        /\ raced' = raced \cup ({k} \cap Removing)
        /\ \A j \in Keys \ {k} : hash'[j] = hash[j]
        /\ wpc[w] = "hmset"
    BY <1>0, <1>5 DEF HMSet, reqVars
  <2>2. \A x \in Writers : wpc'[x] = "hmset" => wpc[x] = "hmset" /\ wentry'[x] = wentry[x]
    BY <1>0, <1>5 DEF HMSet, Proceed, Continue
  <2>3. k \in zset \cup raced
    BY <2>1 DEF HalvesInv
  <2>4. IndexConsistent'
    BY <2>1, <2>3 DEF HalvesInv, IndexConsistent, Indexed
  <2>5. \A r \in Reqs : pc[r] = "zrem" /\ Key(entry[r]) \in Keys \ raced' =>
          hash'[Key(entry[r])] = NoName
    BY <2>1 DEF HalvesInv
  <2> QED BY <2>1, <2>2, <2>4, <2>5 DEF HalvesInv
<1> QED BY <1>2, <1>3, <1>4, <1>5 DEF WriteToRedis

LEMMA StepHalves == Typed /\ HalvesInv /\ [Next]_vars => HalvesInv'
<1> SUFFICES ASSUME Typed, HalvesInv, [Next]_vars PROVE HalvesInv'
  OBVIOUS
<1>1. ASSUME NEW v \in Visits, Lookup(v) \/ Visit(v) PROVE HalvesInv'
  <2>1. UNCHANGED <<pc, entry, wpc, wentry, hash, saved, raced>> /\ zset \subseteq zset'
    BY <1>1 DEF Lookup, Visit, reqVars, wrtVars
  <2> QED BY <2>1 DEF HalvesInv, IndexConsistent, Indexed
<1>2. CASE Runs(Uninit) \/ End \/ UNCHANGED vars
  <2>1. UNCHANGED <<pc, entry, wpc, wentry, hash, zset, saved, raced>>
    BY <1>2 DEF Runs, Uninit, End, vars, reqVars, wrtVars, redisVars
  <2> QED BY <2>1 DEF HalvesInv, IndexConsistent, Indexed
<1> QED BY <1>1, <1>2, RequestHalves, WriterHalves DEF Next, Runs

(* A key that has a name is in urltime, in redis and in its snapshot,      *)
(* whatever fails, unless a rm and a write of the key interleaved.         *)
THEOREM IndexAgrees == Spec => []IndexConsistent
<1>1. Init => HalvesInv
  <2> SUFFICES ASSUME Init PROVE HalvesInv
    OBVIOUS
  <2>1. /\ hash = [k \in Keys |-> NoName]
        /\ saved = [hash |-> hash, zset |-> zset]
        /\ wpc = [w \in Writers |-> "receive"]
        /\ pc = [r \in Reqs |-> "start"]
    BY DEF Init
  <2> QED BY <2>1 DEF HalvesInv, IndexConsistent, Indexed
<1>2. HalvesInv => IndexConsistent
  BY DEF HalvesInv
<1> QED BY <1>1, <1>2, TypedHolds, StepHalves, PTL DEF Spec

-----------------------------------------------------------------------------
(* The snapshot keeps up.                                                  *)

(* A command executed while nothing has failed is executed and answered.   *)
LEMMA NoFault ==
  ASSUME Typed, faults' = 0
  PROVE  /\ faults \in Nat
         /\ \A o : Outcome(o) => o = "ok" /\ faults = 0
<1>1. faults \in 0..MaxFaults
  BY DEF Typed, TypeOK
<1>2. faults \in Nat
  BY <1>1, Url2NameAssumption DEF Url2NameAssumption
<1> QED BY <1>2 DEF Outcome

LEMMA SaveCatchesUp ==
  ASSUME Typed, Save, faults' = 0
  PROVE  saved'.hash = hash'
<1>1. PICK o : Outcome(o) /\ saved' = IF o = "err" THEN saved ELSE [hash |-> hash, zset |-> zset]
  BY DEF Save
<1>2. o = "ok" /\ UNCHANGED hash
  BY <1>1, NoFault DEF Save
<1> QED BY <1>1, <1>2

LEMMA StepQuiescent == Typed /\ QuiescentSaved /\ [Next]_vars => QuiescentSaved'
<1> SUFFICES ASSUME Typed, QuiescentSaved, [Next]_vars, faults' = 0,
                    \A w \in Writers : wpc'[w] # "save",
                    \A r \in Reqs : pc'[r] \notin {"zrem", "save"}
             PROVE  saved'.hash = hash'
  BY DEF QuiescentSaved
<1>0. /\ pc \in [Reqs -> {"start", "dispatch", "send", "hdel", "zrem", "save", "recycle", "done"}]
      /\ wpc \in [Writers -> {"receive", "get", "zadd", "hmset", "save", "exited"}]
  BY DEF Typed, TypeOK
<1>1. ASSUME UNCHANGED <<hash, saved>>, faults = 0,
             \A w \in Writers : wpc[w] = "save" => wpc'[w] = wpc[w],
             \A r \in Reqs : pc[r] \in {"zrem", "save"} => pc'[r] = pc[r]
      PROVE  saved'.hash = hash'
  BY <1>1 DEF QuiescentSaved
<1>2. ASSUME NEW r \in Reqs, Request(r) PROVE saved'.hash = hash'
  <2>1. CASE SaveRemoval(r)
    BY <2>1, SaveCatchesUp DEF SaveRemoval
  <2>2. CASE HDel(r) \/ ZRem(r)
    <3>1. pc'[r] \in {"zrem", "save"}
      BY <1>0, <2>2, NoFault DEF HDel, ZRem
    <3> QED BY <3>1
  <2>3. CASE ServeHTTP(r) \/ Dispatch(r) \/ Send(r) \/ Recycle(r)
    <3>1. UNCHANGED <<wpc, hash, saved, faults>>
      BY <2>3 DEF ServeHTTP, Dispatch, Send, Recycle, wrtVars, redisVars
    <3>2. \A q \in Reqs : pc[q] \in {"zrem", "save"} => pc'[q] = pc[q]
      BY <1>0, <2>3 DEF ServeHTTP, Dispatch, Send, Recycle, Answer
    <3> QED BY <1>1, <3>1, <3>2
  <2> QED BY <1>2, <2>1, <2>2, <2>3 DEF Request
<1>3. ASSUME NEW w \in Writers, WriteToRedis(w) PROVE saved'.hash = hash'
  <2>1. CASE SaveEntry(w)
    BY <2>1, SaveCatchesUp DEF SaveEntry
  <2>2. CASE HMSet(w)
    <3>1. wpc'[w] = "save"
      BY <1>0, <2>2, NoFault DEF HMSet, Proceed
    <3> QED BY <3>1
  <2>3. CASE Receive(w) \/ HMGet(w) \/ ZAdd(w)
    <3>1. UNCHANGED <<pc, hash, saved>>
      BY <2>3 DEF Receive, HMGet, ZAdd, reqVars, redisVars
    <3>2. faults = 0
      <4>1. CASE Receive(w)
        BY <4>1 DEF Receive, redisVars
      <4>2. CASE HMGet(w) \/ ZAdd(w)
        BY <4>2, NoFault DEF HMGet, ZAdd
      <4> QED BY <2>3, <4>1, <4>2
    <3>3. \A x \in Writers : wpc[x] = "save" => wpc'[x] = wpc[x]
      BY <1>0, <2>3 DEF Receive, HMGet, ZAdd, Proceed, Continue
    <3> QED BY <1>1, <3>1, <3>2, <3>3
  <2> QED BY <1>3, <2>1, <2>2, <2>3 DEF WriteToRedis
<1>4. ASSUME NEW v \in Visits, Lookup(v) \/ Visit(v) PROVE saved'.hash = hash'
  <2>1. UNCHANGED <<pc, wpc, hash, saved>>
    BY <1>4 DEF Lookup, Visit, reqVars, wrtVars
  <2>2. faults = 0
    BY <1>4, NoFault DEF Lookup, Visit
  <2> QED BY <1>1, <2>1, <2>2
<1>5. CASE Runs(Uninit) \/ End \/ UNCHANGED vars
  <2>1. UNCHANGED <<pc, wpc, hash, saved, faults>>
    BY <1>5 DEF Runs, Uninit, End, vars, reqVars, wrtVars, redisVars
  <2> QED BY <1>1, <2>1
<1> QED BY <1>2, <1>3, <1>4, <1>5 DEF Next, Runs

(* Between their saves, as long as no command failed, the snapshot holds   *)
(* exactly the names of now: every path that changes the hash is still in  *)
(* its window until a save made after the change has caught up.            *)
THEOREM SnapshotKeepsUp == Spec => []QuiescentSaved
<1>1. Init => QuiescentSaved
  <2>1. Init => saved = [hash |-> hash, zset |-> zset]
    BY DEF Init
  <2> QED BY <2>1 DEF QuiescentSaved
<1> QED BY <1>1, TypedHolds, StepQuiescent, PTL DEF Spec
=============================================================================
