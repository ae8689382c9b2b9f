---------------------------- MODULE FileOpProofs ----------------------------
(***************************************************************************)
(* Proofs about FileOp, for any requests, names, and lengths of files.     *)
(***************************************************************************)
EXTENDS FileOp, FiniteSetTheorems, TLAPS

PCs == {"start", "dispatch", "create", "copy", "rename", "remove", "move",
        "stat", "stat again", "open", "read", "recycle", "done"}
Files == [1..MaxLen -> Chunks]

TypeOK ==
  /\ uploadType \in UploadTypes
  /\ pc \in [Reqs -> PCs]
  /\ reply \in [Reqs -> {"", "ok", "error"}]
  /\ free \in Nat
  /\ name \in [Reqs -> Names] /\ alt \in [Reqs -> Names]
  /\ size \in [Reqs -> Nat] /\ pos \in [Reqs -> Nat]
  /\ fd \in [Reqs -> Inodes \cup {NoFile}]
  /\ got \in [Reqs -> Files]
  /\ tmp \in [Names -> Inodes \cup {NoFile}]
  /\ store \in [Names -> Inodes \cup {NoFile}]
  /\ data \in [Inodes -> Files]
  /\ astray \in SUBSET Reqs /\ contested \in SUBSET Names

\* What a request knows of itself.
Direct(r) == pc[r] \in {"create", "copy", "rename", "remove"}

Local(r) ==
  /\ pc[r] \in {"start", "dispatch"} => size[r] = 0
  /\ pc[r] \notin {"copy", "rename", "remove", "move", "read", "recycle", "done"} => pos[r] = 0
  /\ pc[r] \notin {"read", "recycle", "done"} => got[r] = Empty
  /\ pc[r] \notin {"recycle", "done"} => reply[r] = ""
  /\ Direct(r) => uploadType = upload_direct /\ size[r] > 0
  /\ pc[r] = "move" => uploadType = ngx_fastcgi /\ size[r] <= MaxParts
  /\ pc[r] = "rename" => pos[r] = size[r]
  /\ pc[r] = "read" => pos[r] < MaxLen
  /\ Uploading(r) \/ pc[r] = "read" => fd[r] \in Inodes
  /\ r \in astray => /\ pc[r] \in {"copy", "rename", "remove", "recycle", "done"}
                      /\ name[r] \in contested

Typed == TypeOK /\ \A r \in Reqs : Local(r)

LEMMA Constants ==
  /\ MaxLen \in Nat \ {0} /\ MaxParts \in Nat \ {0} /\ RequestPoolSize \in Nat \ {0}
  /\ NoFile \notin Inodes
  /\ \A r \in Reqs : Own(r) \in Inodes
  /\ Empty \in Files
  /\ \A i \in Inodes, n \in Nat : Content(i, n) \in Files
<1>1. /\ MaxLen \in Nat \ {0} /\ MaxParts \in Nat \ {0} /\ RequestPoolSize \in Nat \ {0}
      /\ NoFile \notin Inodes
  BY FileOpAssumption DEF FileOpAssumption
<1>2. 1 \in 1..MaxParts
  BY <1>1
<1>3. \A r \in Reqs : Own(r) \in Inodes
  BY <1>2 DEF Own, Inodes
<1> QED BY <1>1, <1>3 DEF Empty, Content, Files, Chunks

LEMMA InitTyped == Init => Typed
<1> SUFFICES ASSUME Init PROVE Typed
  OBVIOUS
<1>1. free \in Nat
  <2>1. free = RequestPoolSize
    BY DEF Init
  <2> QED BY <2>1, Constants
<1>2. TypeOK
  BY <1>1, Constants DEF Init, TypeOK, PCs
<1>3. ASSUME NEW r \in Reqs PROVE Local(r)
  <2>1. pc[r] = "start" /\ pos[r] = 0 /\ size[r] = 0 /\ got[r] = Empty /\ reply[r] = ""
        /\ r \notin astray
    BY DEF Init
  <2> QED BY <2>1 DEF Local, Direct, Uploading
<1> QED BY <1>2, <1>3 DEF Typed

\* A step of a request leaves the others where they are.
Same(q) ==
  /\ pc'[q] = pc[q] /\ reply'[q] = reply[q]
  /\ name'[q] = name[q] /\ alt'[q] = alt[q] /\ size'[q] = size[q] /\ pos'[q] = pos[q]
  /\ fd'[q] = fd[q] /\ got'[q] = got[q] /\ (q \in astray' <=> q \in astray)

LEMMA Frame ==
  ASSUME TypeOK, NEW r \in Reqs, Request(r)
  PROVE  \A q \in Reqs \ {r} : Same(q)
<1> USE DEF TypeOK, Same, Answer, workVars
<1>1. CASE ServeHTTP(r) \/ AnswerAtOnce(r) \/ Recycle(r)
  BY <1>1 DEF ServeHTTP, AnswerAtOnce, Recycle
<1>2. CASE DirectUpload(r) \/ Create(r) \/ CreateInStore(r)
  BY <1>2 DEF DirectUpload, Create, CreateInStore
<1>3. CASE Copy(r) \/ Rename(r) \/ Remove(r)
  BY <1>3 DEF Copy, Rename, Remove
<1>4. CASE FastcgiUpload(r) \/ Move(r)
  BY <1>4 DEF FastcgiUpload, Move
<1>5. CASE Download(r) \/ Stat(r) \/ StatAgain(r)
  BY <1>5 DEF Download, Stat, StatAgain
<1>6. CASE Open(r)
  BY <1>6 DEF Open
<1>7. CASE Read(r)
  BY <1>7 DEF Read
<1> QED BY <1>1, <1>2, <1>3, <1>4, <1>5, <1>6, <1>7 DEF Request

\* What a step may do to each variable.
LEMMA Changes ==
  ASSUME NEW r \in Reqs, Request(r)
  PROVE  /\ pc' = pc \/ \E p \in PCs : pc' = [pc EXCEPT ![r] = p]
         /\ \/ reply' = reply
            \/ \E s \in {"ok", "error"} : reply' = [reply EXCEPT ![r] = s]
         /\ free' = free \/ free' = free + 1 \/ (free > 0 /\ free' = free - 1)
         /\ name' = name \/ name' = [name EXCEPT ![r] = alt[r]]
         /\ alt' = alt \/ \E n \in Names : alt' = [alt EXCEPT ![r] = n]
         /\ size' = size \/ \E n \in 1..MaxLen \cup 1..MaxParts : size' = [size EXCEPT ![r] = n]
         /\ pos' = pos \/ pos' = [pos EXCEPT ![r] = pos[r] + 1]
         /\ \/ fd' = fd
            \/ fd' = [fd EXCEPT ![r] = Own(r)]
            \/ fd' = [fd EXCEPT ![r] = tmp[name[r]]]
            \/ fd' = [fd EXCEPT ![r] = store[name[r]]]
         /\ \/ got' = got
            \/ got' = [got EXCEPT ![r][pos[r] + 1] = data[fd[r]][pos[r] + 1]]
         /\ \/ tmp' = tmp
            \/ tmp' = [tmp EXCEPT ![name[r]] = NoFile]
            \/ tmp' = [tmp EXCEPT ![name[r]] = Own(r)]
            \/ tmp' = [tmp EXCEPT ![name[r]] = tmp[name[r]]]
         /\ \/ store' = store
            \/ store' = [store EXCEPT ![name[r]] = tmp[name[r]]]
            \/ store' = [store EXCEPT ![name[r]] = NoFile]
            \/ store' = [store EXCEPT ![name[r]] = Own(r)]
            \/ store' = [store EXCEPT ![name[r]] = store[name[r]]]
            \/ /\ pc[r] = "move" /\ pos[r] < size[r]
               /\ store' = [store EXCEPT ![name[r]] = <<r, pos[r] + 1>>]
         /\ \/ data' = data
            \/ data' = [data EXCEPT ![Own(r)] = Empty]
            \/ data' = [data EXCEPT ![tmp[name[r]]] = Empty]
            \/ data' = [data EXCEPT ![store[name[r]]] = Empty]
            \/ data' = [data EXCEPT ![fd[r]][pos[r] + 1] = Own(r)]
            \/ data' = [i \in Inodes |-> IF i[1] = r THEN Content(i, MaxLen) ELSE data[i]]
         /\ contested' = contested \/ contested' = contested \cup {name[r]}
         /\ astray' = astray \/ astray' = astray \cup {r}
<1> USE DEF Request, ServeHTTP, AnswerAtOnce, DirectUpload, Create, CreateInStore,
            Copy, Rename, Leave, Remove,
            FastcgiUpload, Move, Download, Stat, StatAgain, Open, Read, Recycle, Answer,
            reqVars, workVars, fsVars
<1>1. pc' = pc \/ \E p \in PCs : pc' = [pc EXCEPT ![r] = p]
  BY DEF PCs
<1>2. \/ reply' = reply
      \/ \E s \in {"ok", "error"} : reply' = [reply EXCEPT ![r] = s]
  OBVIOUS
<1>3. free' = free \/ free' = free + 1 \/ (free > 0 /\ free' = free - 1)
  OBVIOUS
<1>4. name' = name \/ name' = [name EXCEPT ![r] = alt[r]]
  OBVIOUS
<1>5. alt' = alt \/ \E n \in Names : alt' = [alt EXCEPT ![r] = n]
  OBVIOUS
<1>6. size' = size \/ \E n \in 1..MaxLen \cup 1..MaxParts : size' = [size EXCEPT ![r] = n]
  OBVIOUS
<1>7. pos' = pos \/ pos' = [pos EXCEPT ![r] = pos[r] + 1]
  OBVIOUS
<1>8. /\ \/ fd' = fd
         \/ fd' = [fd EXCEPT ![r] = Own(r)]
         \/ fd' = [fd EXCEPT ![r] = tmp[name[r]]]
         \/ fd' = [fd EXCEPT ![r] = store[name[r]]]
      /\ \/ got' = got
         \/ got' = [got EXCEPT ![r][pos[r] + 1] = data[fd[r]][pos[r] + 1]]
  OBVIOUS
<1>9. \/ tmp' = tmp
      \/ tmp' = [tmp EXCEPT ![name[r]] = NoFile]
      \/ tmp' = [tmp EXCEPT ![name[r]] = Own(r)]
      \/ tmp' = [tmp EXCEPT ![name[r]] = tmp[name[r]]]
  OBVIOUS
<1>10. \/ store' = store
       \/ store' = [store EXCEPT ![name[r]] = tmp[name[r]]]
       \/ store' = [store EXCEPT ![name[r]] = NoFile]
       \/ store' = [store EXCEPT ![name[r]] = Own(r)]
       \/ store' = [store EXCEPT ![name[r]] = store[name[r]]]
       \/ /\ pc[r] = "move" /\ pos[r] < size[r]
          /\ store' = [store EXCEPT ![name[r]] = <<r, pos[r] + 1>>]
  OBVIOUS
<1>11. \/ data' = data
       \/ data' = [data EXCEPT ![Own(r)] = Empty]
       \/ data' = [data EXCEPT ![tmp[name[r]]] = Empty]
       \/ data' = [data EXCEPT ![store[name[r]]] = Empty]
       \/ data' = [data EXCEPT ![fd[r]][pos[r] + 1] = Own(r)]
       \/ data' = [i \in Inodes |-> IF i[1] = r THEN Content(i, MaxLen) ELSE data[i]]
  OBVIOUS
<1>12. /\ contested' = contested \/ contested' = contested \cup {name[r]}
       /\ astray' = astray \/ astray' = astray \cup {r}
  <2>1. contested \cup ({name[r]} \cap {name[q] : q \in {x \in Reqs : Uploading(x)}})
          \in {contested, contested \cup {name[r]}}
    OBVIOUS
  <2> QED BY <2>1
<1> QED BY <1>1, <1>2, <1>3, <1>4, <1>5, <1>6, <1>7, <1>8, <1>9, <1>10, <1>11, <1>12

LEMMA RequestType ==
  ASSUME Typed, NEW r \in Reqs, Request(r), UNCHANGED uploadType
  PROVE  TypeOK'
<1>1. pc' \in [Reqs -> PCs] /\ reply' \in [Reqs -> {"", "ok", "error"}]
  <2>1. pc \in [Reqs -> PCs] /\ reply \in [Reqs -> {"", "ok", "error"}]
    BY DEF Typed, TypeOK
  <2>2. /\ pc' = pc \/ \E p \in PCs : pc' = [pc EXCEPT ![r] = p]
        /\ \/ reply' = reply
           \/ \E s \in {"ok", "error"} : reply' = [reply EXCEPT ![r] = s]
    BY Changes
  <2> QED BY <2>1, <2>2
<1>2. free' \in Nat
  <2>1. free \in Nat
    BY DEF Typed, TypeOK
  <2>2. free' = free \/ free' = free + 1 \/ (free > 0 /\ free' = free - 1)
    BY Changes
  <2> QED BY <2>1, <2>2
<1>3. name' \in [Reqs -> Names] /\ alt' \in [Reqs -> Names]
  <2>1. name \in [Reqs -> Names] /\ alt \in [Reqs -> Names]
    BY DEF Typed, TypeOK
  <2>2. /\ name' = name \/ name' = [name EXCEPT ![r] = alt[r]]
        /\ alt' = alt \/ \E n \in Names : alt' = [alt EXCEPT ![r] = n]
    BY Changes
  <2> QED BY <2>1, <2>2
<1>4. size' \in [Reqs -> Nat] /\ pos' \in [Reqs -> Nat]
  <2>1. size \in [Reqs -> Nat] /\ pos \in [Reqs -> Nat]
    BY DEF Typed, TypeOK
  <2>2. /\ size' = size \/ \E n \in 1..MaxLen \cup 1..MaxParts : size' = [size EXCEPT ![r] = n]
        /\ pos' = pos \/ pos' = [pos EXCEPT ![r] = pos[r] + 1]
    BY Changes
  <2>3. 1..MaxLen \subseteq Nat /\ 1..MaxParts \subseteq Nat
    BY Constants
  <2>4. pos[r] + 1 \in Nat
    BY <2>1
  <2> QED BY <2>1, <2>2, <2>3, <2>4
<1>5. fd' \in [Reqs -> Inodes \cup {NoFile}] /\ tmp' \in [Names -> Inodes \cup {NoFile}]
  <2>1. /\ fd \in [Reqs -> Inodes \cup {NoFile}]
        /\ tmp \in [Names -> Inodes \cup {NoFile}] /\ store \in [Names -> Inodes \cup {NoFile}]
        /\ name[r] \in Names
    BY DEF Typed, TypeOK
  <2>2. \/ fd' = fd
        \/ fd' = [fd EXCEPT ![r] = Own(r)]
        \/ fd' = [fd EXCEPT ![r] = tmp[name[r]]]
        \/ fd' = [fd EXCEPT ![r] = store[name[r]]]
    BY Changes
  <2>3. \/ tmp' = tmp
        \/ tmp' = [tmp EXCEPT ![name[r]] = NoFile]
        \/ tmp' = [tmp EXCEPT ![name[r]] = Own(r)]
        \/ tmp' = [tmp EXCEPT ![name[r]] = tmp[name[r]]]
    BY Changes
  <2>4. Own(r) \in Inodes
    BY Constants
  <2> QED BY <2>1, <2>2, <2>3, <2>4
<1>6. store' \in [Names -> Inodes \cup {NoFile}]
  <2>1. ASSUME pc[r] = "move", pos[r] < size[r] PROVE <<r, pos[r] + 1>> \in Inodes
    <3>1. pos[r] \in Nat /\ size[r] \in Nat /\ size[r] <= MaxParts
      BY <2>1 DEF Typed, TypeOK, Local
    <3>2. pos[r] + 1 \in 1..MaxParts
      BY <2>1, <3>1, Constants
    <3> QED BY <3>2 DEF Inodes
  <2>2. /\ tmp \in [Names -> Inodes \cup {NoFile}] /\ store \in [Names -> Inodes \cup {NoFile}]
        /\ name[r] \in Names
    BY DEF Typed, TypeOK
  <2>3. \/ store' = store
        \/ store' = [store EXCEPT ![name[r]] = tmp[name[r]]]
        \/ store' = [store EXCEPT ![name[r]] = NoFile]
        \/ store' = [store EXCEPT ![name[r]] = Own(r)]
        \/ store' = [store EXCEPT ![name[r]] = store[name[r]]]
        \/ /\ pc[r] = "move" /\ pos[r] < size[r]
           /\ store' = [store EXCEPT ![name[r]] = <<r, pos[r] + 1>>]
    BY Changes
  <2>4. Own(r) \in Inodes
    BY Constants
  <2> QED BY <2>1, <2>2, <2>3, <2>4
<1>7. got' \in [Reqs -> Files]
  <2>1. got \in [Reqs -> Files]
    BY DEF Typed, TypeOK
  <2>2. ASSUME got' # got
        PROVE  /\ got' = [got EXCEPT ![r] = [@ EXCEPT ![pos[r] + 1] = data[fd[r]][pos[r] + 1]]]
               /\ pos[r] + 1 \in 1..MaxLen /\ data[fd[r]] \in Files
    <3>1. Read(r)
      BY <2>2 DEF Request, ServeHTTP, AnswerAtOnce, DirectUpload, Create, CreateInStore,
            Copy, Rename, Leave, Remove,
            FastcgiUpload, Move, Download, Stat, StatAgain, Open, Recycle, workVars
    <3>2. /\ got' = [got EXCEPT ![r] = [@ EXCEPT ![pos[r] + 1] = data[fd[r]][pos[r] + 1]]]
          /\ pc[r] = "read" /\ pos[r] < MaxLen
      BY <3>1 DEF Read
    <3>3. pos[r] \in Nat /\ fd[r] \in Inodes /\ data \in [Inodes -> Files]
      BY <3>2 DEF Typed, TypeOK, Local
    <3>4. pos[r] + 1 \in 1..MaxLen
      BY <3>2, <3>3, Constants
    <3> QED BY <3>2, <3>3, <3>4
  <2>3. ASSUME NEW k \in 1..MaxLen, NEW f \in Files
        PROVE  [got[r] EXCEPT ![k] = f[k]] \in Files
    BY <2>1 DEF Files
  <2> QED BY <2>1, <2>2, <2>3
<1>8. data' \in [Inodes -> Files]
  <2>1. data \in [Inodes -> Files] /\ Own(r) \in Chunks /\ pos[r] + 1 \in Nat
    <3>1. pos[r] \in Nat
      BY DEF Typed, TypeOK
    <3>2. pos[r] + 1 \in Nat
      BY <3>1
    <3>3. data \in [Inodes -> Files]
      BY DEF Typed, TypeOK
    <3>4. Own(r) \in Chunks
      BY Constants DEF Chunks
    <3> QED BY <3>2, <3>3, <3>4
  <2>2. \/ data' = data
        \/ data' = [data EXCEPT ![Own(r)] = Empty]
        \/ data' = [data EXCEPT ![tmp[name[r]]] = Empty]
        \/ data' = [data EXCEPT ![store[name[r]]] = Empty]
        \/ data' = [data EXCEPT ![fd[r]][pos[r] + 1] = Own(r)]
        \/ data' = [i \in Inodes |-> IF i[1] = r THEN Content(i, MaxLen) ELSE data[i]]
    BY Changes
  <2>3. ASSUME NEW k \in Nat, NEW i, data' = [data EXCEPT ![i][k] = Own(r)]
        PROVE  data' \in [Inodes -> Files]
    BY <2>1, <2>3 DEF Files
  <2>4. ASSUME NEW i, data' = [data EXCEPT ![i] = Empty]
        PROVE  data' \in [Inodes -> Files]
    BY <2>1, <2>4, Constants
  <2>5. ASSUME data' = [i \in Inodes |-> IF i[1] = r THEN Content(i, MaxLen) ELSE data[i]]
        PROVE  data' \in [Inodes -> Files]
    BY <2>1, <2>5, Constants
  <2> QED BY <2>1, <2>2, <2>3, <2>4, <2>5
<1>9. astray' \in SUBSET Reqs /\ contested' \in SUBSET Names
  <2>1. name \in [Reqs -> Names] /\ contested \in SUBSET Names /\ astray \in SUBSET Reqs
    BY DEF Typed, TypeOK
  <2>2. /\ contested' = contested \/ contested' = contested \cup {name[r]}
        /\ astray' = astray \/ astray' = astray \cup {r}
    BY Changes
  <2> QED BY <2>1, <2>2
<1> QED BY <1>1, <1>2, <1>3, <1>4, <1>5, <1>6, <1>7, <1>8, <1>9 DEF Typed, TypeOK

\* Only the pc of a step's request moves; it and what its case says of the
\* other variables give Local.
LEMMA RequestLocal ==
  ASSUME Typed, NEW r \in Reqs, Request(r), UNCHANGED uploadType
  PROVE  Local(r)'
<1>0. /\ Local(r) /\ pc \in [Reqs -> PCs] /\ reply \in [Reqs -> {"", "ok", "error"}]
      /\ size \in [Reqs -> Nat] /\ pos \in [Reqs -> Nat] /\ pos[r] \in Nat /\ size[r] \in Nat
      /\ fd \in [Reqs -> Inodes \cup {NoFile}] /\ got \in [Reqs -> Files]
      /\ name[r] \in Names
  BY DEF Typed, TypeOK
<1> USE DEF Answer, Local, Direct, Uploading, workVars
<1>1. CASE ServeHTTP(r) \/ AnswerAtOnce(r) \/ Recycle(r)
  BY <1>0, <1>1 DEF ServeHTTP, AnswerAtOnce, Recycle
<1>2. CASE DirectUpload(r)
  <2>1. \E n \in 1..MaxLen : size' = [size EXCEPT ![r] = n]
    BY <1>2 DEF DirectUpload
  <2>2. size'[r] > 0
    <3> HIDE DEF Local
    <3>1. size'[r] \in 1..MaxLen
      BY <1>0, <2>1
    <3> QED BY <3>1, Constants
  <2> QED BY <1>0, <1>2, <2>2 DEF DirectUpload
<1>3. CASE Create(r)
  <2>1. CASE reply' = [reply EXCEPT ![r] = "error"]
    BY <1>0, <1>3, <2>1 DEF Create
  <2>2. CASE /\ pc' = [pc EXCEPT ![r] = "copy"] /\ reply' = reply
             /\ fd' = [fd EXCEPT ![r] = IF tmp[name[r]] = NoFile THEN Own(r) ELSE tmp[name[r]]]
    <3>1. fd'[r] \in Inodes
      <4>1. Own(r) \in Inodes /\ tmp[name[r]] \in Inodes \cup {NoFile}
        BY <1>0, Constants DEF Typed, TypeOK
      <4> QED BY <1>0, <2>2, <4>1
    <3> QED BY <1>0, <1>3, <2>2, <3>1 DEF Create
  <2> QED BY <1>3, <2>1, <2>2 DEF Create
<1>11. CASE CreateInStore(r)
  <2>1. /\ pc' = [pc EXCEPT ![r] = "copy"] /\ pc[r] = "create"
        /\ fd' = [fd EXCEPT ![r] = IF store[name[r]] = NoFile THEN Own(r) ELSE store[name[r]]]
        /\ name[r] \in contested'
        /\ UNCHANGED <<reply, name, size, pos, got>>
    BY <1>11 DEF CreateInStore
  <2>2. fd'[r] \in Inodes
    <3>1. Own(r) \in Inodes /\ store[name[r]] \in Inodes \cup {NoFile}
      BY <1>0, Constants DEF Typed, TypeOK
    <3> QED BY <1>0, <2>1, <3>1
  <2> QED BY <1>0, <2>1, <2>2
<1>4. CASE Copy(r)
  BY <1>0, <1>4 DEF Copy
<1>5. CASE Rename(r) \/ Remove(r)
  BY <1>0, <1>5 DEF Rename, Remove
<1>6. CASE FastcgiUpload(r)
  <2>1. \E n \in 1..MaxParts : size' = [size EXCEPT ![r] = n]
    BY <1>6 DEF FastcgiUpload
  <2>2. size'[r] <= MaxParts
    <3> HIDE DEF Local
    <3>1. size'[r] \in 1..MaxParts
      BY <1>0, <2>1
    <3> QED BY <3>1, Constants
  <2> QED BY <1>0, <1>6, <2>2 DEF FastcgiUpload
<1>7. CASE Move(r)
  BY <1>0, <1>7 DEF Move
<1>8. CASE Download(r) \/ Stat(r) \/ StatAgain(r)
  BY <1>0, <1>8 DEF Download, Stat, StatAgain
<1>9. CASE Open(r)
  <2>1. store[name[r]] \in Inodes \cup {NoFile} /\ 0 < MaxLen
    <3>1. store[name[r]] \in Inodes \cup {NoFile}
      BY <1>0 DEF Typed, TypeOK
    <3> QED BY <3>1, Constants
  <2> QED BY <1>0, <1>9, <2>1 DEF Open
<1>10. CASE Read(r)
  <2>1. /\ pc[r] = "read" /\ UNCHANGED <<size, fd, astray>> /\ pos' = [pos EXCEPT ![r] = pos[r] + 1]
        /\ \/ pc'[r] = "recycle"
           \/ pc'[r] = "read" /\ pos[r] + 1 # MaxLen /\ reply' = reply
    BY <1>0, <1>10 DEF Read
  <2>2. pos[r] < MaxLen /\ pos'[r] = pos[r] + 1
    BY <1>0, <2>1
  <2>3. pos[r] + 1 # MaxLen => pos'[r] < MaxLen
    <3>1. pos[r] \in Nat /\ MaxLen \in Nat
      BY <1>0, Constants
    <3> QED BY <2>2, <3>1
  <2> QED BY <1>0, <2>1, <2>3
<1> QED BY <1>1, <1>2, <1>3, <1>4, <1>5, <1>6, <1>7, <1>8, <1>9, <1>10, <1>11 DEF Request

LEMMA StepTyped == Typed /\ [Next]_vars => Typed'
<1> SUFFICES ASSUME Typed, [Next]_vars PROVE Typed'
  OBVIOUS
<1>1. ASSUME NEW r \in Reqs, Request(r), UNCHANGED uploadType PROVE Typed'
  <2>1. \A q \in Reqs \ {r} : Same(q)
    BY <1>1, Frame DEF Typed
  <2>2. ASSUME NEW q \in Reqs \ {r} PROVE Local(q)'
    <3>1. contested \subseteq contested'
      BY <1>1, Changes
    <3> QED BY <1>1, <2>1, <3>1 DEF Typed, Local, Direct, Uploading, Same, Empty
  <2> QED BY <1>1, <2>2, RequestType, RequestLocal DEF Typed
<1>2. CASE UNCHANGED vars
  BY <1>2 DEF vars, reqVars, workVars, fsVars, Typed, TypeOK, Local, Direct, Uploading
<1> QED BY <1>1, <1>2 DEF Next

-----------------------------------------------------------------------------
(* The request objects.                                                    *)

Inside == {r \in Reqs : pc[r] \notin {"start", "done"}}

Counted == IsFiniteSet(Inside) /\ PoolConserved

LEMMA InitCounted == Init => Counted
<1> SUFFICES ASSUME Init PROVE Counted
  OBVIOUS
<1>1. Inside = {} /\ free = RequestPoolSize
  BY DEF Init, Inside
<1>2. IsFiniteSet(Inside) /\ Cardinality(Inside) = 0
  BY <1>1, FS_EmptySet
<1> QED BY <1>1, <1>2, Constants DEF Counted, PoolConserved, Inside

LEMMA StepCounted == Typed /\ Counted /\ [Next]_vars => Counted'
<1> SUFFICES ASSUME Typed, Counted, [Next]_vars PROVE Counted'
  OBVIOUS
<1>0. /\ pc \in [Reqs -> PCs] /\ free \in Nat
      /\ IsFiniteSet(Inside) /\ free + Cardinality(Inside) = RequestPoolSize
      /\ Cardinality(Inside) \in Nat
  BY FS_CardinalityType DEF Typed, TypeOK, Counted, PoolConserved, Inside
<1>1. ASSUME IsFiniteSet(Inside'), free' + Cardinality(Inside') = RequestPoolSize
      PROVE  Counted'
  BY <1>1 DEF Counted, PoolConserved, Inside
<1>2. ASSUME UNCHANGED <<free, Inside>> PROVE Counted'
  BY <1>0, <1>1, <1>2
<1>3. ASSUME NEW r \in Reqs, ServeHTTP(r) PROVE Counted'
  <2>1. CASE UNCHANGED free /\ pc' = [pc EXCEPT ![r] = "done"]
    <3>1. Inside' = Inside
      BY <1>0, <1>3, <2>1 DEF ServeHTTP, Inside
    <3> QED BY <1>2, <2>1, <3>1
  <2>2. CASE free' = free - 1 /\ pc' = [pc EXCEPT ![r] = "dispatch"]
    <3>1. r \notin Inside /\ Inside' = Inside \cup {r}
      BY <1>0, <1>3, <2>2 DEF ServeHTTP, Inside
    <3>2. IsFiniteSet(Inside') /\ Cardinality(Inside') = Cardinality(Inside) + 1
      BY <1>0, <3>1, FS_AddElement
    <3> QED BY <1>0, <1>1, <2>2, <3>2
  <2> QED BY <1>3, <2>1, <2>2 DEF ServeHTTP
<1>4. ASSUME NEW r \in Reqs, Recycle(r) PROVE Counted'
  <2>1. r \in Inside /\ Inside' = Inside \ {r} /\ free' = free + 1
    BY <1>0, <1>4 DEF Recycle, Inside
  <2>2. IsFiniteSet(Inside') /\ Cardinality(Inside') = Cardinality(Inside) - 1
    BY <1>0, <2>1, FS_RemoveElement
  <2> QED BY <1>0, <1>1, <2>1, <2>2
<1>5. ASSUME NEW r \in Reqs, Request(r), ~ServeHTTP(r), ~Recycle(r) PROVE Counted'
  <2>1. /\ UNCHANGED free
        /\ pc[r] \notin {"start", "done"}
        /\ pc' = pc \/ \E p \in PCs \ {"start", "done"} : pc' = [pc EXCEPT ![r] = p]
    BY <1>5 DEF Request, AnswerAtOnce, DirectUpload, Create, CreateInStore,
            Copy, Rename, Leave, Remove,
            FastcgiUpload, Move, Download, Stat, StatAgain, Open, Read, Answer, reqVars, PCs
  <2>2. Inside' = Inside
    BY <1>0, <2>1 DEF Inside
  <2> QED BY <1>2, <2>1, <2>2
<1>6. UNCHANGED vars => UNCHANGED <<free, Inside>>
  BY DEF vars, reqVars, Inside
<1> QED BY <1>2, <1>3, <1>4, <1>5, <1>6 DEF Next

(* Every request object is in the pool or with exactly one request that is *)
(* still served: none is lost on any path through the handler.             *)
THEOREM ObjectsConserved == Spec => []PoolConserved
<1>1. Counted => PoolConserved
  BY DEF Counted
<1> QED BY <1>1, InitTyped, StepTyped, InitCounted, StepCounted, PTL DEF Spec

-----------------------------------------------------------------------------
(* The files.  An inode has the name of the request it was made for, once  *)
(* this has made it; nothing renames it to another.                        *)
Named(i, n) ==
  /\ i \in Inodes
  /\ name[i[1]] = n
  /\ pc[i[1]] \in {"copy", "rename", "remove", "move", "recycle", "done"}

\* Where inodes are: under their own names, in one directory at most.
Placed ==
  /\ \A n \in Names : tmp[n] # NoFile => Named(tmp[n], n) /\ uploadType = upload_direct
  /\ \A n \in Names : store[n] # NoFile => Named(store[n], n) /\ store[n] # tmp[n]
  /\ \A r \in Reqs : Uploading(r) \/ pc[r] = "read" => Named(fd[r], name[r])

\* A direct upload that met no other of its name: the file it writes is the
\* temporary one, and holds what it copied.
Alone ==
  \A r \in Reqs : Uploading(r) /\ name[r] \notin contested =>
    /\ tmp[name[r]] = fd[r]
    /\ data[fd[r]] = Content(Own(r), pos[r])
    /\ \A q \in Reqs \ {r} : Uploading(q) => name[q] # name[r]

\* nginx has written the files of a form before it sends the form.
Formed ==
  \A r \in Reqs : pc[r] = "move" =>
    \A p \in 1..MaxParts : data[<<r, p>>] = Content(<<r, p>>, MaxLen)

\* A download has read the beginning of one whole file that nobody writes.
Prefix(file, n) == [i \in 1..MaxLen |-> IF i <= n THEN file[i] ELSE Hole]

Reading ==
  \A r \in Reqs : pc[r] = "read" /\ name[r] \notin contested =>
    /\ fd[r] # tmp[name[r]]
    /\ Whole(data[fd[r]])
    /\ got[r] = Prefix(data[fd[r]], pos[r])

\* What a download has read when it is over.
Served ==
  \A r \in Reqs : pc[r] \in {"recycle", "done"} /\ got[r] # Empty =>
    Whole(got[r]) \/ name[r] \in contested

Found == \A r \in Reqs : pc[r] = "open" => store[name[r]] # NoFile \/ name[r] \in contested

FInv == Placed /\ Alone /\ Formed /\ StoredWhole /\ Reading /\ Served /\ Found

\* One more chunk.
LEMMA ContentNext ==
  ASSUME NEW i, NEW n \in Nat
  PROVE  /\ Content(i, 0) = Empty
         /\ [Content(i, n) EXCEPT ![n + 1] = i] = Content(i, n + 1)
<1>1. MaxLen \in Nat
  BY Constants
<1>2. Content(i, 0) = Empty
  BY <1>1 DEF Content, Empty
<1>3. \A k \in 1..MaxLen : k <= n + 1 <=> k <= n \/ k = n + 1
  BY <1>1
<1> QED BY <1>2, <1>3 DEF Content

LEMMA PrefixNext ==
  ASSUME NEW f \in Files, NEW n \in Nat
  PROVE  /\ Prefix(f, 0) = Empty
         /\ n < MaxLen => [Prefix(f, n) EXCEPT ![n + 1] = f[n + 1]] = Prefix(f, n + 1)
         /\ Prefix(f, MaxLen) = f
<1>1. MaxLen \in Nat
  BY Constants
<1>2. Prefix(f, 0) = Empty /\ Prefix(f, MaxLen) = f
  BY <1>1 DEF Prefix, Empty, Files
<1>3. \A k \in 1..MaxLen : k <= n + 1 <=> k <= n \/ k = n + 1
  BY <1>1
<1> QED BY <1>2, <1>3 DEF Prefix

\* Whoever works on a file works on one of the name of its request.
LEMMA InPlace ==
  ASSUME Typed, FInv, NEW q \in Reqs, Uploading(q) \/ pc[q] = "read"
  PROVE  Named(fd[q], name[q]) /\ fd[q] \in Inodes /\ name[q] \in Names
<1>1. name[q] \in Names
  BY DEF Typed, TypeOK
<1>2. Named(fd[q], name[q])
  BY DEF FInv, Placed
<1> QED BY <1>1, <1>2 DEF Named

\* What holds of a file or an inode goes on to hold, whatever step is taken.
LEMMA Kept ==
  ASSUME Typed, NEW r \in Reqs, Request(r)
  PROVE  /\ \A i \in Inodes, n \in Names : Named(i, n) => Named(i, n)'
         /\ \A f \in Files : Whole(f) => Whole(f)'
         /\ contested \subseteq contested'
<1>0. /\ \A q \in Reqs \ {r} : Same(q)
      /\ pc \in [Reqs -> PCs] /\ size \in [Reqs -> Nat] /\ Local(r)
  BY Frame DEF Typed, TypeOK
<1>1. pc[r] \in {"copy", "rename", "remove", "move", "recycle", "done"} =>
        pc'[r] \in {"copy", "rename", "remove", "move", "recycle", "done"} /\ name' = name
  BY <1>0 DEF Request, ServeHTTP, AnswerAtOnce, DirectUpload, Create, CreateInStore,
            Copy, Rename, Leave, Remove,
            FastcgiUpload, Move, Download, Stat, StatAgain, Open, Read, Recycle, Answer,
            workVars
<1>2. \A i \in Inodes : i[1] \in Reqs
  BY DEF Inodes
<1>3. ASSUME NEW i \in Inodes, NEW n \in Names, Named(i, n) PROVE Named(i, n)'
  <2>1. CASE i[1] = r
    BY <1>1, <1>3, <2>1 DEF Named
  <2>2. CASE i[1] # r
    BY <1>0, <1>2, <1>3, <2>2 DEF Named, Same
  <2> QED BY <2>1, <2>2
<1>4. size[r] > 0 => size' = size
  <2>1. size' = size \/ pc[r] = "dispatch"
    BY DEF Request, ServeHTTP, AnswerAtOnce, DirectUpload, Create, CreateInStore,
            Copy, Rename, Leave, Remove,
           FastcgiUpload, Move, Download, Stat, StatAgain, Open, Read, Recycle, workVars
  <2>2. pc[r] = "dispatch" => size[r] = 0
    BY <1>0 DEF Local
  <2> QED BY <2>1, <2>2
<1>5. \A q \in Reqs : size[q] > 0 => size'[q] = size[q]
  BY <1>0, <1>4 DEF Same
<1>6. contested \subseteq contested'
  BY Changes
<1> QED BY <1>3, <1>5, <1>6 DEF Whole

\* A step that leaves the files alone: its request does not begin to write, to
\* read or to move files, and opens what is in the store.
LEMMA QuietFiles ==
  ASSUME Typed, FInv, NEW r \in Reqs, Request(r), Typed', UNCHANGED uploadType,
         UNCHANGED <<tmp, store, data, contested, fd, got, pos>>,
         Uploading(r)' => Uploading(r),
         Uploading(r)' \/ pc'[r] \in {"read", "move"} => name'[r] = name[r],
         pc'[r] = "read" => pc[r] = "read",
         pc'[r] = "move" => pc[r] = "move",
         pc'[r] = "open" => store[name'[r]] # NoFile \/ (pc[r] = "open" /\ name' = name),
         pc'[r] \in {"recycle", "done"} => got[r] = Empty \/ (pc[r] = "recycle" /\ name' = name)
  PROVE  FInv'
<1>0. /\ \A q \in Reqs \ {r} : Same(q)
      /\ \A i \in Inodes, n \in Names : Named(i, n) => Named(i, n)'
      /\ \A f \in Files : Whole(f) => Whole(f)'
      /\ name \in [Reqs -> Names] /\ tmp \in [Names -> Inodes \cup {NoFile}]
      /\ store \in [Names -> Inodes \cup {NoFile}]
      /\ data \in [Inodes -> Files] /\ fd \in [Reqs -> Inodes \cup {NoFile}]
      /\ got \in [Reqs -> Files]
  BY Frame, Kept DEF Typed, TypeOK
<1>1. ASSUME NEW q \in Reqs
      PROVE  /\ Uploading(q)' => Uploading(q) /\ name'[q] = name[q]
             /\ pc'[q] = "read" => pc[q] = "read" /\ name'[q] = name[q]
             /\ pc'[q] = "move" => pc[q] = "move"
  BY <1>0 DEF Same, Uploading
<1>2. Placed'
  <2>1. ASSUME NEW n \in Names, tmp[n] # NoFile
        PROVE  Named(tmp[n], n)' /\ uploadType = upload_direct
    BY <1>0, <2>1 DEF FInv, Placed
  <2>2. ASSUME NEW n \in Names, store[n] # NoFile
        PROVE  Named(store[n], n)' /\ store[n] # tmp[n]
    BY <1>0, <2>2 DEF FInv, Placed
  <2>3. ASSUME NEW q \in Reqs, Uploading(q)' \/ pc'[q] = "read"
        PROVE  Named(fd[q], name[q])'
    <3>1. Named(fd[q], name[q]) /\ name'[q] = name[q] /\ fd[q] \in Inodes
      BY <1>1, <2>3, InPlace
    <3>2. \A n \in Names : Named(fd[q], n) => Named(fd[q], n)'
      BY <1>0, <3>1
    <3>3. name[q] \in Names
      BY <1>0
    <3> QED BY <3>1, <3>2, <3>3 DEF Named
  <2> QED BY <2>1, <2>2, <2>3 DEF Placed, Uploading
<1>3. Alone'
  BY <1>1 DEF FInv, Alone
<1>4. Formed'
  BY <1>1 DEF FInv, Formed
<1>5. StoredWhole'
  BY <1>0 DEF FInv, StoredWhole
<1>6. Reading'
  <2>1. ASSUME NEW q \in Reqs, pc'[q] = "read", name'[q] \notin contested
        PROVE  /\ fd[q] # tmp[name'[q]]
               /\ Whole(data[fd[q]])'
               /\ got[q] = Prefix(data[fd[q]], pos[q])
    <3>1. pc[q] = "read" /\ name'[q] = name[q] /\ fd[q] \in Inodes
      BY <1>1, <2>1 DEF Typed, Local
    <3> QED BY <1>0, <2>1, <3>1 DEF FInv, Reading
  <2> QED BY <2>1 DEF Reading, Prefix
<1>7. Served'
  <2>1. ASSUME NEW q \in Reqs, pc'[q] \in {"recycle", "done"}, got[q] # Empty
        PROVE  Whole(got[q])' \/ name'[q] \in contested
    <3>1. pc[q] \in {"recycle", "done"} /\ name'[q] = name[q]
      BY <1>0, <2>1 DEF Same
    <3> QED BY <1>0, <2>1, <3>1 DEF FInv, Served
  <2> QED BY <2>1 DEF Served, Empty
<1>8. Found'
  BY <1>0 DEF FInv, Found, Same
<1> QED BY <1>2, <1>3, <1>4, <1>5, <1>6, <1>7, <1>8 DEF FInv

\* The facts every step's proof starts from.
LEMMA StepFacts ==
  ASSUME Typed, NEW r \in Reqs, Request(r)
  PROVE  /\ \A q \in Reqs \ {r} : Same(q)
         /\ \A i \in Inodes, n \in Names : Named(i, n) => Named(i, n)'
         /\ \A f \in Files : Whole(f) => Whole(f)'
         /\ contested \subseteq contested'
         /\ name \in [Reqs -> Names] /\ pc \in [Reqs -> PCs]
         /\ tmp \in [Names -> Inodes \cup {NoFile}]
         /\ store \in [Names -> Inodes \cup {NoFile}]
         /\ data \in [Inodes -> Files] /\ fd \in [Reqs -> Inodes \cup {NoFile}]
         /\ got \in [Reqs -> Files] /\ size \in [Reqs -> Nat] /\ pos \in [Reqs -> Nat]
BY Frame, Kept DEF Typed, TypeOK

\* os.Create succeeds.
LEMMA CreateFiles ==
  ASSUME Typed, FInv, Typed', NEW r \in Reqs, Create(r), UNCHANGED uploadType,
         pc' = [pc EXCEPT ![r] = "copy"]
  PROVE  FInv'
<1>0. /\ \A q \in Reqs \ {r} : Same(q)
      /\ \A i \in Inodes, m \in Names : Named(i, m) => Named(i, m)'
      /\ \A f \in Files : Whole(f) => Whole(f)'
      /\ contested \subseteq contested'
      /\ name \in [Reqs -> Names] /\ pc \in [Reqs -> PCs]
      /\ tmp \in [Names -> Inodes \cup {NoFile}]
      /\ store \in [Names -> Inodes \cup {NoFile}]
      /\ data \in [Inodes -> Files] /\ fd \in [Reqs -> Inodes \cup {NoFile}]
  <2>1. Request(r)
    BY DEF Request
  <2> QED BY <2>1, StepFacts
<1>1. PICK n \in Names, inode \in Inodes :
        /\ n = name[r]
        /\ inode = IF tmp[n] = NoFile THEN Own(r) ELSE tmp[n]
        /\ tmp' = [tmp EXCEPT ![n] = inode]
        /\ data' = [data EXCEPT ![inode] = Empty]
        /\ fd' = [fd EXCEPT ![r] = inode]
        /\ contested' = contested \cup ({n} \cap {name[q] : q \in {x \in Reqs : Uploading(x)}})
  <2>1. name[r] \in Names /\ (IF tmp[name[r]] = NoFile THEN Own(r) ELSE tmp[name[r]]) \in Inodes
    BY <1>0, Constants
  <2>2. pc'[r] # "recycle"
    BY <1>0
  <2> QED BY <1>0, <2>1, <2>2 DEF Create, Answer
<1>2. /\ pc[r] = "create" /\ pc'[r] = "copy" /\ pos[r] = 0 /\ uploadType = upload_direct
      /\ UNCHANGED <<name, size, pos, got, store>>
  BY <1>0 DEF Create, Typed, Local, Direct
<1>3. Own(r) \in Inodes /\ Own(r)[1] = r /\ NoFile \notin Inodes
  BY Constants DEF Own
\* What has a name already is not the inode of a request that creates.
<1>4. \A i \in Inodes, m \in Names : Named(i, m) => i # Own(r)
  BY <1>2, <1>3 DEF Named
<1>5. Named(inode, n)'
  <2>1. CASE inode = Own(r)
    BY <1>1, <1>2, <1>3, <2>1 DEF Named
  <2>2. CASE inode # Own(r)
    <3>1. Named(inode, n)
      BY <1>1, <2>2 DEF FInv, Placed
    <3> QED BY <1>0, <3>1
  <2> QED BY <2>1, <2>2
<1>6. \A i \in Inodes, m \in Names : Named(i, m) /\ m # n => i # inode
  BY <1>0, <1>5 DEF Named
<1>7. \A i \in Inodes : Named(i, n) /\ i # tmp[n] => i # inode
  BY <1>1, <1>4
<1>8. Placed'
  <2>1. ASSUME NEW m \in Names, tmp'[m] # NoFile
        PROVE  Named(tmp[m], m)' /\ uploadType = upload_direct
    <3>1. CASE m = n
      <4>1. tmp'[m] = inode
        BY <1>0, <1>1, <3>1
      <4> QED BY <1>2, <1>5, <3>1, <4>1 DEF Named
    <3>2. CASE m # n
      <4>1. tmp'[m] = tmp[m] /\ tmp[m] \in Inodes /\ Named(tmp[m], m)
        BY <1>0, <1>1, <2>1, <3>2 DEF FInv, Placed
      <4>2. Named(tmp[m], m)'
        BY <1>0, <4>1 DEF Named
      <4> QED BY <1>2, <4>2
    <3> QED BY <3>1, <3>2
  <2>2. ASSUME NEW m \in Names, store[m] # NoFile
        PROVE  Named(store[m], m)' /\ store[m] # tmp'[m]
    <3>1. Named(store[m], m) /\ store[m] # tmp[m] /\ store[m] \in Inodes
      BY <1>0, <2>2 DEF FInv, Placed
    <3>2. store[m] # tmp'[m]
      BY <1>0, <1>1, <1>7, <3>1
    <3> QED BY <1>0, <1>2, <3>1, <3>2
  <2>3. ASSUME NEW q \in Reqs, Uploading(q)' \/ pc'[q] = "read"
        PROVE  Named(fd[q], name[q])'
    <3>1. CASE q = r
      <4>1. fd'[q] = inode /\ name'[q] = n
        BY <1>0, <1>1, <1>2, <3>1
      <4> QED BY <1>5, <4>1 DEF Named
    <3>2. CASE q # r
      <4>1. Named(fd[q], name[q]) /\ fd'[q] = fd[q] /\ name'[q] = name[q] /\ fd[q] \in Inodes
        <5>1. /\ Uploading(q) \/ pc[q] = "read"
              /\ fd'[q] = fd[q] /\ name'[q] = name[q]
          BY <1>0, <2>3, <3>2 DEF Same, Uploading
        <5> QED BY <5>1, InPlace
      <4> QED BY <1>0, <4>1 DEF Named
    <3> QED BY <3>1, <3>2
  <2> QED BY <1>2, <2>1, <2>2, <2>3 DEF Placed, Uploading
<1>9. Alone'
  <2>1. ASSUME NEW q \in Reqs, Uploading(q)', name[q] \notin contested'
        PROVE  /\ tmp'[name[q]] = fd'[q]
               /\ data'[fd'[q]] = Content(Own(q), pos[q])
               /\ \A x \in Reqs \ {q} : Uploading(x)' => name[x] # name[q]
    <3>1. \A x \in Reqs \ {r} : Uploading(x) => name[x] # n \/ n \in contested'
      BY <1>1
    <3>2. CASE q = r
      <4>1. data'[inode] = Empty /\ Empty = Content(Own(q), 0)
        BY <1>0, <1>1, ContentNext
      <4> QED BY <1>0, <1>1, <1>2, <2>1, <3>1, <3>2, <4>1 DEF Same, Uploading
    <3>3. CASE q # r
      <4>1. Uploading(q) /\ name[q] # n /\ fd'[q] = fd[q] /\ name[q] \notin contested
        BY <1>0, <1>1, <2>1, <3>1, <3>3 DEF Same, Uploading
      <4>2. /\ tmp[name[q]] = fd[q]
            /\ data[fd[q]] = Content(Own(q), pos[q])
            /\ \A x \in Reqs \ {q} : Uploading(x) => name[x] # name[q]
            /\ Named(fd[q], name[q]) /\ fd[q] \in Inodes
        BY <4>1 DEF FInv, Alone, Placed, Typed, Local
      <4>3. fd[q] # inode
        BY <1>0, <1>6, <4>1, <4>2
      <4> QED BY <1>0, <1>1, <4>1, <4>2, <4>3 DEF Same, Uploading
    <3> QED BY <3>2, <3>3
  <2> QED BY <1>2, <2>1 DEF Alone, Uploading, Content
<1>10. Formed'
  <2>1. \A q \in Reqs : pc'[q] = "move" => uploadType' = ngx_fastcgi
    BY DEF Typed, Local
  <2>2. uploadType' = upload_direct
    BY <1>2
  <2> QED BY <2>1, <2>2 DEF Formed, ngx_fastcgi, upload_direct
<1>11. StoredWhole'
  <2>1. ASSUME NEW m \in Names, store[m] # NoFile, m \notin contested'
        PROVE  Whole(data[store[m]])'
    <3>1. store[m] \in Inodes /\ Named(store[m], m) /\ store[m] # tmp[m] /\ Whole(data[store[m]])
      BY <1>0, <2>1 DEF FInv, Placed, StoredWhole
    <3>2. data'[store[m]] = data[store[m]] /\ data[store[m]] \in Files
      BY <1>0, <1>1, <1>6, <1>7, <3>1
    <3>3. \A f \in Files : Whole(f) => Whole(f)'
      BY <1>0
    <3> QED BY <1>2, <3>1, <3>2, <3>3 DEF Whole
  <2> QED BY <1>2, <2>1 DEF StoredWhole, Whole
<1>12. Reading'
  <2>1. ASSUME NEW q \in Reqs, pc'[q] = "read", name[q] \notin contested'
        PROVE  (/\ fd[q] # tmp[name[q]]
                /\ Whole(data[fd[q]])
                /\ got[q] = Prefix(data[fd[q]], pos[q]))'
    <3>1. pc[q] = "read" /\ fd'[q] = fd[q] /\ fd[q] \in Inodes /\ name[q] \notin contested
      BY <1>0, <1>2, <2>1 DEF Same, Typed, Local
    <3>2. /\ fd[q] # tmp[name[q]] /\ Whole(data[fd[q]]) /\ got[q] = Prefix(data[fd[q]], pos[q])
          /\ Named(fd[q], name[q])
      BY <3>1 DEF FInv, Reading, Placed
    <3>3. fd[q] # inode
      BY <1>0, <1>6, <1>7, <3>1, <3>2
    <3>4. data'[fd[q]] = data[fd[q]] /\ data[fd[q]] \in Files
      BY <1>0, <1>1, <3>1, <3>3
    <3>5. fd[q] # tmp'[name[q]]
      BY <1>0, <1>1, <3>2, <3>3
    <3>6. Whole(data[fd[q]])'
      BY <1>0, <3>1, <3>2, <3>4 DEF Whole
    <3> QED BY <1>2, <3>1, <3>2, <3>4, <3>5, <3>6 DEF Prefix
  <2> QED BY <1>2, <2>1 DEF Reading
<1>13. Served'
  BY <1>0, <1>2 DEF FInv, Served, Same, Typed, TypeOK, Empty
<1>14. Found'
  BY <1>0, <1>2 DEF FInv, Found, Same
<1> QED BY <1>8, <1>9, <1>10, <1>11, <1>12, <1>13, <1>14 DEF FInv

\* os.Create succeeds in the store.
LEMMA CreateInStoreFiles ==
  ASSUME Typed, FInv, Typed', NEW r \in Reqs, CreateInStore(r), UNCHANGED uploadType
  PROVE  FInv'
<1>0. /\ \A q \in Reqs \ {r} : Same(q)
      /\ \A i \in Inodes, m \in Names : Named(i, m) => Named(i, m)'
      /\ \A f \in Files : Whole(f) => Whole(f)'
      /\ contested \subseteq contested'
      /\ name \in [Reqs -> Names] /\ pc \in [Reqs -> PCs]
      /\ tmp \in [Names -> Inodes \cup {NoFile}]
      /\ store \in [Names -> Inodes \cup {NoFile}]
      /\ data \in [Inodes -> Files] /\ fd \in [Reqs -> Inodes \cup {NoFile}]
  <2>1. Request(r)
    BY DEF Request
  <2> QED BY <2>1, StepFacts
<1>1. PICK n \in Names, inode \in Inodes :
        /\ n = name[r]
        /\ inode = IF store[n] = NoFile THEN Own(r) ELSE store[n]
        /\ store' = [store EXCEPT ![n] = inode]
        /\ data' = [data EXCEPT ![inode] = Empty]
        /\ fd' = [fd EXCEPT ![r] = inode]
        /\ contested' = contested \cup {n}
  <2>1. name[r] \in Names
    BY <1>0
  <2>2. (IF store[name[r]] = NoFile THEN Own(r) ELSE store[name[r]]) \in Inodes
    BY <1>0, <2>1, Constants
  <2> QED BY <2>1, <2>2 DEF CreateInStore
<1>2. /\ pc[r] = "create" /\ pc'[r] = "copy" /\ uploadType = upload_direct
      /\ UNCHANGED <<name, size, pos, got, tmp>>
  BY <1>0 DEF CreateInStore, Typed, Local, Direct
<1>3. Own(r) \in Inodes /\ Own(r)[1] = r /\ NoFile \notin Inodes
  BY Constants DEF Own
\* What has a name already is not the inode of a request that creates.
<1>4. \A i \in Inodes, m \in Names : Named(i, m) => i # Own(r)
  BY <1>2, <1>3 DEF Named
<1>5. Named(inode, n)'
  <2>1. CASE inode = Own(r)
    BY <1>1, <1>2, <1>3, <2>1 DEF Named
  <2>2. CASE inode # Own(r)
    <3>1. Named(inode, n)
      BY <1>1, <2>2 DEF FInv, Placed
    <3> QED BY <1>0, <3>1
  <2> QED BY <2>1, <2>2
<1>6. \A i \in Inodes, m \in Names : Named(i, m) /\ m # n => i # inode
  BY <1>0, <1>5 DEF Named
<1>7. inode # tmp[n]
  <2>1. tmp[n] # NoFile => Named(tmp[n], n) /\ tmp[n] \in Inodes
    BY <1>0 DEF FInv, Placed
  <2>2. store[n] # NoFile => store[n] # tmp[n]
    BY DEF FInv, Placed
  <2> QED BY <1>1, <1>3, <1>4, <2>1, <2>2
<1>8. Placed'
  <2>1. ASSUME NEW m \in Names, tmp[m] # NoFile
        PROVE  Named(tmp[m], m)' /\ uploadType = upload_direct
    <3>1. tmp[m] \in Inodes /\ Named(tmp[m], m) /\ tmp'[m] = tmp[m]
      BY <1>0, <1>2, <2>1 DEF FInv, Placed
    <3>2. Named(tmp[m], m)'
      BY <1>0, <3>1 DEF Named
    <3> QED BY <1>2, <3>2
  <2>2. ASSUME NEW m \in Names, store'[m] # NoFile
        PROVE  Named(store[m], m)' /\ store'[m] # tmp[m]
    <3>1. CASE m = n
      <4>1. store'[m] = inode
        BY <1>0, <1>1, <3>1
      <4> QED BY <1>5, <1>7, <3>1, <4>1 DEF Named
    <3>2. CASE m # n
      <4>1. store'[m] = store[m] /\ store[m] \in Inodes /\ Named(store[m], m)
            /\ store[m] # tmp[m]
        BY <1>0, <1>1, <2>2, <3>2 DEF FInv, Placed
      <4> QED BY <1>0, <4>1 DEF Named
    <3> QED BY <3>1, <3>2
  <2>3. ASSUME NEW q \in Reqs, Uploading(q)' \/ pc'[q] = "read"
        PROVE  Named(fd[q], name[q])'
    <3>1. CASE q = r
      <4>1. fd'[q] = inode /\ name'[q] = n
        BY <1>0, <1>1, <1>2, <3>1
      <4> QED BY <1>5, <4>1 DEF Named
    <3>2. CASE q # r
      <4>1. Named(fd[q], name[q]) /\ fd'[q] = fd[q] /\ name'[q] = name[q] /\ fd[q] \in Inodes
        <5>1. /\ Uploading(q) \/ pc[q] = "read"
              /\ fd'[q] = fd[q] /\ name'[q] = name[q]
          BY <1>0, <2>3, <3>2 DEF Same, Uploading
        <5> QED BY <5>1, InPlace
      <4> QED BY <1>0, <4>1 DEF Named
    <3> QED BY <3>1, <3>2
  <2> QED BY <1>2, <2>1, <2>2, <2>3 DEF Placed, Uploading
<1>9. Alone'
  <2>1. ASSUME NEW q \in Reqs, Uploading(q)', name[q] \notin contested'
        PROVE  /\ tmp[name[q]] = fd'[q]
               /\ data'[fd'[q]] = Content(Own(q), pos[q])
               /\ \A x \in Reqs \ {q} : Uploading(x)' => name[x] # name[q]
    <3>1. q # r /\ Uploading(q) /\ name[q] # n /\ fd'[q] = fd[q] /\ name[q] \notin contested
      BY <1>0, <1>1, <2>1 DEF Same, Uploading
    <3>2. /\ tmp[name[q]] = fd[q]
          /\ data[fd[q]] = Content(Own(q), pos[q])
          /\ \A x \in Reqs \ {q} : Uploading(x) => name[x] # name[q]
          /\ Named(fd[q], name[q]) /\ fd[q] \in Inodes
      BY <3>1 DEF FInv, Alone, Placed, Typed, Local
    <3>3. fd[q] # inode
      BY <1>0, <1>6, <3>1, <3>2
    <3> QED BY <1>0, <1>1, <3>1, <3>2, <3>3 DEF Same, Uploading
  <2> QED BY <1>2, <2>1 DEF Alone, Uploading, Content
<1>10. Formed'
  <2>1. \A q \in Reqs : pc'[q] = "move" => uploadType' = ngx_fastcgi
    BY DEF Typed, Local
  <2>2. uploadType' = upload_direct
    BY <1>2
  <2> QED BY <2>1, <2>2 DEF Formed, ngx_fastcgi, upload_direct
<1>11. StoredWhole'
  <2>1. ASSUME NEW m \in Names, store'[m] # NoFile, m \notin contested'
        PROVE  Whole(data[store[m]])'
    <3>1. m # n /\ m \notin contested /\ store'[m] = store[m]
      BY <1>0, <1>1, <2>1
    <3>2. store[m] \in Inodes /\ Named(store[m], m) /\ Whole(data[store[m]])
      BY <1>0, <2>1, <3>1 DEF FInv, Placed, StoredWhole
    <3>3. data'[store[m]] = data[store[m]] /\ data[store[m]] \in Files
      BY <1>0, <1>1, <1>6, <3>1, <3>2
    <3>4. Whole(data[store[m]])'
      BY <1>0, <3>1, <3>2, <3>3 DEF Whole
    <3> QED BY <3>4
  <2> QED BY <2>1 DEF StoredWhole, Whole
<1>12. Reading'
  <2>1. ASSUME NEW q \in Reqs, pc'[q] = "read", name[q] \notin contested'
        PROVE  (/\ fd[q] # tmp[name[q]]
                /\ Whole(data[fd[q]])
                /\ got[q] = Prefix(data[fd[q]], pos[q]))'
    <3>1. pc[q] = "read" /\ fd'[q] = fd[q] /\ fd[q] \in Inodes /\ name[q] \notin contested
      BY <1>0, <1>2, <2>1 DEF Same, Typed, Local
    <3>2. /\ fd[q] # tmp[name[q]] /\ Whole(data[fd[q]]) /\ got[q] = Prefix(data[fd[q]], pos[q])
          /\ Named(fd[q], name[q])
      BY <3>1 DEF FInv, Reading, Placed
    <3>3. fd[q] # inode
      BY <1>0, <1>1, <1>6, <2>1, <3>1, <3>2
    <3>4. data'[fd[q]] = data[fd[q]] /\ data[fd[q]] \in Files
      BY <1>0, <1>1, <3>1, <3>3
    <3>5. Whole(data[fd[q]])'
      BY <1>0, <3>1, <3>2, <3>4 DEF Whole
    <3> QED BY <1>2, <3>1, <3>2, <3>4, <3>5 DEF Prefix
  <2> QED BY <1>2, <2>1 DEF Reading
<1>13. Served'
  BY <1>0, <1>2 DEF FInv, Served, Same, Typed, TypeOK, Empty
<1>14. Found'
  <2>1. ASSUME NEW q \in Reqs, pc'[q] = "open", name[q] # n
        PROVE  store'[name[q]] # NoFile \/ name[q] \in contested'
    <3>1. q # r /\ pc[q] = "open" /\ name[q] \in Names
      BY <1>0, <1>2, <2>1 DEF Same
    <3>2. store'[name[q]] = store[name[q]]
      BY <1>0, <1>1, <2>1, <3>1
    <3> QED BY <1>1, <3>1, <3>2 DEF FInv, Found
  <2>2. n \in contested'
    BY <1>1
  <2> QED BY <1>2, <2>1, <2>2 DEF Found
<1> QED BY <1>8, <1>9, <1>10, <1>11, <1>12, <1>13, <1>14 DEF FInv

\* io.CopyN copies a chunk.
LEMMA CopyFiles ==
  ASSUME Typed, FInv, Typed', NEW r \in Reqs, Copy(r), UNCHANGED <<uploadType, pc>>,
         data' = [data EXCEPT ![fd[r]][pos[r] + 1] = Own(r)],
         pos' = [pos EXCEPT ![r] = pos[r] + 1]
  PROVE  FInv'
<1>0. /\ \A q \in Reqs \ {r} : Same(q)
      /\ \A i \in Inodes, m \in Names : Named(i, m) => Named(i, m)'
      /\ \A f \in Files : Whole(f) => Whole(f)'
      /\ name \in [Reqs -> Names] /\ pc \in [Reqs -> PCs] /\ pos \in [Reqs -> Nat]
      /\ tmp \in [Names -> Inodes \cup {NoFile}]
      /\ store \in [Names -> Inodes \cup {NoFile}]
      /\ data \in [Inodes -> Files] /\ fd \in [Reqs -> Inodes \cup {NoFile}]
  <2>1. Request(r)
    BY DEF Request
  <2> QED BY <2>1, StepFacts
<1>1. PICK n \in Names, inode \in Inodes : n = name[r] /\ inode = fd[r]
  BY <1>0 DEF Copy, Typed, Local, Uploading
<1>2. /\ pc[r] = "copy" /\ uploadType = upload_direct
      /\ UNCHANGED <<name, size, fd, got, tmp, store, contested>>
  BY DEF Copy, Typed, Local, Direct
<1>3. /\ data'[inode] = [data[inode] EXCEPT ![pos[r] + 1] = Own(r)]
      /\ \A i \in Inodes \ {inode} : data'[i] = data[i]
  BY <1>0, <1>1
<1>4. Named(inode, n)
  BY <1>1, <1>2 DEF FInv, Placed, Uploading
<1>5. \A i \in Inodes, m \in Names : Named(i, m) /\ m # n => i # inode
  BY <1>4 DEF Named
<1>6. n \notin contested => tmp[n] = inode /\ \A q \in Reqs \ {r} : Uploading(q) => name[q] # n
  BY <1>1, <1>2 DEF FInv, Alone, Uploading
<1>7. Placed'
  BY <1>2 DEF FInv, Placed, Uploading, Named
<1>8. Alone'
  <2>1. ASSUME NEW q \in Reqs, Uploading(q), name[q] \notin contested
        PROVE  data'[fd[q]] = Content(Own(q), pos'[q])
    <3>1. data[fd[q]] = Content(Own(q), pos[q]) /\ fd[q] \in Inodes /\ Named(fd[q], name[q])
      BY <2>1 DEF FInv, Alone, Placed, Typed, Local
    <3>2. CASE q = r
      <4>1. pos'[q] = pos[r] + 1 /\ pos[r] \in Nat
        BY <1>0, <3>2
      <4> QED BY <1>1, <1>3, <3>1, <3>2, <4>1, ContentNext
    <3>3. CASE q # r
      <4>1. name[q] # n
        BY <1>6, <2>1, <3>3
      <4>2. fd[q] # inode
        BY <1>0, <1>5, <3>1, <4>1
      <4> QED BY <1>0, <1>3, <3>1, <3>3, <4>2 DEF Same
    <3> QED BY <3>2, <3>3
  <2>2. \A q \in Reqs : Uploading(q) /\ name[q] \notin contested =>
          /\ tmp[name[q]] = fd[q]
          /\ \A x \in Reqs \ {q} : Uploading(x) => name[x] # name[q]
    BY DEF FInv, Alone
  <2> QED BY <1>2, <2>1, <2>2 DEF Alone, Uploading, Content
<1>9. Formed'
  <2>1. \A q \in Reqs : pc'[q] = "move" => uploadType' = ngx_fastcgi
    BY DEF Typed, Local
  <2>2. uploadType' = upload_direct
    BY <1>2
  <2> QED BY <2>1, <2>2 DEF Formed, ngx_fastcgi, upload_direct
<1>10. StoredWhole'
  <2>1. ASSUME NEW m \in Names, store[m] # NoFile, m \notin contested
        PROVE  Whole(data[store[m]])'
    <3>1. store[m] \in Inodes /\ Named(store[m], m) /\ store[m] # tmp[m] /\ Whole(data[store[m]])
      BY <1>0, <2>1 DEF FInv, Placed, StoredWhole
    <3>2. store[m] # inode
      BY <1>5, <1>6, <2>1, <3>1
    <3>3. data'[store[m]] = data[store[m]] /\ data[store[m]] \in Files
      BY <1>0, <1>3, <3>1, <3>2
    <3> QED BY <1>0, <1>2, <3>1, <3>3 DEF Whole
  <2> QED BY <1>2, <2>1 DEF StoredWhole
<1>11. Reading'
  <2>1. ASSUME NEW q \in Reqs, pc'[q] = "read", name[q] \notin contested'
        PROVE  (/\ fd[q] # tmp[name[q]]
                /\ Whole(data[fd[q]])
                /\ got[q] = Prefix(data[fd[q]], pos[q]))'
    <3>1. pc[q] = "read" /\ fd[q] \in Inodes /\ name[q] \notin contested /\ q # r
      BY <1>2, <2>1 DEF Typed, Local
    <3>2. /\ fd[q] # tmp[name[q]] /\ Whole(data[fd[q]]) /\ got[q] = Prefix(data[fd[q]], pos[q])
          /\ Named(fd[q], name[q]) /\ name[q] \in Names
      BY <1>0, <3>1 DEF FInv, Reading, Placed
    <3>3. fd[q] # inode
      BY <1>5, <1>6, <3>1, <3>2
    <3>4. data'[fd[q]] = data[fd[q]] /\ data[fd[q]] \in Files /\ pos'[q] = pos[q]
      BY <1>0, <1>3, <3>1, <3>3 DEF Same
    <3>5. Whole(data[fd[q]])'
      BY <1>0, <1>2, <3>2, <3>4 DEF Whole
    <3> QED BY <1>2, <3>2, <3>4, <3>5 DEF Prefix
  <2> QED BY <1>2, <2>1 DEF Reading
<1>12. Served' /\ Found'
  BY <1>2 DEF FInv, Served, Found, Whole, Empty
<1> QED BY <1>7, <1>8, <1>9, <1>10, <1>11, <1>12 DEF FInv

\* os.Rename succeeds.
LEMMA RenameFiles ==
  ASSUME Typed, FInv, Typed', NEW r \in Reqs, Rename(r), UNCHANGED uploadType,
         tmp[name[r]] # NoFile,
         store' = [store EXCEPT ![name[r]] = tmp[name[r]]],
         tmp' = [tmp EXCEPT ![name[r]] = NoFile],
         pc' = [pc EXCEPT ![r] = "recycle"],
         UNCHANGED contested
  PROVE  FInv'
<1>0. /\ \A q \in Reqs \ {r} : Same(q)
      /\ \A i \in Inodes, m \in Names : Named(i, m) => Named(i, m)'
      /\ \A f \in Files : Whole(f) => Whole(f)'
      /\ name \in [Reqs -> Names] /\ pc \in [Reqs -> PCs]
      /\ tmp \in [Names -> Inodes \cup {NoFile}]
      /\ store \in [Names -> Inodes \cup {NoFile}]
      /\ data \in [Inodes -> Files] /\ fd \in [Reqs -> Inodes \cup {NoFile}]
  <2>1. Request(r)
    BY DEF Request
  <2> QED BY <2>1, StepFacts
<1>1. PICK n \in Names, inode \in Inodes : n = name[r] /\ inode = tmp[n]
  BY <1>0
<1>2. /\ pc[r] = "rename" /\ pc'[r] = "recycle" /\ pos[r] = size[r] /\ size[r] > 0
      /\ got[r] = Empty
      /\ UNCHANGED <<name, size, pos, fd, got, data, contested>>
  BY <1>0 DEF Rename, Typed, Local, Direct, workVars
<1>3. /\ store'[n] = inode /\ tmp'[n] = NoFile
      /\ \A m \in Names \ {n} : store'[m] = store[m] /\ tmp'[m] = tmp[m]
  BY <1>0, <1>1
<1>4. NoFile \notin Inodes
  BY Constants
<1>5. \A q \in Reqs : /\ Uploading(q)' => Uploading(q) /\ q # r
                      /\ pc'[q] = "read" => pc[q] = "read" /\ q # r
                      /\ pc'[q] \in {"move", "open"} => pc'[q] = pc[q]
  BY <1>0, <1>2 DEF Uploading, Same
<1>6. Placed'
  <2>1. ASSUME NEW m \in Names, tmp'[m] # NoFile
        PROVE  Named(tmp[m], m)' /\ uploadType = upload_direct
    <3>1. tmp'[m] = tmp[m] /\ tmp[m] \in Inodes /\ Named(tmp[m], m) /\ uploadType = upload_direct
      BY <1>0, <1>3, <2>1 DEF FInv, Placed
    <3> QED BY <1>0, <3>1 DEF Named
  <2>2. ASSUME NEW m \in Names, store'[m] # NoFile
        PROVE  Named(store[m], m)' /\ store'[m] # tmp'[m]
    <3>1. CASE m = n
      <4>1. Named(inode, n)
        BY <1>1, <1>4 DEF FInv, Placed
      <4> QED BY <1>0, <1>3, <1>4, <3>1, <4>1 DEF Named
    <3>2. CASE m # n
      <4>1. store[m] \in Inodes /\ Named(store[m], m) /\ store[m] # tmp[m]
        BY <1>0, <1>3, <2>2, <3>2 DEF FInv, Placed
      <4> QED BY <1>0, <1>3, <3>2, <4>1 DEF Named
    <3> QED BY <3>1, <3>2
  <2>3. ASSUME NEW q \in Reqs, Uploading(q)' \/ pc'[q] = "read"
        PROVE  Named(fd[q], name[q])'
    <3>1. Named(fd[q], name[q]) /\ fd[q] \in Inodes /\ name[q] \in Names
      BY <1>0, <1>5, <2>3, InPlace
    <3> QED BY <1>0, <1>2, <3>1 DEF Named
  <2> QED BY <2>1, <2>2, <2>3 DEF Placed, Uploading
<1>7. Alone'
  <2>1. ASSUME NEW q \in Reqs, Uploading(q)', name[q] \notin contested
        PROVE  (/\ tmp[name[q]] = fd[q]
                /\ data[fd[q]] = Content(Own(q), pos[q])
                /\ \A x \in Reqs \ {q} : Uploading(x) => name[x] # name[q])'
    <3>1. /\ tmp[name[q]] = fd[q]
          /\ data[fd[q]] = Content(Own(q), pos[q])
          /\ \A x \in Reqs \ {q} : Uploading(x) => name[x] # name[q]
          /\ q # r
      BY <1>5, <2>1 DEF FInv, Alone
    <3>2. name[q] # n /\ name[q] \in Names
      BY <1>0, <1>1, <1>2, <3>1 DEF Uploading
    <3> QED BY <1>2, <1>3, <1>5, <3>1, <3>2 DEF Content
  <2> QED BY <1>2, <2>1 DEF Alone
<1>8. Formed'
  BY <1>2, <1>5 DEF FInv, Formed, Content
<1>9. StoredWhole'
  <2>1. ASSUME NEW m \in Names, store'[m] # NoFile, m \notin contested
        PROVE  Whole(data[store[m]])'
    <3>1. CASE m = n
      <4>1. data[inode] = Content(Own(r), size[r])
        BY <1>1, <1>2, <2>1, <3>1 DEF FInv, Alone, Uploading
      <4>2. (data[store[m]] = Content(Own(r), size[r]) /\ size[r] > 0)'
        BY <1>2, <1>3, <3>1, <4>1 DEF Content
      <4> QED BY <4>2 DEF Whole
    <3>2. CASE m # n
      <4>1. store[m] \in Inodes /\ Whole(data[store[m]]) /\ store'[m] = store[m]
        BY <1>0, <1>3, <2>1, <3>2 DEF FInv, StoredWhole
      <4> QED BY <1>0, <1>2, <4>1 DEF Whole
    <3> QED BY <3>1, <3>2
  <2> QED BY <1>2, <2>1 DEF StoredWhole
<1>10. Reading'
  <2>1. ASSUME NEW q \in Reqs, pc'[q] = "read", name[q] \notin contested
        PROVE  (/\ fd[q] # tmp[name[q]]
                /\ Whole(data[fd[q]])
                /\ got[q] = Prefix(data[fd[q]], pos[q]))'
    <3>1. /\ fd[q] # tmp[name[q]] /\ Whole(data[fd[q]]) /\ got[q] = Prefix(data[fd[q]], pos[q])
          /\ fd[q] \in Inodes /\ name[q] \in Names
      BY <1>0, <1>5, <2>1 DEF FInv, Reading, Typed, Local
    <3>2. fd[q] # tmp'[name[q]]
      BY <1>3, <1>4, <3>1
    <3>3. Whole(data[fd[q]])'
      BY <1>0, <1>2, <3>1 DEF Whole
    <3> QED BY <1>2, <3>1, <3>2, <3>3 DEF Prefix
  <2> QED BY <1>2, <2>1 DEF Reading
<1>11. Served'
  <2>1. ASSUME NEW q \in Reqs, pc'[q] \in {"recycle", "done"}, got[q] # Empty
        PROVE  Whole(got[q])' \/ name[q] \in contested
    <3>1. q # r /\ pc[q] \in {"recycle", "done"} /\ got[q] \in Files
      BY <1>0, <1>2, <2>1 DEF Same, Typed, TypeOK
    <3> QED BY <1>0, <1>2, <2>1, <3>1 DEF FInv, Served, Whole
  <2> QED BY <1>2, <2>1 DEF Served, Empty
<1>12. Found'
  BY <1>0, <1>2, <1>3, <1>4, <1>5 DEF FInv, Found
<1> QED BY <1>6, <1>7, <1>8, <1>9, <1>10, <1>11, <1>12 DEF FInv

\* An upload is over, and its file may be gone.
LEMMA LeaveFiles ==
  ASSUME Typed, FInv, Typed', NEW r \in Reqs, Request(r), UNCHANGED uploadType,
         Leave(r), Uploading(r), pc' = [pc EXCEPT ![r] = "recycle"],
         contested' \in {contested, contested \cup {name[r]}},
         UNCHANGED <<name, size, pos, fd, got, data>>
  PROVE  FInv'
<1>0. /\ \A q \in Reqs \ {r} : Same(q)
      /\ \A i \in Inodes, m \in Names : Named(i, m) => Named(i, m)'
      /\ \A f \in Files : Whole(f) => Whole(f)'
      /\ name \in [Reqs -> Names] /\ pc \in [Reqs -> PCs]
      /\ tmp \in [Names -> Inodes \cup {NoFile}]
      /\ store \in [Names -> Inodes \cup {NoFile}]
      /\ data \in [Inodes -> Files] /\ fd \in [Reqs -> Inodes \cup {NoFile}]
  BY StepFacts
<1>1. /\ pc'[r] = "recycle" /\ got[r] = Empty
      /\ UNCHANGED <<name, size, pos, fd, got, data>>
      /\ contested \subseteq contested'
  BY <1>0 DEF Typed, Local, Uploading
<1>2. /\ \A m \in Names : \/ tmp'[m] = tmp[m]
                          \/ m = name[r] /\ tmp'[m] = NoFile
      /\ \A m \in Names : \/ store'[m] = store[m]
                          \/ m = name[r] /\ store'[m] = NoFile /\ m \in contested
  BY <1>0 DEF Leave, Typed, Local
<1>3. NoFile \notin Inodes
  BY Constants
<1>4. \A q \in Reqs : /\ Uploading(q)' => Uploading(q) /\ q # r
                      /\ pc'[q] = "read" => pc[q] = "read"
                      /\ pc'[q] \in {"move", "open"} => pc'[q] = pc[q]
  BY <1>0, <1>1 DEF Uploading, Same
<1>5. Placed'
  <2>1. ASSUME NEW m \in Names, tmp'[m] # NoFile
        PROVE  Named(tmp[m], m)' /\ uploadType = upload_direct
    <3>1. tmp'[m] = tmp[m] /\ tmp[m] \in Inodes /\ Named(tmp[m], m) /\ uploadType = upload_direct
      BY <1>0, <1>2, <2>1 DEF FInv, Placed
    <3> QED BY <1>0, <3>1 DEF Named
  <2>2. ASSUME NEW m \in Names, store'[m] # NoFile
        PROVE  Named(store[m], m)' /\ store'[m] # tmp'[m]
    <3>1. /\ store'[m] = store[m] /\ store[m] \in Inodes /\ Named(store[m], m)
          /\ store[m] # tmp[m]
      BY <1>0, <1>2, <2>2 DEF FInv, Placed
    <3> QED BY <1>0, <1>1, <1>2, <1>3, <3>1 DEF Named
  <2>3. ASSUME NEW q \in Reqs, Uploading(q)' \/ pc'[q] = "read"
        PROVE  Named(fd[q], name[q])'
    <3>1. Named(fd[q], name[q]) /\ fd[q] \in Inodes /\ name[q] \in Names
      BY <1>0, <1>4, <2>3, InPlace
    <3> QED BY <1>0, <1>1, <3>1 DEF Named
  <2> QED BY <1>1, <2>1, <2>2, <2>3 DEF Placed, Uploading
<1>6. Alone'
  <2>1. ASSUME NEW q \in Reqs, Uploading(q)', name[q] \notin contested'
        PROVE  (/\ tmp[name[q]] = fd[q]
                /\ data[fd[q]] = Content(Own(q), pos[q])
                /\ \A x \in Reqs \ {q} : Uploading(x) => name[x] # name[q])'
    <3>1. /\ tmp[name[q]] = fd[q]
          /\ data[fd[q]] = Content(Own(q), pos[q])
          /\ \A x \in Reqs \ {q} : Uploading(x) => name[x] # name[q]
          /\ q # r
      BY <1>1, <1>4, <2>1 DEF FInv, Alone
    <3>2. name[q] # name[r] /\ name[q] \in Names
      BY <1>0, <1>1, <3>1
    <3> QED BY <1>1, <1>2, <1>4, <3>1, <3>2 DEF Content
  <2> QED BY <1>1, <2>1 DEF Alone
<1>7. Formed'
  BY <1>1, <1>4 DEF FInv, Formed, Content
<1>8. StoredWhole'
  <2>1. ASSUME NEW m \in Names, store'[m] # NoFile, m \notin contested'
        PROVE  Whole(data[store[m]])'
    <3>1. store'[m] = store[m] /\ store[m] \in Inodes /\ Whole(data[store[m]])
      BY <1>0, <1>1, <1>2, <2>1 DEF FInv, StoredWhole
    <3> QED BY <1>0, <1>1, <3>1 DEF Whole
  <2> QED BY <1>1, <2>1 DEF StoredWhole
<1>9. Reading'
  <2>1. ASSUME NEW q \in Reqs, pc'[q] = "read", name[q] \notin contested'
        PROVE  (/\ fd[q] # tmp[name[q]]
                /\ Whole(data[fd[q]])
                /\ got[q] = Prefix(data[fd[q]], pos[q]))'
    <3>1. /\ fd[q] # tmp[name[q]] /\ Whole(data[fd[q]]) /\ got[q] = Prefix(data[fd[q]], pos[q])
          /\ fd[q] \in Inodes /\ name[q] \in Names
      BY <1>0, <1>1, <1>4, <2>1 DEF FInv, Reading, Typed, Local
    <3>2. fd[q] # tmp'[name[q]]
      BY <1>2, <1>3, <3>1
    <3>3. Whole(data[fd[q]])'
      BY <1>0, <1>1, <3>1 DEF Whole
    <3> QED BY <1>1, <3>1, <3>2, <3>3 DEF Prefix
  <2> QED BY <1>1, <2>1 DEF Reading
<1>10. Served'
  <2>1. ASSUME NEW q \in Reqs, pc'[q] \in {"recycle", "done"}, got[q] # Empty
        PROVE  Whole(got[q])' \/ name[q] \in contested'
    <3>1. q # r /\ pc[q] \in {"recycle", "done"} /\ got[q] \in Files
      BY <1>0, <1>1, <2>1 DEF Same, Typed, TypeOK
    <3> QED BY <1>0, <1>1, <2>1, <3>1 DEF FInv, Served, Whole
  <2> QED BY <1>1, <2>1 DEF Served, Empty
<1>11. Found'
  <2>1. ASSUME NEW q \in Reqs, pc'[q] = "open"
        PROVE  store'[name[q]] # NoFile \/ name[q] \in contested'
    <3>1. pc[q] = "open" /\ name[q] \in Names
      BY <1>0, <1>4, <2>1
    <3> QED BY <1>1, <1>2, <3>1 DEF FInv, Found
  <2> QED BY <1>1, <2>1 DEF Found
<1> QED BY <1>5, <1>6, <1>7, <1>8, <1>9, <1>10, <1>11 DEF FInv

\* A form arrives, its files written.
LEMMA FormFiles ==
  ASSUME Typed, FInv, Typed', NEW r \in Reqs, FastcgiUpload(r), UNCHANGED uploadType
  PROVE  FInv'
<1>0. /\ \A q \in Reqs \ {r} : Same(q)
      /\ \A i \in Inodes, m \in Names : Named(i, m) => Named(i, m)'
      /\ \A f \in Files : Whole(f) => Whole(f)'
      /\ name \in [Reqs -> Names] /\ pc \in [Reqs -> PCs]
      /\ tmp \in [Names -> Inodes \cup {NoFile}]
      /\ store \in [Names -> Inodes \cup {NoFile}]
      /\ data \in [Inodes -> Files] /\ fd \in [Reqs -> Inodes \cup {NoFile}]
  <2>1. Request(r)
    BY DEF Request
  <2> QED BY <2>1, StepFacts
<1>1. /\ pc[r] = "dispatch" /\ pc'[r] = "move" /\ got[r] = Empty
      /\ data' = [i \in Inodes |-> IF i[1] = r THEN Content(i, MaxLen) ELSE data[i]]
      /\ UNCHANGED <<name, pos, fd, got, tmp, store, contested>>
  BY <1>0 DEF FastcgiUpload, Typed, Local
<1>2. \A i \in Inodes, m \in Names : Named(i, m) => data'[i] = data[i]
  BY <1>1 DEF Named
<1>3. \A q \in Reqs : /\ Uploading(q)' => Uploading(q)
                      /\ pc'[q] = "read" => pc[q] = "read"
                      /\ pc'[q] = "move" => pc[q] = "move" \/ q = r
                      /\ pc'[q] = "open" => pc[q] = "open"
  BY <1>0, <1>1 DEF Uploading, Same
<1>4. Placed'
  <2>1. ASSUME NEW m \in Names, tmp[m] # NoFile
        PROVE  Named(tmp[m], m)' /\ uploadType = upload_direct
    BY <1>0, <1>1, <2>1 DEF FInv, Placed, Named
  <2>2. ASSUME NEW m \in Names, store[m] # NoFile
        PROVE  Named(store[m], m)' /\ store[m] # tmp[m]
    BY <1>0, <1>1, <2>2 DEF FInv, Placed, Named
  <2>3. ASSUME NEW q \in Reqs, Uploading(q)' \/ pc'[q] = "read"
        PROVE  Named(fd[q], name[q])'
    <3>1. Named(fd[q], name[q]) /\ fd[q] \in Inodes /\ name[q] \in Names
      BY <1>0, <1>3, <2>3, InPlace
    <3> QED BY <1>0, <1>1, <3>1 DEF Named
  <2> QED BY <1>1, <2>1, <2>2, <2>3 DEF Placed, Uploading
<1>5. Alone'
  <2>1. ASSUME NEW q \in Reqs, Uploading(q)', name[q] \notin contested
        PROVE  (/\ tmp[name[q]] = fd[q]
                /\ data[fd[q]] = Content(Own(q), pos[q])
                /\ \A x \in Reqs \ {q} : Uploading(x) => name[x] # name[q])'
    <3>1. /\ tmp[name[q]] = fd[q]
          /\ data[fd[q]] = Content(Own(q), pos[q])
          /\ \A x \in Reqs \ {q} : Uploading(x) => name[x] # name[q]
      BY <1>3, <2>1 DEF FInv, Alone
    <3>2. Named(fd[q], name[q]) /\ fd[q] \in Inodes /\ name[q] \in Names
      BY <1>3, <2>1, InPlace
    <3> QED BY <1>1, <1>2, <1>3, <3>1, <3>2 DEF Content
  <2> QED BY <1>1, <2>1 DEF Alone
<1>6. Formed'
  <2>1. ASSUME NEW q \in Reqs, pc'[q] = "move", NEW p \in 1..MaxParts
        PROVE  (data[<<q, p>>] = Content(<<q, p>>, MaxLen))'
    <3>1. <<q, p>> \in Inodes /\ <<q, p>>[1] = q
      BY DEF Inodes
    <3> QED BY <1>1, <1>3, <2>1, <3>1 DEF FInv, Formed, Content
  <2> QED BY <2>1 DEF Formed
<1>7. StoredWhole'
  <2>1. ASSUME NEW m \in Names, store[m] # NoFile, m \notin contested
        PROVE  Whole(data[store[m]])'
    <3>1. store[m] \in Inodes /\ Whole(data[store[m]]) /\ Named(store[m], m)
      BY <1>0, <2>1 DEF FInv, StoredWhole, Placed
    <3>2. data'[store'[m]] = data[store[m]] /\ data[store[m]] \in Files
      BY <1>0, <1>1, <1>2, <3>1
    <3> QED BY <1>0, <3>1, <3>2 DEF Whole
  <2> QED BY <1>1, <2>1 DEF StoredWhole
<1>8. Reading'
  <2>1. ASSUME NEW q \in Reqs, pc'[q] = "read", name[q] \notin contested
        PROVE  (/\ fd[q] # tmp[name[q]]
                /\ Whole(data[fd[q]])
                /\ got[q] = Prefix(data[fd[q]], pos[q]))'
    <3>1. /\ fd[q] # tmp[name[q]] /\ Whole(data[fd[q]]) /\ got[q] = Prefix(data[fd[q]], pos[q])
          /\ fd[q] \in Inodes /\ name[q] \in Names /\ Named(fd[q], name[q])
      BY <1>0, <1>3, <2>1 DEF FInv, Reading, Placed, Typed, Local
    <3>2. data'[fd'[q]] = data[fd[q]] /\ data[fd[q]] \in Files
      BY <1>0, <1>1, <1>2, <3>1
    <3>3. Whole(data[fd[q]])'
      <4>1. PICK f \in Files : f = data[fd[q]]
        BY <3>2
      <4>2. Whole(f)'
        BY <1>0, <3>1, <4>1
      <4> QED BY <3>2, <4>1, <4>2 DEF Whole
    <3> QED BY <1>1, <3>1, <3>2, <3>3 DEF Prefix
  <2> QED BY <1>1, <2>1 DEF Reading
<1>9. Served'
  <2>1. ASSUME NEW q \in Reqs, pc'[q] \in {"recycle", "done"}, got[q] # Empty
        PROVE  Whole(got[q])' \/ name[q] \in contested
    <3>1. q # r /\ pc[q] \in {"recycle", "done"} /\ got[q] \in Files
      BY <1>0, <1>1, <2>1 DEF Same, Typed, TypeOK
    <3> QED BY <1>0, <1>1, <2>1, <3>1 DEF FInv, Served, Whole
  <2> QED BY <1>1, <2>1 DEF Served, Empty
<1>10. Found'
  BY <1>1, <1>3 DEF FInv, Found
<1> QED BY <1>4, <1>5, <1>6, <1>7, <1>8, <1>9, <1>10 DEF FInv

\* os.Rename of a file of a form.
LEMMA MoveFiles ==
  ASSUME Typed, FInv, Typed', NEW r \in Reqs, Move(r), UNCHANGED <<uploadType, pc>>,
         pos[r] < size[r],
         pos' = [pos EXCEPT ![r] = pos[r] + 1],
         store' = [store EXCEPT ![name[r]] = <<r, pos[r] + 1>>]
  PROVE  FInv'
<1>0. /\ \A q \in Reqs \ {r} : Same(q)
      /\ \A i \in Inodes, m \in Names : Named(i, m) => Named(i, m)'
      /\ \A f \in Files : Whole(f) => Whole(f)'
      /\ name \in [Reqs -> Names] /\ pc \in [Reqs -> PCs]
      /\ tmp \in [Names -> Inodes \cup {NoFile}]
      /\ store \in [Names -> Inodes \cup {NoFile}]
      /\ data \in [Inodes -> Files] /\ fd \in [Reqs -> Inodes \cup {NoFile}]
  <2>1. Request(r)
    BY DEF Request
  <2> QED BY <2>1, StepFacts
<1>1. /\ pc[r] = "move" /\ uploadType = ngx_fastcgi /\ size[r] <= MaxParts
      /\ UNCHANGED <<name, size, fd, got, tmp, data, contested>>
  BY DEF Move, Typed, Local
<1>2. PICK n \in Names, k \in 1..MaxParts : n = name[r] /\ k = pos[r] + 1
  <2>1. pos[r] \in Nat /\ size[r] \in Nat
    BY DEF Typed, TypeOK
  <2>2. pos[r] + 1 \in 1..MaxParts
    BY <1>1, <2>1, Constants
  <2> QED BY <1>0, <2>2
<1>3. /\ store'[n] = <<r, k>> /\ <<r, k>> \in Inodes /\ <<r, k>>[1] = r
      /\ \A m \in Names \ {n} : store'[m] = store[m]
  <2>1. <<r, k>> \in Inodes /\ <<r, k>>[1] = r
    BY DEF Inodes
  <2> QED BY <1>0, <1>2, <2>1
<1>4. \A m \in Names : tmp[m] = NoFile
  BY <1>1 DEF FInv, Placed, ngx_fastcgi, upload_direct
<1>5. NoFile \notin Inodes
  BY Constants
<1>6. Placed'
  <2>1. ASSUME NEW m \in Names, store'[m] # NoFile
        PROVE  Named(store[m], m)'
    <3>1. CASE m = n
      <4>1. Named(<<r, k>>, n)
        BY <1>1, <1>2, <1>3 DEF Named
      <4> QED BY <1>0, <1>3, <3>1, <4>1 DEF Named
    <3>2. CASE m # n
      <4>1. store[m] \in Inodes /\ Named(store[m], m) /\ store'[m] = store[m]
        BY <1>0, <1>3, <2>1, <3>2 DEF FInv, Placed
      <4> QED BY <1>0, <4>1 DEF Named
    <3> QED BY <3>1, <3>2
  <2>2. \A q \in Reqs : Uploading(q)' \/ pc'[q] = "read" => Named(fd[q], name[q])'
    BY <1>1 DEF FInv, Placed, Uploading, Named
  <2> QED BY <1>1, <1>4, <2>1, <2>2 DEF Placed, Uploading
<1>7. Alone'
  <2>1. \A q \in Reqs : Uploading(q) => pos'[q] = pos[q]
    BY <1>0, <1>1 DEF Same, Uploading
  <2> QED BY <1>1, <2>1, SMTT(30) DEF FInv, Alone, Uploading, Content
<1>8. Formed'
  BY <1>1 DEF FInv, Formed, Content
<1>9. StoredWhole'
  <2>1. ASSUME NEW m \in Names, store'[m] # NoFile, m \notin contested
        PROVE  Whole(data[store[m]])'
    <3>1. CASE m = n
      <4>1. data[<<r, k>>] = Content(<<r, k>>, MaxLen)
        BY <1>1 DEF FInv, Formed
      <4>2. (data[store[m]] = Content(<<r, k>>, MaxLen))'
        BY <1>1, <1>3, <3>1, <4>1 DEF Content
      <4> QED BY <4>2 DEF Whole
    <3>2. CASE m # n
      <4>1. store[m] \in Inodes /\ Whole(data[store[m]]) /\ store'[m] = store[m]
        BY <1>0, <1>3, <2>1, <3>2 DEF FInv, StoredWhole
      <4> QED BY <1>0, <1>1, <4>1 DEF Whole
    <3> QED BY <3>1, <3>2
  <2> QED BY <1>1, <2>1 DEF StoredWhole
<1>10. Reading'
  <2>1. \A q \in Reqs : pc[q] = "read" => pos'[q] = pos[q]
    BY <1>0, <1>1 DEF Same
  <2> QED BY <1>1, <2>1 DEF FInv, Reading, Prefix, Whole
<1>11. Served'
  BY <1>1 DEF FInv, Served, Empty, Whole
<1>12. Found'
  BY <1>0, <1>1, <1>3, <1>5 DEF FInv, Found
<1> QED BY <1>6, <1>7, <1>8, <1>9, <1>10, <1>11, <1>12 DEF FInv

\* http.ServeFile opens the file.
LEMMA OpenFiles ==
  ASSUME Typed, FInv, Typed', NEW r \in Reqs, Open(r), UNCHANGED uploadType,
         store[name[r]] # NoFile,
         fd' = [fd EXCEPT ![r] = store[name[r]]],
         pc' = [pc EXCEPT ![r] = "read"]
  PROVE  FInv'
<1>0. /\ \A q \in Reqs \ {r} : Same(q)
      /\ \A i \in Inodes, m \in Names : Named(i, m) => Named(i, m)'
      /\ \A f \in Files : Whole(f) => Whole(f)'
      /\ name \in [Reqs -> Names] /\ pc \in [Reqs -> PCs]
      /\ store \in [Names -> Inodes \cup {NoFile}]
      /\ data \in [Inodes -> Files] /\ fd \in [Reqs -> Inodes \cup {NoFile}]
  <2>1. Request(r)
    BY DEF Request
  <2> QED BY <2>1, StepFacts
<1>1. PICK n \in Names, inode \in Inodes : n = name[r] /\ inode = store[n]
  BY <1>0
<1>2. /\ pc[r] = "open" /\ pc'[r] = "read" /\ fd'[r] = inode /\ pos[r] = 0 /\ got[r] = Empty
      /\ UNCHANGED <<name, size, pos, got, tmp, store, data, contested>>
  BY <1>0, <1>1 DEF Open, Typed, Local, fsVars
<1>3. \A q \in Reqs : /\ Uploading(q)' => Uploading(q) /\ q # r
                      /\ pc'[q] = "read" => pc[q] = "read" \/ q = r
                      /\ pc'[q] \in {"move", "open", "recycle", "done"} => pc'[q] = pc[q]
  BY <1>0, <1>2 DEF Uploading, Same
<1>4. \A q \in Reqs \ {r} : fd'[q] = fd[q]
  BY <1>0 DEF Same
<1>5. Named(inode, n) /\ inode # tmp[n] /\ inode # NoFile
  BY <1>1, Constants DEF FInv, Placed
<1>6. Placed'
  <2>1. ASSUME NEW m \in Names, tmp[m] # NoFile
        PROVE  Named(tmp[m], m)' /\ uploadType = upload_direct
    BY <1>0, <1>2, <2>1 DEF FInv, Placed, Named
  <2>2. ASSUME NEW m \in Names, store[m] # NoFile
        PROVE  Named(store[m], m)' /\ store[m] # tmp[m]
    BY <1>0, <1>2, <2>2 DEF FInv, Placed, Named
  <2>3. ASSUME NEW q \in Reqs, Uploading(q)' \/ pc'[q] = "read"
        PROVE  Named(fd[q], name[q])'
    <3>1. CASE q = r
      BY <1>0, <1>1, <1>2, <1>5, <3>1 DEF Named
    <3>2. CASE q # r
      <4>1. Named(fd[q], name[q]) /\ fd[q] \in Inodes /\ name[q] \in Names
        BY <1>0, <1>3, <2>3, <3>2, InPlace
      <4> QED BY <1>0, <1>2, <1>4, <3>2, <4>1 DEF Named
    <3> QED BY <3>1, <3>2
  <2> QED BY <1>2, <2>1, <2>2, <2>3 DEF Placed, Uploading
<1>7. Alone'
  BY <1>2, <1>3, <1>4 DEF FInv, Alone, Content
<1>8. Formed'
  BY <1>2, <1>3 DEF FInv, Formed, Content
<1>9. StoredWhole'
  <2>1. ASSUME NEW m \in Names, store[m] # NoFile, m \notin contested
        PROVE  Whole(data[store[m]])'
    <3>1. store[m] \in Inodes /\ Whole(data[store[m]])
      BY <1>0, <2>1 DEF FInv, StoredWhole
    <3> QED BY <1>0, <1>2, <3>1 DEF Whole
  <2> QED BY <1>2, <2>1 DEF StoredWhole
<1>10. Reading'
  <2>1. ASSUME NEW q \in Reqs, pc'[q] = "read", name[q] \notin contested
        PROVE  (/\ fd[q] # tmp[name[q]]
                /\ Whole(data[fd[q]])
                /\ got[q] = Prefix(data[fd[q]], pos[q]))'
    <3>1. CASE q = r
      <4>1. Whole(data[inode]) /\ data[inode] \in Files
        BY <1>0, <1>1, <1>2, <1>5, <2>1, <3>1 DEF FInv, StoredWhole
      <4>2. Prefix(data[inode], 0) = Empty
        BY <4>1, PrefixNext
      <4>3. Whole(data[fd[q]])'
        BY <1>0, <1>2, <3>1, <4>1 DEF Whole
      <4>4. fd'[q] # tmp'[name'[q]]
        BY <1>1, <1>2, <1>5, <3>1
      <4>5. got'[q] = Prefix(data[inode], 0) /\ data'[fd'[q]] = data[inode] /\ pos'[q] = 0
        BY <1>2, <3>1, <4>2
      <4> QED BY <4>3, <4>4, <4>5 DEF Prefix
    <3>2. CASE q # r
      <4>1. /\ fd[q] # tmp[name[q]] /\ Whole(data[fd[q]]) /\ got[q] = Prefix(data[fd[q]], pos[q])
            /\ fd[q] \in Inodes
        BY <1>3, <2>1, <3>2 DEF FInv, Reading, Typed, Local
      <4>2. Whole(data[fd[q]])'
        BY <1>0, <1>2, <1>4, <3>2, <4>1 DEF Whole
      <4> QED BY <1>2, <1>4, <3>2, <4>1, <4>2 DEF Prefix
    <3> QED BY <3>1, <3>2
  <2> QED BY <1>2, <2>1 DEF Reading
<1>11. Served'
  <2>1. ASSUME NEW q \in Reqs, pc'[q] \in {"recycle", "done"}, got[q] # Empty
        PROVE  Whole(got[q])' \/ name[q] \in contested
    <3>1. pc[q] \in {"recycle", "done"} /\ got[q] \in Files
      BY <1>3, <2>1 DEF Typed, TypeOK
    <3> QED BY <1>0, <1>2, <2>1, <3>1 DEF FInv, Served, Whole
  <2> QED BY <1>2, <2>1 DEF Served, Empty
<1>12. Found'
  BY <1>2, <1>3 DEF FInv, Found
<1> QED BY <1>6, <1>7, <1>8, <1>9, <1>10, <1>11, <1>12 DEF FInv

\* It reads a chunk.
LEMMA ReadFiles ==
  ASSUME Typed, FInv, Typed', NEW r \in Reqs, Read(r), UNCHANGED uploadType
  PROVE  FInv'
<1>0. /\ \A q \in Reqs \ {r} : Same(q)
      /\ \A i \in Inodes, m \in Names : Named(i, m) => Named(i, m)'
      /\ \A f \in Files : Whole(f) => Whole(f)'
      /\ name \in [Reqs -> Names] /\ pc \in [Reqs -> PCs]
      /\ pos \in [Reqs -> Nat] /\ got \in [Reqs -> Files]
      /\ data \in [Inodes -> Files] /\ fd \in [Reqs -> Inodes \cup {NoFile}]
  <2>1. Request(r)
    BY DEF Request
  <2> QED BY <2>1, StepFacts DEF Typed, TypeOK
<1>1. PICK inode \in Inodes, k \in Nat : inode = fd[r] /\ k = pos[r] /\ k < MaxLen
  BY <1>0 DEF Read, Typed, Local
<1>2. /\ pc[r] = "read" /\ pos'[r] = k + 1
      /\ got'[r] = [got[r] EXCEPT ![k + 1] = data[inode][k + 1]]
      /\ (pc'[r] = "recycle" /\ k + 1 = MaxLen) \/ pc'[r] = "read"
      /\ UNCHANGED <<name, size, fd, tmp, store, data, contested>>
  BY <1>0, <1>1 DEF Read, Answer, fsVars
<1>3. \A q \in Reqs : /\ Uploading(q)' => Uploading(q) /\ q # r
                      /\ pc'[q] = "read" => pc[q] = "read"
                      /\ pc'[q] \in {"move", "open"} => pc'[q] = pc[q]
                      /\ pc'[q] \in {"recycle", "done"} => pc'[q] = pc[q] \/ q = r
  BY <1>0, <1>2 DEF Uploading, Same
<1>4. \A q \in Reqs \ {r} : got'[q] = got[q] /\ pos'[q] = pos[q]
  BY <1>0 DEF Same
<1>5. name[r] \notin contested =>
        got'[r] = Prefix(data[inode], k + 1) /\ Whole(data[inode])
  <2>1. data[inode] \in Files
    BY <1>0
  <2>2. [Prefix(data[inode], k) EXCEPT ![k + 1] = data[inode][k + 1]] = Prefix(data[inode], k + 1)
    BY <1>1, <2>1, PrefixNext
  <2>3. ASSUME name[r] \notin contested
        PROVE  got[r] = Prefix(data[inode], k) /\ Whole(data[inode])
    BY <1>0, <1>1, <1>2, <2>3 DEF FInv, Reading
  <2> QED BY <1>2, <2>2, <2>3
<1>6. Placed'
  <2>1. \A q \in Reqs : Uploading(q)' \/ pc'[q] = "read" => Named(fd[q], name[q])'
    <3>1. ASSUME NEW q \in Reqs, Uploading(q)' \/ pc'[q] = "read" PROVE Named(fd[q], name[q])'
      <4>1. Named(fd[q], name[q]) /\ fd[q] \in Inodes /\ name[q] \in Names
        BY <1>0, <1>3, <3>1, InPlace
      <4> QED BY <1>0, <1>2, <4>1 DEF Named
    <3> QED BY <3>1
  <2>2. /\ \A m \in Names : tmp[m] # NoFile => Named(tmp[m], m)' /\ uploadType = upload_direct
        /\ \A m \in Names : store[m] # NoFile => Named(store[m], m)' /\ store[m] # tmp[m]
    BY <1>0, <1>2 DEF FInv, Placed, Named
  <2> QED BY <1>2, <2>1, <2>2 DEF Placed, Uploading
<1>7. Alone'
  BY <1>2, <1>3, <1>4 DEF FInv, Alone, Content
<1>8. Formed'
  BY <1>2, <1>3 DEF FInv, Formed, Content
<1>9. StoredWhole'
  <2>1. ASSUME NEW m \in Names, store[m] # NoFile, m \notin contested
        PROVE  Whole(data[store[m]])'
    <3>1. store[m] \in Inodes /\ Whole(data[store[m]])
      BY <2>1 DEF FInv, StoredWhole, Typed, TypeOK
    <3> QED BY <1>0, <1>2, <3>1 DEF Whole
  <2> QED BY <1>2, <2>1 DEF StoredWhole
<1>10. Reading'
  <2>1. ASSUME NEW q \in Reqs, pc'[q] = "read", name[q] \notin contested
        PROVE  (/\ fd[q] # tmp[name[q]]
                /\ Whole(data[fd[q]])
                /\ got[q] = Prefix(data[fd[q]], pos[q]))'
    <3>1. /\ fd[q] # tmp[name[q]] /\ Whole(data[fd[q]]) /\ got[q] = Prefix(data[fd[q]], pos[q])
          /\ fd[q] \in Inodes
      BY <1>3, <2>1 DEF FInv, Reading, Typed, Local
    <3>2. Whole(data[fd[q]])'
      BY <1>0, <1>2, <3>1 DEF Whole
    <3>3. got'[q] = Prefix(data[fd[q]], pos'[q])
      BY <1>1, <1>2, <1>4, <1>5, <2>1, <3>1
    <3> QED BY <1>2, <3>1, <3>2, <3>3 DEF Prefix
  <2> QED BY <1>2, <2>1 DEF Reading
<1>11. Served'
  <2>1. ASSUME NEW q \in Reqs, pc'[q] \in {"recycle", "done"}, got'[q] # Empty
        PROVE  Whole(got[q])' \/ name[q] \in contested
    <3>1. CASE q = r /\ name[r] \notin contested
      <4>1. k + 1 = MaxLen /\ data[inode] \in Files
        BY <1>0, <1>2, <2>1, <3>1
      <4>2. got'[r] = data[inode]
        BY <1>5, <3>1, <4>1, PrefixNext
      <4>3. Whole(data[inode])
        BY <1>5, <3>1
      <4> QED BY <1>2, <3>1, <4>2, <4>3 DEF Whole
    <3>2. CASE q # r
      <4>1. pc[q] \in {"recycle", "done"} /\ got[q] \in Files /\ got'[q] = got[q]
        BY <1>0, <1>3, <1>4, <2>1, <3>2
      <4> QED BY <1>0, <1>2, <2>1, <4>1 DEF FInv, Served, Whole
    <3> QED BY <3>1, <3>2
  <2> QED BY <1>2, <2>1 DEF Served, Empty
<1>12. Found'
  BY <1>2, <1>3 DEF FInv, Found
<1> QED BY <1>6, <1>7, <1>8, <1>9, <1>10, <1>11, <1>12 DEF FInv

LEMMA RequestFiles ==
  ASSUME Typed, FInv, Typed', NEW r \in Reqs, Request(r), UNCHANGED uploadType
  PROVE  FInv'
<1>0. pc \in [Reqs -> PCs] /\ name \in [Reqs -> Names] /\ Local(r) /\ pos[r] \in Nat
  BY DEF Typed, TypeOK
\* The branches in which a request leaves the files alone.
<1> DEFINE Quiet == UNCHANGED <<tmp, store, data, contested, fd, got, pos>>
<1>1. ASSUME Quiet, UNCHANGED name,
             pc[r] \notin {"read", "recycle", "done", "open"},
             pc'[r] \in {"done", "dispatch", "recycle", "create", "stat", "stat again"}
      PROVE  FInv'
  <2>1. got[r] = Empty
    BY <1>0, <1>1 DEF Local
  <2> QED BY <1>1, <2>1, QuietFiles DEF Uploading
<1>2. ASSUME Quiet, UNCHANGED name, Uploading(r), pc'[r] \in {"rename", "remove", "recycle"}
      PROVE  FInv'
  <2>1. got[r] = Empty
    BY <1>0, <1>2 DEF Local, Uploading
  <2> QED BY <1>2, <2>1, QuietFiles DEF Uploading
<1>3. CASE ServeHTTP(r) \/ AnswerAtOnce(r) \/ DirectUpload(r) \/ Download(r)
  BY <1>0, <1>1, <1>3 DEF ServeHTTP, AnswerAtOnce, DirectUpload, Download, Answer, workVars,
                          fsVars
<1>4. CASE Create(r)
  <2>1. CASE pc' = [pc EXCEPT ![r] = "copy"]
    BY <1>4, <2>1, CreateFiles
  <2>2. CASE Answer(r, "error") /\ UNCHANGED <<fd, tmp, data, contested>>
    BY <1>0, <1>1, <1>4, <2>2 DEF Create, Answer
  <2> QED BY <1>4, <2>1, <2>2 DEF Create
<1>14. CASE CreateInStore(r)
  BY <1>14, CreateInStoreFiles
<1>5. CASE Copy(r)
  <2>1. CASE /\ data' = [data EXCEPT ![fd[r]][pos[r] + 1] = Own(r)]
             /\ pos' = [pos EXCEPT ![r] = pos[r] + 1]
             /\ UNCHANGED pc
    BY <1>5, <2>1, CopyFiles
  <2>2. CASE /\ pc' = [pc EXCEPT ![r] = IF pos[r] = size[r] THEN "rename" ELSE "remove"]
             /\ UNCHANGED <<pos, data>>
    <3>1. pc'[r] \in {"rename", "remove"} /\ Uploading(r)
      BY <1>0, <1>5, <2>2 DEF Copy, Uploading
    <3> QED BY <1>2, <1>5, <2>2, <3>1 DEF Copy
  <2> QED BY <1>5, <2>1, <2>2 DEF Copy
<1>6. CASE Rename(r)
  <2>1. CASE /\ tmp[name[r]] # NoFile
             /\ store' = [store EXCEPT ![name[r]] = tmp[name[r]]]
             /\ tmp' = [tmp EXCEPT ![name[r]] = NoFile]
             /\ Answer(r, "ok") /\ UNCHANGED contested
    BY <1>6, <2>1, RenameFiles DEF Answer
  <2>2. CASE /\ contested' = contested \cup {name[r]}
             /\ Leave(r) /\ Answer(r, "ok")
    <3>1. /\ Uploading(r) /\ pc' = [pc EXCEPT ![r] = "recycle"]
          /\ contested' \in {contested, contested \cup {name[r]}}
          /\ UNCHANGED <<name, size, pos, fd, got, data>>
      BY <1>6, <2>2 DEF Rename, Answer, Uploading, workVars
    <3> QED BY <2>2, <3>1, LeaveFiles
  <2>3. CASE pc' = [pc EXCEPT ![r] = "remove"] /\ UNCHANGED <<reply, tmp, store, contested>>
    BY <1>0, <1>2, <1>6, <2>3 DEF Rename, Uploading, workVars
  <2> QED BY <1>6, <2>1, <2>2, <2>3 DEF Rename
<1>7. CASE Remove(r)
  <2>1. /\ Leave(r) /\ Uploading(r) /\ pc' = [pc EXCEPT ![r] = "recycle"]
        /\ contested' \in {contested, contested \cup {name[r]}}
        /\ UNCHANGED <<name, size, pos, fd, got, data>>
    BY <1>7 DEF Remove, Answer, Uploading, workVars
  <2> QED BY <2>1, LeaveFiles
<1>8. CASE FastcgiUpload(r)
  BY <1>8, FormFiles
<1>9. CASE Move(r)
  <2>1. CASE /\ pos[r] < size[r]
             /\ pos' = [pos EXCEPT ![r] = pos[r] + 1]
             /\ store' = [store EXCEPT ![name[r]] = <<r, pos[r] + 1>>]
             /\ UNCHANGED <<pc, reply>>
    BY <1>9, <2>1, MoveFiles
  <2>2. CASE pc' = [pc EXCEPT ![r] = "recycle"] /\ UNCHANGED <<pos, store>>
    BY <1>0, <1>1, <1>9, <2>2 DEF Move
  <2> QED BY <1>9, <2>1, <2>2 DEF Move, Answer
<1>10. CASE Stat(r) \/ StatAgain(r)
  <2>1. /\ Quiet /\ pc[r] \in {"stat", "stat again"}
        /\ pc'[r] \in {"open", "stat again", "recycle"}
        /\ pc'[r] = "open" => store[name'[r]] # NoFile
    <3>1. CASE Stat(r)
      BY <1>0, <3>1 DEF Stat, workVars, fsVars
    <3>2. CASE StatAgain(r)
      BY <1>0, <3>2 DEF StatAgain, Answer, fsVars
    <3> QED BY <1>10, <3>1, <3>2
  <2>2. got[r] = Empty
    BY <1>0, <2>1 DEF Local
  <2> QED BY <2>1, <2>2, QuietFiles DEF Uploading
<1>11. CASE Open(r)
  <2>1. CASE /\ store[name[r]] # NoFile
             /\ fd' = [fd EXCEPT ![r] = store[name[r]]]
             /\ pc' = [pc EXCEPT ![r] = "read"]
    BY <1>11, <2>1, OpenFiles
  <2>2. CASE Answer(r, "error") /\ UNCHANGED fd
    <3>1. Quiet /\ UNCHANGED name /\ pc[r] = "open" /\ pc'[r] = "recycle" /\ got[r] = Empty
      BY <1>0, <1>11, <2>2 DEF Open, Answer, fsVars, Local
    <3> QED BY <3>1, QuietFiles DEF Uploading
  <2> QED BY <1>11, <2>1, <2>2 DEF Open
<1>12. CASE Read(r)
  BY <1>12, ReadFiles
<1>13. CASE Recycle(r)
  <2>1. Quiet /\ UNCHANGED name /\ pc[r] = "recycle" /\ pc'[r] = "done"
    BY <1>0, <1>13 DEF Recycle, workVars, fsVars
  <2> QED BY <2>1, QuietFiles DEF Uploading
<1> QED BY <1>3, <1>4, <1>5, <1>6, <1>7, <1>8, <1>9, <1>10, <1>11, <1>12, <1>13, <1>14 DEF Request

LEMMA StepFiles == Typed /\ FInv /\ [Next]_vars => FInv'
<1> SUFFICES ASSUME Typed, FInv, [Next]_vars PROVE FInv'
  OBVIOUS
<1>1. Typed'
  BY StepTyped
<1>2. ASSUME UNCHANGED vars PROVE FInv'
  <2>1. UNCHANGED <<uploadType, pc, name, size, pos, fd, got, tmp, store, data, contested>>
    BY <1>2 DEF vars, reqVars, workVars, fsVars
  <2>2. Placed'
    BY <2>1 DEF FInv, Placed, Named, Uploading
  <2>3. Alone' /\ Formed'
    BY <2>1 DEF FInv, Alone, Formed, Uploading, Content
  <2>4. StoredWhole' /\ Reading'
    BY <2>1 DEF FInv, StoredWhole, Reading, Whole, Prefix
  <2>5. Served' /\ Found'
    BY <2>1 DEF FInv, Served, Found, Whole, Empty
  <2> QED BY <2>2, <2>3, <2>4, <2>5 DEF FInv
<1> QED BY <1>1, <1>2, RequestFiles DEF Next

LEMMA InitFiles == Init => FInv
<1> SUFFICES ASSUME Init PROVE FInv
  OBVIOUS
<1>1. /\ \A r \in Reqs : pc[r] = "start" /\ got[r] = Empty
      /\ \A n \in Names : tmp[n] = NoFile /\ store[n] = NoFile
  BY DEF Init
<1>2. Placed /\ Alone /\ Formed
  BY <1>1 DEF Placed, Alone, Formed, Uploading
<1>3. StoredWhole /\ Reading /\ Served /\ Found
  BY <1>1 DEF StoredWhole, Reading, Served, Found
<1> QED BY <1>2, <1>3 DEF FInv

(* Every file in the store is all of what one upload announced, whatever   *)
(* fails or ends early, unless direct uploads of its name overlapped or a  *)
(* name with ".." led one to it.                                           *)
THEOREM StoreIsWhole == Spec => []StoredWhole
<1>1. FInv => StoredWhole
  BY DEF FInv
<1> QED BY <1>1, InitTyped, StepTyped, InitFiles, StepFiles, PTL DEF Spec

(* A download opens a file that is there, and what it sends is one whole   *)
(* file, though the file may be replaced while it is read; with the same   *)
(* exceptions.                                                             *)
THEOREM DownloadIsWhole == Spec => []FoundIsServed
<1>1. FInv => FoundIsServed
  BY DEF FInv, Found, Served, FoundIsServed
<1> QED BY <1>1, InitTyped, StepTyped, InitFiles, StepFiles, PTL DEF Spec

(* An upload that is answered "ok" has put its own content in the store,   *)
(* unless another direct upload of the same name overlapped with it or the *)
(* name has "..".                                                          *)
THEOREM OkIsStored == Spec => OkMeansStored
<1> DEFINE Ok == \A r \in Reqs : pc[r] = "rename" /\ reply'[r] = "ok" =>
                   \/ name[r] \in contested'
                   \/ data[store'[name[r]]] = Content(Own(r), size[r])
<1>1. Typed /\ FInv /\ [Next]_vars => [Ok]_vars
  <2> SUFFICES ASSUME Typed, FInv, Next,
                      NEW r \in Reqs, pc[r] = "rename", reply'[r] = "ok",
                      name[r] \notin contested'
               PROVE  data[store'[name[r]]] = Content(Own(r), size[r])
    OBVIOUS
  <2>1. /\ reply[r] = "" /\ pos[r] = size[r] /\ name[r] \in Names
        /\ store \in [Names -> Inodes \cup {NoFile}] /\ reply \in [Reqs -> {"", "ok", "error"}]
    BY DEF Typed, TypeOK, Local
  <2>2. PICK q \in Reqs : Request(q)
    BY DEF Next
  <2>3. q = r
    BY <2>1, <2>2, Frame DEF Typed, Same
  <2>4. Rename(r)
    BY <2>2, <2>3 DEF Request, ServeHTTP, AnswerAtOnce, DirectUpload, Create, CreateInStore,
            Copy, Remove,
       FastcgiUpload, Move, Download, Stat, StatAgain, Open, Read, Recycle
  <2>5. store' = [store EXCEPT ![name[r]] = tmp[name[r]]] /\ name[r] \notin contested
    BY <2>1, <2>4 DEF Rename
  <2>6. tmp[name[r]] = fd[r] /\ data[fd[r]] = Content(Own(r), pos[r])
    BY <2>5 DEF FInv, Alone, Uploading
  <2> QED BY <2>1, <2>5, <2>6
<1> QED BY <1>1, InitTyped, StepTyped, InitFiles, StepFiles, PTL DEF Spec, OkMeansStored
=============================================================================
