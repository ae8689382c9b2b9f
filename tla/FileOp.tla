------------------------------- MODULE FileOp -------------------------------
(***************************************************************************)
(* The /files/ handler of ngxfmd: uploads into a directory of temporary    *)
(* files and by rename into the store, downloads from the store, and the   *)
(* pool they share.  Two directories map names to inodes; an open file     *)
(* stays the same inode whatever becomes of its name.  A file is written   *)
(* and read chunk by chunk, each goroutine at an offset of its own.        *)
(*                                                                         *)
(* The redis index a download asks is a module of its own (Url2Name); here *)
(* it answers with any name.  System calls may fail.                       *)
(***************************************************************************)
EXTENDS Naturals, FiniteSets

CONSTANTS
  Reqs,             \* the HTTP requests to /files/, one goroutine each
  RequestPoolSize,  \* request_pool_size
  UploadTypes,      \* the values upload_type may have
  Names,            \* file names
  MaxLen,           \* bound on the chunks of a file
  MaxParts,         \* bound on the files of one multipart form
  NoFile, Hole      \* no inode; a chunk nobody wrote

ngx_fastcgi   == 1
upload_direct == 2

\* A request makes at most MaxParts files: an upload_direct one the first, and
\* a form the ones nginx has stored under names of their own.
Inodes == Reqs \X (1..MaxParts)

\* A chunk is known by the file it was meant for.
Chunks == Inodes \cup {Hole}

ASSUME FileOpAssumption ==
  /\ RequestPoolSize \in Nat \ {0}
  /\ MaxLen \in Nat \ {0}
  /\ MaxParts \in Nat \ {0}
  /\ UploadTypes \subseteq Nat
  /\ NoFile \notin Inodes
  /\ Hole \notin Inodes

VARIABLES
  uploadType, \* upload_type, as the configuration gives it
  pc,         \* where each request stands
  reply,      \* "ok" or "error" once it is answered
  free,       \* how many request objects opReqPool holds
  name,       \* the file name a request works on
  alt,        \* a download: the name with the extension of the link
  size,       \* an upload: its Content-Length in chunks, a form: its files
  pos,        \* the chunks or files done
  fd,         \* the inode it has open
  got,        \* what a download has read
  tmp,        \* the directory upload_path
  store,      \* the directory store_path
  data,       \* the contents of the inodes
  astray,     \* the direct uploads that their name leads into the store
  contested   \* history: names two direct uploads worked on at once, or that
              \* were reached by a name with ".."

reqVars  == <<pc, reply, free>>
workVars == <<name, alt, size, pos, fd, got>>
fsVars   == <<tmp, store, data>>
vars     == <<uploadType, reqVars, workVars, fsVars, astray, contested>>

Empty == [i \in 1..MaxLen |-> Hole]

\* The file an upload of n chunks means to leave.
Content(inode, n) == [i \in 1..MaxLen |-> IF i <= n THEN inode ELSE Hole]

\* The only file of a direct upload.
Own(r) == <<r, 1>>

Init ==
  /\ uploadType \in UploadTypes
  /\ pc = [r \in Reqs |-> "start"]
  /\ reply = [r \in Reqs |-> ""]
  /\ free = RequestPoolSize
  /\ name \in [Reqs -> Names]
  /\ alt = name
  /\ size = [r \in Reqs |-> 0]
  /\ pos = [r \in Reqs |-> 0]
  /\ fd = [r \in Reqs |-> NoFile]
  /\ got = [r \in Reqs |-> Empty]
  /\ tmp = [n \in Names |-> NoFile]
  /\ store = [n \in Names |-> NoFile]
  /\ data = [i \in Inodes |-> Empty]
  /\ astray = {}
  /\ contested = {}

\* A direct upload that created its temporary file and is not over.
Uploading(r) == pc[r] \in {"copy", "rename", "remove"}

-----------------------------------------------------------------------------
(* Faulty variants of operations below; the specification uses none.       *)

\* The temporary file is opened without being truncated.
CreateKeeps(r) ==
  /\ pc[r] = "create"
  /\ IF tmp[name[r]] = NoFile
       THEN /\ tmp' = [tmp EXCEPT ![name[r]] = Own(r)]
            /\ fd' = [fd EXCEPT ![r] = Own(r)]
       ELSE /\ fd' = [fd EXCEPT ![r] = tmp[name[r]]]
            /\ UNCHANGED tmp
  /\ contested' = contested \cup ({name[r]} \cap
                    {name[q] : q \in {x \in Reqs : Uploading(x)}})
  /\ pc' = [pc EXCEPT ![r] = "copy"]
  /\ UNCHANGED <<reply, free, name, alt, size, pos, got, store, data, astray>>

\* The number of bytes copied is not compared with the Content-Length.
CopyUnchecked(r) ==
  /\ pc[r] = "copy"
  /\ \/ /\ pos[r] < size[r]
        /\ data' = [data EXCEPT ![fd[r]][pos[r] + 1] = Own(r)]
        /\ pos' = [pos EXCEPT ![r] = pos[r] + 1]
        /\ UNCHANGED pc
     \/ /\ pc' = [pc EXCEPT ![r] = "rename"]
        /\ UNCHANGED <<pos, data>>
  /\ UNCHANGED <<reply, free, name, alt, size, fd, got, tmp, store, astray, contested>>

\* A failed rename removes its target instead of its source.
RemoveTarget(r) ==
  /\ pc[r] = "remove"
  /\ store' = [store EXCEPT ![name[r]] = NoFile]
  /\ reply' = [reply EXCEPT ![r] = "error"]
  /\ pc' = [pc EXCEPT ![r] = "recycle"]
  /\ UNCHANGED <<free, workVars, tmp, data, astray, contested>>

\* The object is not recycled when the handler answers an error.
RecycleOnSuccess(r) ==
  /\ pc[r] = "recycle"
  /\ free' = IF reply[r] = "ok" THEN free + 1 ELSE free
  /\ pc' = [pc EXCEPT ![r] = "done"]
  /\ UNCHANGED <<reply, workVars, fsVars, astray, contested>>

-----------------------------------------------------------------------------
Answer(r, status) ==
  /\ reply' = [reply EXCEPT ![r] = status]
  /\ pc' = [pc EXCEPT ![r] = "recycle"]

\* A path without "/" is refused before an object is taken.
ServeHTTP(r) ==
  /\ pc[r] = "start"
  /\ \/ /\ reply' = [reply EXCEPT ![r] = "error"]
        /\ pc' = [pc EXCEPT ![r] = "done"]
        /\ UNCHANGED free
     \/ /\ free > 0
        /\ free' = free - 1
        /\ pc' = [pc EXCEPT ![r] = "dispatch"]
        /\ UNCHANGED reply
  /\ UNCHANGED <<workVars, fsVars, astray, contested>>

\* ping, an action without handler, or a request a handler refuses or panics
\* on before its first effect.
AnswerAtOnce(r) ==
  /\ pc[r] = "dispatch"
  /\ \E status \in {"ok", "error"} : Answer(r, status)
  /\ UNCHANGED <<free, workVars, fsVars, astray, contested>>

\* Content-Length and filename are there.
DirectUpload(r) ==
  /\ pc[r] = "dispatch"
  /\ uploadType = upload_direct
  /\ \E n \in 1..MaxLen : size' = [size EXCEPT ![r] = n]
  /\ pc' = [pc EXCEPT ![r] = "create"]
  /\ UNCHANGED <<reply, free, name, alt, pos, fd, got, fsVars, astray, contested>>

\* os.Create: an existing file is truncated and stays the same inode.
Create(r) ==
  /\ pc[r] = "create"
  /\ \/ /\ Answer(r, "error")
        /\ UNCHANGED <<fd, tmp, data, contested>>
     \/ /\ LET inode == IF tmp[name[r]] = NoFile THEN Own(r) ELSE tmp[name[r]] IN
             /\ tmp' = [tmp EXCEPT ![name[r]] = inode]
             /\ data' = [data EXCEPT ![inode] = Empty]
             /\ fd' = [fd EXCEPT ![r] = inode]
        /\ contested' = contested \cup ({name[r]} \cap
                          {name[q] : q \in {x \in Reqs : Uploading(x)}})
        /\ pc' = [pc EXCEPT ![r] = "copy"]
        /\ UNCHANGED reply
  /\ UNCHANGED <<free, name, alt, size, pos, got, store, astray>>

\* path.Join resolves a name with "..": the temporary file may be a file of the
\* store, the very one it is to become.
CreateInStore(r) ==
  /\ pc[r] = "create"
  /\ LET inode == IF store[name[r]] = NoFile THEN Own(r) ELSE store[name[r]] IN
       /\ store' = [store EXCEPT ![name[r]] = inode]
       /\ data' = [data EXCEPT ![inode] = Empty]
       /\ fd' = [fd EXCEPT ![r] = inode]
  /\ astray' = astray \cup {r}
  /\ contested' = contested \cup {name[r]}
  /\ pc' = [pc EXCEPT ![r] = "copy"]
  /\ UNCHANGED <<reply, free, name, alt, size, pos, got, tmp>>

\* io.CopyN: one more chunk, or the end; a body or a write that fails early
\* leaves the file shorter than announced.
Copy(r) ==
  /\ pc[r] = "copy"
  /\ \/ /\ pos[r] < size[r]
        /\ data' = [data EXCEPT ![fd[r]][pos[r] + 1] = Own(r)]
        /\ pos' = [pos EXCEPT ![r] = pos[r] + 1]
        /\ UNCHANGED pc
     \/ /\ pc' = [pc EXCEPT ![r] = IF pos[r] = size[r] THEN "rename" ELSE "remove"]
        /\ UNCHANGED <<pos, data>>
  /\ UNCHANGED <<reply, free, name, alt, size, fd, got, tmp, store, astray, contested>>

\* The file that the path of the upload leads to is gone, or is still there.
Leave(r) ==
  \/ /\ r \notin astray
     /\ tmp' = [tmp EXCEPT ![name[r]] = NoFile]
     /\ UNCHANGED store
  \/ /\ r \in astray
     /\ store' = [store EXCEPT ![name[r]] = NoFile]
     /\ UNCHANGED tmp
  \/ UNCHANGED <<tmp, store>>

\* os.Rename goes by the name: it moves whatever file has it now. With a name
\* with ".." the two paths may be the same, and the file stays, or the second
\* may lead out of the store.
Rename(r) ==
  /\ pc[r] = "rename"
  /\ \/ /\ r \notin astray /\ tmp[name[r]] # NoFile
        /\ store' = [store EXCEPT ![name[r]] = tmp[name[r]]]
        /\ tmp' = [tmp EXCEPT ![name[r]] = NoFile]
        /\ Answer(r, "ok")
        /\ UNCHANGED contested
     \/ /\ (IF r \in astray THEN store[name[r]] ELSE tmp[name[r]]) # NoFile
        /\ contested' = contested \cup {name[r]}
        /\ Leave(r)
        /\ Answer(r, "ok")
     \/ /\ pc' = [pc EXCEPT ![r] = "remove"]
        /\ UNCHANGED <<reply, tmp, store, contested>>
  /\ UNCHANGED <<free, workVars, data, astray>>

\* os.Remove, whose result is ignored, and the answer.
Remove(r) ==
  /\ pc[r] = "remove"
  /\ Leave(r)
  /\ Answer(r, "error")
  /\ UNCHANGED <<free, workVars, data, astray, contested>>

-----------------------------------------------------------------------------
(* The form nginx sends when it has stored the files of a multipart body.  *)

FastcgiUpload(r) ==
  /\ pc[r] = "dispatch"
  /\ uploadType = ngx_fastcgi
  /\ \E n \in 1..MaxParts : size' = [size EXCEPT ![r] = n]
  /\ data' = [i \in Inodes |-> IF i[1] = r THEN Content(i, MaxLen) ELSE data[i]]
  /\ pc' = [pc EXCEPT ![r] = "move"]
  /\ UNCHANGED <<reply, free, name, alt, pos, fd, got, tmp, store, astray, contested>>

\* Every file of the form goes to the same name; the first error is the end.
Move(r) ==
  /\ pc[r] = "move"
  /\ \/ /\ pos[r] < size[r]
        /\ pos' = [pos EXCEPT ![r] = pos[r] + 1]
        /\ store' = [store EXCEPT ![name[r]] = <<r, pos[r] + 1>>]
        /\ UNCHANGED <<pc, reply>>
     \/ /\ pos[r] < size[r]
        /\ Answer(r, "error")
        /\ UNCHANGED <<pos, store>>
     \/ /\ pos[r] = size[r]
        /\ Answer(r, "ok")
        /\ UNCHANGED <<pos, store>>
  /\ UNCHANGED <<free, name, alt, size, fd, got, tmp, data, astray, contested>>

-----------------------------------------------------------------------------
(* Downloads.                                                              *)

\* The index knows the link: the name it gives, and that name with the
\* extension of the link when it has none of its own.
Download(r) ==
  /\ pc[r] = "dispatch"
  /\ \E n \in Names : alt' = [alt EXCEPT ![r] = n]
  /\ pc' = [pc EXCEPT ![r] = "stat"]
  /\ UNCHANGED <<reply, free, name, size, pos, fd, got, fsVars, astray, contested>>

\* exists: first the name, then the other one, then 404.
Stat(r) ==
  /\ pc[r] = "stat"
  /\ \/ /\ store[name[r]] # NoFile
        /\ pc' = [pc EXCEPT ![r] = "open"]
     \/ /\ store[name[r]] = NoFile
        /\ pc' = [pc EXCEPT ![r] = "stat again"]
  /\ UNCHANGED <<reply, free, workVars, fsVars, astray, contested>>

StatAgain(r) ==
  /\ pc[r] = "stat again"
  /\ name' = [name EXCEPT ![r] = alt[r]]
  /\ \/ /\ store[alt[r]] # NoFile
        /\ pc' = [pc EXCEPT ![r] = "open"]
        /\ UNCHANGED reply
     \/ /\ store[alt[r]] = NoFile
        /\ Answer(r, "error")
  /\ UNCHANGED <<free, alt, size, pos, fd, got, fsVars, astray, contested>>

\* http.ServeFile opens the file and sends what it reads.
Open(r) ==
  /\ pc[r] = "open"
  /\ \/ /\ store[name[r]] # NoFile
        /\ fd' = [fd EXCEPT ![r] = store[name[r]]]
        /\ pc' = [pc EXCEPT ![r] = "read"]
        /\ UNCHANGED reply
     \/ /\ store[name[r]] = NoFile
        /\ Answer(r, "error")
        /\ UNCHANGED fd
  /\ UNCHANGED <<free, name, alt, size, pos, got, fsVars, astray, contested>>

Read(r) ==
  /\ pc[r] = "read"
  /\ pos[r] < MaxLen
  /\ got' = [got EXCEPT ![r][pos[r] + 1] = data[fd[r]][pos[r] + 1]]
  /\ pos' = [pos EXCEPT ![r] = pos[r] + 1]
  /\ IF pos[r] + 1 = MaxLen THEN Answer(r, "ok") ELSE UNCHANGED <<reply, pc>>
  /\ UNCHANGED <<free, name, alt, size, fd, fsVars, astray, contested>>

Recycle(r) ==
  /\ pc[r] = "recycle"
  /\ free' = free + 1
  /\ pc' = [pc EXCEPT ![r] = "done"]
  /\ UNCHANGED <<reply, workVars, fsVars, astray, contested>>

-----------------------------------------------------------------------------
Request(r) ==
  \/ ServeHTTP(r)
  \/ AnswerAtOnce(r)
  \/ DirectUpload(r)
  \/ Create(r)
  \/ CreateInStore(r)
  \/ Copy(r)
  \/ Rename(r)
  \/ Remove(r)
  \/ FastcgiUpload(r)
  \/ Move(r)
  \/ Download(r)
  \/ Stat(r)
  \/ StatAgain(r)
  \/ Open(r)
  \/ Read(r)
  \/ Recycle(r)

Next == (\E r \in Reqs : Request(r)) /\ UNCHANGED uploadType

Spec == Init /\ [][Next]_vars

-----------------------------------------------------------------------------
(***************************************************************************)
(* The request objects (fileop.go:94-101, 158-164): every answer, error or *)
(* not, gives the object back.                                             *)
(***************************************************************************)
PoolConserved ==
  free + Cardinality({r \in Reqs : pc[r] \notin {"start", "done"}}) = RequestPoolSize

(***************************************************************************)
(* What is in the store is whole (fileop.go:210-235, 307-316): a stored    *)
(* file is all of what one upload announced, whatever fails or ends early, *)
(* unless two direct uploads of its name overlapped or a name with ".."    *)
(* led one to it.                                                          *)
(***************************************************************************)
Whole(file) ==
  \E r \in Reqs : \/ file = Content(Own(r), size[r]) /\ size[r] > 0
                  \/ \E p \in 1..MaxParts : file = Content(<<r, p>>, MaxLen)

StoredWhole ==
  \A n \in Names \ contested : store[n] # NoFile => Whole(data[store[n]])

(***************************************************************************)
(* "ok" is about one's own file (fileop.go:229-236): the file a rename put *)
(* in the store is the one its upload wrote, unless uploads overlapped or  *)
(* the name has "..".                                                      *)
(***************************************************************************)
OkMeansStored ==
  [][\A r \in Reqs : pc[r] = "rename" /\ reply'[r] = "ok" =>
       \/ name[r] \in contested'
       \/ data[store'[name[r]]] = Content(Own(r), size[r])]_vars

(***************************************************************************)
(* A download is one file (fileop.go:392-402): between exists and the open *)
(* of ServeFile nothing takes a file out of the store, and though it may   *)
(* be replaced while it is read, what the client gets is whole and is not  *)
(* a mixture of the old and the new; with the exceptions above.            *)
(***************************************************************************)
FoundIsServed ==
  \A r \in Reqs :
    /\ pc[r] = "open" => store[name[r]] # NoFile \/ name[r] \in contested
    /\ fd[r] # NoFile /\ pos[r] = MaxLen /\ pc[r] \in {"recycle", "done"} /\ got[r] # Empty
         => Whole(got[r]) \/ name[r] \in contested
=============================================================================
