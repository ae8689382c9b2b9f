------------------------------- MODULE Ngxfmd -------------------------------
(***************************************************************************)
(* The life of the ngxfmd process: its main goroutine reads the            *)
(* configuration, opens the logs, initialises the registered handlers in   *)
(* the order of a Go map, serves, and on a signal uninitialises every      *)
(* handler and returns.  The three servers it starts share one handler     *)
(* table; the first runs on the main goroutine itself.                     *)
(*                                                                         *)
(* What a request does between the pool of its handler and its answer is   *)
(* the subject of the handlers' own modules; here it may be inside the Lua *)
(* state of a handler or inside its redis client while main goes on.       *)
(*                                                                         *)
(* External: the configuration file, what the Init of a handler finds      *)
(* (redis, mysql, a Lua file), the ports, the clients and the signals.     *)
(***************************************************************************)
EXTENDS Naturals, FiniteSets

\* What the section of a handler says of its pools: there is no section, a
\* size no channel can have, no object, one object, or several.
Sizes == {"none", "bad", "empty", "one", "many"}

CONSTANTS
  Handlers,   \* the handlers registered before main runs
  Native,     \* those that call into C memory their Uninit frees: sandbox
  Spawning,   \* those with goroutines of their own that log errors: url2name
  Clients,    \* those whose Uninit closes a redis client: files
  Confs       \* the configuration files: a size for every handler

ASSUME NgxfmdAssumption ==
  /\ Native \subseteq Handlers
  /\ Spawning \subseteq Handlers
  /\ Clients \subseteq Handlers
  /\ Confs \subseteq [Handlers -> Sizes]

VARIABLES
  conf,       \* the configuration file
  logging,    \* error_log or access_log is on
  main,       \* where the main goroutine stands
  todo,       \* the handlers its loop over CmdHandlers has not reached
  ready,      \* the handlers whose Init returned nil
  closed,     \* the handlers whose Uninit was called
  first,      \* the HTTP server on the main goroutine
  second,     \* the HTTP server main starts later on a goroutine
  fcgi,       \* the FastCGI server
  taken,      \* another process has the HTTP port
  signalled,  \* a signal waits in the channel
  stuck,      \* handlers with requests that wait for ever for an object
  inlua,      \* how many requests are inside the Lua state of a handler
  crowded,    \* history: the handlers that had two in it at once
  inclient,   \* the handlers with requests inside their redis client
  exit        \* "no" while the process lives, then how it ended

bootVars   == <<conf, logging>>
mainVars   == <<main, todo, ready, closed>>
serverVars == <<first, second, fcgi>>
luaVars    == <<inlua, crowded>>
insideVars == <<luaVars, inclient>>
vars == <<bootVars, mainVars, serverVars, taken, signalled, stuck, insideVars, exit>>

Init ==
  /\ conf \in Confs
  /\ logging \in BOOLEAN
  /\ main = "load"
  /\ todo = {}
  /\ ready = {}
  /\ closed = {}
  /\ first = "off"
  /\ second = "off"
  /\ fcgi = "off"
  /\ taken \in BOOLEAN
  /\ signalled = FALSE
  /\ stuck = {}
  /\ inlua = [h \in Native |-> 0]
  /\ crowded = {}
  /\ inclient = {}
  /\ exit = "no"

\* The handlers the file has a section for, and those with objects to give.
Sections == {h \in Handlers : conf[h] # "none"}
Pooled   == {h \in Handlers : conf[h] \in {"one", "many"}}

HttpServing == "serving" \in {first, second}

\* A server has accepted connections; those it has outlive its Serve.
Connected == \E s \in {first, second, fcgi} : s \in {"serving", "ended"}

Exit(how) == exit = "no" /\ exit' = how

\* The loop over CmdHandlers is done with h.
Reached(h) == todo' = todo \ {h}

-----------------------------------------------------------------------------
(* Faulty variants of operations below; the specification uses none.       *)

\* An error of a handler's Init is logged and the loop goes on.
InitHandlerGoesOn(h) ==
  /\ exit = "no"
  /\ main = "init"
  /\ h \in todo
  /\ Reached(h)
  /\ \/ ready' = ready \cup ({h} \cap Sections)
     \/ UNCHANGED ready
  /\ UNCHANGED <<bootVars, main, closed, serverVars, taken, signalled, stuck, insideVars, exit>>

\* A handler is uninitialised and its turn comes again.
UninitHandlerAgain(h) ==
  /\ exit = "no"
  /\ main = "uninit"
  /\ h \in todo
  /\ \/ /\ h \in ready \ closed
        /\ closed' = closed \cup {h}
        /\ UNCHANGED <<todo, exit>>
     \/ /\ h \notin ready \ closed
        /\ Exit("panic")
        /\ UNCHANGED <<todo, closed>>
  /\ UNCHANGED <<bootVars, main, ready, serverVars, taken, signalled, stuck, insideVars>>

\* main waits for its servers to end, as in the lines commented out.
AcceptSignalAfterServers ==
  /\ exit = "no"
  /\ main = "wait"
  /\ signalled
  /\ second \in {"failed", "ended"} /\ fcgi = "ended"
  /\ signalled' = FALSE
  /\ main' = "uninit"
  /\ todo' = Handlers
  /\ UNCHANGED <<bootVars, ready, closed, serverVars, taken, stuck, insideVars, exit>>

-----------------------------------------------------------------------------
(* The main goroutine.                                                     *)

\* A file the parser of TOML has no answer to ends the process as a panic.
LoadConfig ==
  /\ main = "load"
  /\ \/ \E how \in {"fatal", "panic"} : Exit(how) /\ UNCHANGED main
     \/ exit = "no" /\ main' = "log" /\ UNCHANGED exit
  /\ UNCHANGED <<bootVars, todo, ready, closed, serverVars, taken, signalled, stuck, insideVars>>

InitLog ==
  /\ main = "log"
  /\ \/ Exit("fatal") /\ UNCHANGED <<main, todo>>
     \/ exit = "no" /\ main' = "init" /\ todo' = Handlers /\ UNCHANGED exit
  /\ UNCHANGED <<bootVars, ready, closed, serverVars, taken, signalled, stuck, insideVars>>

\* One handler of InitHandlerConf: one without a section is left as it is; a
\* size that make refuses panics; the first error, of the decoding or of Init,
\* is logged - which needs a log - and ends the process.
InitHandler(h) ==
  /\ exit = "no"
  /\ main = "init"
  /\ h \in todo
  /\ \/ /\ h \notin Sections
        /\ Reached(h)
        /\ UNCHANGED <<ready, exit>>
     \/ /\ h \in Sections
        /\ conf[h] # "bad"
        /\ Reached(h)
        /\ ready' = ready \cup {h}
        /\ UNCHANGED exit
     \/ /\ conf[h] = "bad"
        /\ Exit("panic")
        /\ UNCHANGED <<todo, ready>>
     \/ /\ h \in Sections
        /\ Exit(IF logging THEN "fatal" ELSE "panic")
        /\ UNCHANGED <<todo, ready>>
  /\ UNCHANGED <<bootVars, main, closed, serverVars, taken, signalled, stuck, insideVars>>

\* The first ListenAndServe: on a free port it does not return.
ListenAndServe ==
  /\ exit = "no"
  /\ main = "init"
  /\ todo = {}
  /\ IF taken THEN first' = "failed" /\ main' = "spawn"
              ELSE first' = "serving" /\ main' = "serve"
  /\ UNCHANGED <<bootVars, todo, ready, closed, second, fcgi, taken, signalled, stuck, insideVars, exit>>

\* Until an Accept fails for good.
ServeReturns ==
  /\ exit = "no"
  /\ main = "serve"
  /\ first' = "ended"
  /\ main' = "spawn"
  /\ UNCHANGED <<bootVars, todo, ready, closed, second, fcgi, taken, signalled, stuck, insideVars, exit>>

\* Both go statements.
Spawn ==
  /\ exit = "no"
  /\ main = "spawn"
  /\ second' = "starting"
  /\ fcgi' = "starting"
  /\ main' = "notify"
  /\ UNCHANGED <<bootVars, todo, ready, closed, first, taken, signalled, stuck, insideVars, exit>>

Notify ==
  /\ exit = "no"
  /\ main = "notify"
  /\ main' = "wait"
  /\ UNCHANGED <<bootVars, todo, ready, closed, serverVars, taken, signalled, stuck, insideVars, exit>>

AcceptSignal ==
  /\ exit = "no"
  /\ main = "wait"
  /\ signalled
  /\ signalled' = FALSE
  /\ main' = "uninit"
  /\ todo' = Handlers
  /\ UNCHANGED <<bootVars, ready, closed, serverVars, taken, stuck, insideVars, exit>>

\* Uninit of a handler whose Init did not run follows a nil pointer, that of
\* one it ran for already closes it twice.  A lua_close may find a request in
\* the state, or what two at once left of it, and crash; the Close of a client
\* with a request inside may wait for ever for the connection it holds.
UninitHandler(h) ==
  /\ exit = "no"
  /\ main = "uninit"
  /\ h \in todo
  /\ \/ /\ h \in ready \ closed
        /\ Reached(h)
        /\ closed' = closed \cup {h}
        /\ UNCHANGED <<main, exit>>
     \/ /\ h \in Native \cap (ready \ closed)
        /\ inlua[h] > 0 \/ h \in crowded
        /\ Exit("panic")
        /\ Reached(h)
        /\ closed' = closed \cup {h}
        /\ UNCHANGED main
     \/ /\ h \in inclient \cap (ready \ closed)
        /\ main' = "hung"
        /\ Reached(h)
        /\ closed' = closed \cup {h}
        /\ UNCHANGED exit
     \/ /\ h \notin ready \ closed
        /\ Exit("panic")
        /\ UNCHANGED <<main, todo, closed>>
  /\ UNCHANGED <<bootVars, ready, serverVars, taken, signalled, stuck, insideVars>>

Return ==
  /\ main = "uninit"
  /\ todo = {}
  /\ Exit("return")
  /\ UNCHANGED <<bootVars, mainVars, serverVars, taken, signalled, stuck, insideVars>>

Main ==
  \/ LoadConfig
  \/ InitLog
  \/ \E h \in Handlers : InitHandler(h) \/ UninitHandler(h)
  \/ ListenAndServe
  \/ Spawn
  \/ Notify
  \/ AcceptSignal
  \/ Return

-----------------------------------------------------------------------------
(* The goroutines of the other two servers.                                *)

SecondServer ==
  /\ exit = "no"
  /\ second = "starting"
  /\ second' = IF taken THEN "failed" ELSE "serving"
  /\ UNCHANGED <<bootVars, mainVars, first, fcgi, taken, signalled, stuck, insideVars, exit>>

SecondReturns ==
  /\ exit = "no"
  /\ second = "serving"
  /\ second' = "ended"
  /\ UNCHANGED <<bootVars, mainVars, first, fcgi, taken, signalled, stuck, insideVars, exit>>

\* An error of Listen or of Serve ends the process.
FcgiServer ==
  /\ fcgi = "starting"
  /\ \/ exit = "no" /\ fcgi' = "serving" /\ UNCHANGED exit
     \/ Exit("fatal") /\ UNCHANGED fcgi
  /\ UNCHANGED <<bootVars, mainVars, first, second, taken, signalled, stuck, insideVars>>

FcgiReturns ==
  /\ fcgi = "serving"
  /\ Exit("fatal")
  /\ UNCHANGED <<bootVars, mainVars, serverVars, taken, signalled, stuck, insideVars>>

-----------------------------------------------------------------------------
(* The environment.                                                        *)

\* A request some server takes finds no object in the pool of its handler, now
\* or later: there is no pool before Init, and one of size zero stays empty.
RequestBlocks(h) ==
  /\ exit = "no"
  /\ Connected
  /\ h \notin ready \/ conf[h] = "empty"
  /\ stuck' = stuck \cup {h}
  /\ UNCHANGED <<bootVars, mainVars, serverVars, taken, signalled, insideVars, exit>>

\* A request runs the script, with as many others as there are objects; two
\* tell everything.  Uninit does not end the pool.
EnterLua(h) ==
  /\ exit = "no"
  /\ Connected
  /\ h \in Native \cap ready \cap Pooled
  /\ inlua[h] < IF conf[h] = "one" THEN 1 ELSE 2
  /\ inlua' = [inlua EXCEPT ![h] = @ + 1]
  /\ crowded' = IF inlua[h] = 1 THEN crowded \cup {h} ELSE crowded
  /\ UNCHANGED <<bootVars, mainVars, serverVars, taken, signalled, stuck, inclient, exit>>

LeaveLua(h) ==
  /\ exit = "no"
  /\ h \in Native
  /\ inlua[h] > 0
  /\ inlua' = [inlua EXCEPT ![h] = @ - 1]
  /\ UNCHANGED <<bootVars, mainVars, serverVars, taken, signalled, stuck, crowded, inclient, exit>>

\* Requests use the redis client of the handler; once closed it refuses.
EnterClient(h) ==
  /\ exit = "no"
  /\ Connected
  /\ h \in Clients \cap (ready \ closed) \cap Pooled
  /\ inclient' = inclient \cup {h}
  /\ UNCHANGED <<bootVars, mainVars, serverVars, taken, signalled, stuck, luaVars, exit>>

LeaveClient(h) ==
  /\ exit = "no"
  /\ h \in inclient
  /\ inclient' = inclient \ {h}
  /\ UNCHANGED <<bootVars, mainVars, serverVars, taken, signalled, stuck, luaVars, exit>>

\* A request uses the Lua state after lua_close or with another one; or an error
\* is logged with no log open by a goroutine of the handler's own or in a request
\* over FastCGI: nobody recovers from any of these.
RequestCrashes(h) ==
  /\ Connected
  /\ h \in ready \cap Pooled
  /\ \/ h \in Native /\ inlua[h] > 0 /\ h \in closed \cup crowded
     \/ ~logging /\ (h \in Spawning \/ fcgi = "serving")
  /\ Exit("panic")
  /\ UNCHANGED <<bootVars, mainVars, serverVars, taken, signalled, stuck, insideVars>>

\* Before Notify a signal has its default effect.
Signal ==
  /\ exit = "no"
  /\ IF main \in {"wait", "uninit", "hung"}
       THEN signalled' = TRUE /\ UNCHANGED exit
       ELSE exit' = "killed" /\ UNCHANGED signalled
  /\ UNCHANGED <<bootVars, mainVars, serverVars, taken, stuck, insideVars>>

OtherProcess ==
  /\ exit = "no"
  /\ ~HttpServing
  /\ taken' = ~taken
  /\ UNCHANGED <<bootVars, mainVars, serverVars, signalled, stuck, insideVars, exit>>

Next ==
  \/ Main
  \/ ServeReturns
  \/ SecondServer
  \/ SecondReturns
  \/ FcgiServer
  \/ FcgiReturns
  \/ \E h \in Handlers :
       \/ RequestBlocks(h)
       \/ EnterLua(h)
       \/ LeaveLua(h)
       \/ EnterClient(h)
       \/ LeaveClient(h)
       \/ RequestCrashes(h)
  \/ Signal
  \/ OtherProcess

Spec == Init /\ [][Next]_vars

-----------------------------------------------------------------------------
(***************************************************************************)
(* No handler with objects hangs for want of one (cmds.go:41-54,           *)
(* ngxfm.go:67-72, fileop.go:120-124): whatever the order of the map, a    *)
(* request that waits for ever for an object went to a handler that has no *)
(* section, or a pool of size zero.                                        *)
(***************************************************************************)
OnlyUnconfiguredHang == \A h \in stuck : conf[h] \in {"none", "empty"}

(***************************************************************************)
(* The ends of the process (cmds.go:46, 52, 61-65; ngxfm.go:104-106;       *)
(* url2name_op.go:151; sandbox.go:95; sandbox.c:53): when main returns     *)
(* every handler was configured and had its Uninit; and once the file is   *)
(* parsed, with a log and a section with a possible size for every         *)
(* handler, the process panics only after two requests were in one Lua     *)
(* state at once or after its lua_close.                                   *)
(***************************************************************************)
EndHasReason ==
  /\ exit = "return" => closed = Handlers /\ Sections = Handlers
  /\ exit = "panic" => \/ main = "load"
                       \/ ~logging
                       \/ \E h \in Handlers : conf[h] \in {"none", "bad"}
                       \/ Native \cap (closed \cup crowded) # {}

-----------------------------------------------------------------------------
(***************************************************************************)
(* Fairness.  The main goroutine and the two it starts run on; signals,    *)
(* requests, failing accepts and other processes are not fair, and a       *)
(* request may stay in a script or in redis for ever.                      *)
(***************************************************************************)
Fairness == WF_vars(Main) /\ WF_vars(SecondServer) /\ WF_vars(FcgiServer)

FairSpec == Spec /\ Fairness

\* A signal ends the process (ngxfm.go:100-106), whichever servers serve and
\* whatever runs, unless a request is inside a client that Uninit closes
\* (fileop.go:147, pool.go:256); and a port that was taken at first is tried
\* again (ngxfm.go:72-85): HTTP is served after all, unless the other process
\* has or takes it once more.
MainMovesOn ==
  /\ (main = "wait" /\ signalled) ~> (exit # "no" \/ inclient # {})
  /\ main = "spawn" ~> (second = "serving" \/ taken \/ exit # "no")

\* README.md:25 of the repository: ngxfmd supports the fastcgi and the http
\* interface by default; a process that serves one comes to serve the other.
BothInterfaces == HttpServing ~> (fcgi = "serving" \/ exit # "no")
=============================================================================
