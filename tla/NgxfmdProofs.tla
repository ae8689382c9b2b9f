---------------------------- MODULE NgxfmdProofs ----------------------------
(***************************************************************************)
(* The life of ngxfmd for any set of handlers and any configuration: why   *)
(* only a handler without section or objects hangs a request, and what     *)
(* each end of the process says.                                           *)
(***************************************************************************)
EXTENDS Ngxfmd, TLAPS

Early  == {"load", "log", "init"}          \* before anything is served
Phases == Early \cup {"serve", "spawn", "notify", "wait", "uninit", "hung"}

TypeOK ==
  /\ conf \in [Handlers -> Sizes] /\ todo \subseteq Handlers /\ ready \subseteq Handlers
  /\ main \in Phases

\* No server is on before the loop of Inits is done.
Quiet == main \in Early => first = "off" /\ second = "off" /\ fcgi = "off"

\* What the loop of Inits has reached is ready if it is configured.
Initialised ==
  /\ main \in {"load", "log"} => ready = {}
  /\ main = "init" => ready = Sections \ todo
  /\ main \notin Early => ready = Sections

\* What the loop of Uninits has reached is closed, and was ready.
Uninitialised ==
  /\ main \notin {"uninit", "hung"} => closed = {}
  /\ main = "uninit" => closed = Handlers \ todo /\ closed \subseteq ready

IInv == TypeOK /\ Quiet /\ Initialised /\ Uninitialised /\ OnlyUnconfiguredHang /\ EndHasReason

-----------------------------------------------------------------------------
LEMMA SectionsFixed == ASSUME conf' = conf PROVE Sections' = Sections
BY DEF Sections

LEMMA InitInv == Init => IInv
BY NgxfmdAssumption DEF Init, IInv, TypeOK, Quiet, Initialised, Uninitialised,
   OnlyUnconfiguredHang, EndHasReason, Early, Phases

\* A process that lives, or ends by an error or a signal, needs no reason.
LEMMA NoReason == ASSUME exit' \notin {"return", "panic"} PROVE EndHasReason'
BY DEF EndHasReason

\* Steps that leave the two loops where they are.
LEMMA StartInv ==
  ASSUME IInv, LoadConfig \/ InitLog
  PROVE  IInv'
<1>1. /\ main \in {"load", "log"} /\ main' \in {"load", "log", "init"}
      /\ UNCHANGED <<bootVars, ready, closed, serverVars, stuck>>
      /\ exit' \in {"no", "fatal"} \/ (exit' = "panic" /\ main' = "load")
  <2>1. CASE LoadConfig
    BY <2>1 DEF LoadConfig, Exit
  <2>2. CASE InitLog
    BY <2>2 DEF InitLog, Exit
  <2> QED BY <2>1, <2>2
<1>2. Sections' = Sections
  BY <1>1, SectionsFixed DEF bootVars
<1>3. EndHasReason'
  <2>1. CASE exit' \in {"no", "fatal"}
    BY <2>1, NoReason
  <2>2. CASE exit' = "panic" /\ main' = "load"
    BY <2>2 DEF EndHasReason
  <2> QED BY <1>1, <2>1, <2>2
<1>4. CASE main' = "init"
  <2>1. todo' = Handlers
    BY <1>4 DEF LoadConfig, InitLog
  <2>2. Sections \subseteq Handlers
    BY DEF Sections
  <2> QED BY <1>1, <1>2, <1>3, <1>4, <2>1, <2>2 DEF IInv, TypeOK, Quiet, Initialised,
             Uninitialised, OnlyUnconfiguredHang, Early, Phases, bootVars, serverVars
<1>5. CASE main' # "init"
  <2>1. todo' = todo
    BY <1>5 DEF LoadConfig, InitLog
  <2> QED BY <1>1, <1>2, <1>3, <1>5, <2>1 DEF IInv, TypeOK, Quiet, Initialised, Uninitialised,
             OnlyUnconfiguredHang, Early, Phases, bootVars, serverVars
<1> QED BY <1>4, <1>5

LEMMA InitHandlerInv ==
  ASSUME IInv, NEW h \in Handlers, InitHandler(h)
  PROVE  IInv'
<1>1. /\ main = "init" /\ h \in todo /\ exit = "no"
      /\ UNCHANGED <<bootVars, main, closed, serverVars, stuck>>
  BY DEF InitHandler
<1>2. \/ h \notin Sections /\ todo' = todo \ {h} /\ UNCHANGED <<ready, exit>>
      \/ h \in Sections /\ todo' = todo \ {h} /\ ready' = ready \cup {h} /\ UNCHANGED exit
      \/ UNCHANGED <<todo, ready>> /\ exit' = "panic" /\ conf[h] = "bad"
      \/ UNCHANGED <<todo, ready>> /\ exit' = IF logging THEN "fatal" ELSE "panic"
  BY DEF InitHandler, Reached, Exit
<1>3. Sections' = Sections
  BY <1>1, SectionsFixed DEF bootVars
<1>4. ready' = Sections \ todo' /\ todo' \subseteq Handlers /\ ready' \subseteq Handlers
  BY <1>1, <1>2 DEF IInv, TypeOK, Initialised, Early, Sections
<1>5. EndHasReason'
  BY <1>1, <1>2 DEF EndHasReason, bootVars
<1> QED BY <1>1, <1>3, <1>4, <1>5 DEF IInv, TypeOK, Quiet, Initialised, Uninitialised,
           OnlyUnconfiguredHang, Early, Phases, bootVars, serverVars

\* From the end of the loop of Inits to the wait for a signal.
LEMMA ServeInv ==
  ASSUME IInv, ListenAndServe \/ ServeReturns \/ Spawn \/ Notify
  PROVE  IInv'
<1>1. /\ main \in {"init", "serve", "spawn", "notify"}
      /\ main' \in {"serve", "spawn", "notify", "wait"}
      /\ UNCHANGED <<bootVars, todo, ready, closed, stuck, exit>> /\ exit = "no"
  BY DEF ListenAndServe, ServeReturns, Spawn, Notify
<1>2. ready = Sections
  BY DEF ListenAndServe, ServeReturns, Spawn, Notify, IInv, Initialised, Early
<1>3. Sections' = Sections
  BY <1>1, SectionsFixed DEF bootVars
<1>4. EndHasReason'
  BY <1>1, NoReason
<1> QED BY <1>1, <1>2, <1>3, <1>4 DEF IInv, TypeOK, Quiet, Initialised, Uninitialised,
           OnlyUnconfiguredHang, Early, Phases, bootVars

LEMMA AcceptSignalInv ==
  ASSUME IInv, AcceptSignal
  PROVE  IInv'
<1>1. Sections' = Sections /\ EndHasReason'
  BY SectionsFixed, NoReason DEF AcceptSignal, bootVars
<1> QED BY <1>1 DEF AcceptSignal, IInv, TypeOK, Quiet, Initialised, Uninitialised,
           OnlyUnconfiguredHang, Early, Phases, bootVars, serverVars

LEMMA UninitHandlerInv ==
  ASSUME IInv, NEW h \in Handlers, UninitHandler(h)
  PROVE  IInv'
<1>1. /\ main = "uninit" /\ h \in todo /\ exit = "no"
      /\ UNCHANGED <<bootVars, ready, serverVars, stuck, insideVars>>
  BY DEF UninitHandler
<1>2. Sections' = Sections
  BY <1>1, SectionsFixed DEF bootVars
<1>3. ready = Sections /\ closed = Handlers \ todo /\ closed \subseteq ready
  BY <1>1 DEF IInv, Initialised, Uninitialised, Early
<1>4. CASE h \in ready \ closed
  <2>1. /\ todo' = todo \ {h} /\ closed' = closed \cup {h}
        /\ \/ main' = main /\ exit' = exit
           \/ main' = main /\ exit' = "panic" /\ h \in Native
           \/ main' = "hung" /\ exit' = exit
    <3> USE DEF Exit, Reached
    <3> QED BY <1>4, Zenon DEF UninitHandler
  <2>2. EndHasReason'
    BY <1>1, <2>1 DEF EndHasReason
  <2> QED BY <1>1, <1>2, <1>3, <1>4, <2>1, <2>2 DEF IInv, TypeOK, Quiet, Initialised,
             Uninitialised, OnlyUnconfiguredHang, Early, Phases, bootVars, serverVars
\* Its turn comes once, so a handler that panics here was never ready.
<1>5. CASE h \notin ready \ closed
  <2>1. h \notin Sections
    BY <1>1, <1>3, <1>5
  <2>2. UNCHANGED <<main, todo, closed>> /\ exit' = "panic"
    BY <1>5 DEF UninitHandler, Exit
  <2>3. EndHasReason'
    BY <1>1, <2>1, <2>2 DEF EndHasReason, Sections, bootVars
  <2> QED BY <1>1, <1>2, <2>2, <2>3 DEF IInv, TypeOK, Quiet, Initialised, Uninitialised,
             OnlyUnconfiguredHang, Early, Phases, bootVars, serverVars
<1> QED BY <1>4, <1>5

LEMMA ReturnInv ==
  ASSUME IInv, Return
  PROVE  IInv'
<1>1. /\ UNCHANGED <<bootVars, mainVars, serverVars, stuck>> /\ exit' = "return"
      /\ main = "uninit" /\ todo = {}
  BY DEF Return, Exit
<1>2. Sections' = Sections
  BY <1>1, SectionsFixed DEF bootVars
<1>3. closed = Handlers /\ Sections = Handlers
  BY <1>1 DEF IInv, TypeOK, Initialised, Uninitialised, Early
<1> QED BY <1>1, <1>2, <1>3 DEF IInv, TypeOK, Quiet, Initialised, Uninitialised,
           OnlyUnconfiguredHang, EndHasReason, bootVars, mainVars, serverVars

\* The other servers start only after main spawned them.
LEMMA ServersInv ==
  ASSUME IInv, SecondServer \/ SecondReturns \/ FcgiServer \/ FcgiReturns
  PROVE  IInv'
<1>1. /\ UNCHANGED <<bootVars, mainVars, stuck>> /\ exit' \in {"no", "fatal"}
      /\ second # "off" \/ fcgi # "off"
  BY DEF SecondServer, SecondReturns, FcgiServer, FcgiReturns, Exit
<1>2. main \notin Early
  BY <1>1 DEF IInv, Quiet
<1>3. Sections' = Sections /\ EndHasReason'
  BY <1>1, SectionsFixed, NoReason DEF bootVars
<1> QED BY <1>1, <1>2, <1>3 DEF IInv, TypeOK, Quiet, Initialised, Uninitialised,
           OnlyUnconfiguredHang, bootVars, mainVars

\* A request comes in when every configured handler is ready.
LEMMA RequestInv ==
  ASSUME IInv, NEW h \in Handlers,
         \/ RequestBlocks(h) \/ EnterLua(h) \/ LeaveLua(h)
         \/ EnterClient(h) \/ LeaveClient(h) \/ RequestCrashes(h)
  PROVE  IInv'
<1>1. UNCHANGED <<bootVars, mainVars, serverVars>>
  BY DEF RequestBlocks, EnterLua, LeaveLua, EnterClient, LeaveClient, RequestCrashes
<1>2. Sections' = Sections
  BY <1>1, SectionsFixed DEF bootVars
<1>3. OnlyUnconfiguredHang'
  <2>1. CASE RequestBlocks(h)
    <3>1. ready = Sections
      BY <2>1 DEF RequestBlocks, IInv, Quiet, Initialised, Connected
    <3>2. conf[h] \in {"none", "empty"} /\ stuck' = stuck \cup {h}
      BY <2>1, <3>1 DEF RequestBlocks, Sections
    <3> QED BY <1>1, <3>2 DEF IInv, OnlyUnconfiguredHang, bootVars
  <2>2. CASE stuck' = stuck
    BY <1>1, <2>2 DEF IInv, OnlyUnconfiguredHang, bootVars
  <2> QED BY <2>1, <2>2 DEF EnterLua, LeaveLua, EnterClient, LeaveClient, RequestCrashes
<1>4. EndHasReason'
  <2>1. CASE RequestCrashes(h)
    BY <2>1 DEF RequestCrashes, Exit, EndHasReason, bootVars, mainVars, insideVars, luaVars
  <2>2. CASE exit' = "no"
    BY <2>2, NoReason
  <2> QED BY <2>1, <2>2 DEF RequestBlocks, EnterLua, LeaveLua, EnterClient, LeaveClient
<1> QED BY <1>1, <1>2, <1>3, <1>4 DEF IInv, TypeOK, Quiet, Initialised, Uninitialised,
           bootVars, mainVars, serverVars

LEMMA OutsideInv ==
  ASSUME IInv, Signal \/ OtherProcess \/ UNCHANGED vars
  PROVE  IInv'
<1>1. UNCHANGED <<bootVars, mainVars, serverVars, stuck, insideVars>> /\ exit' \in {exit, "killed"}
  BY DEF Signal, OtherProcess, vars
<1>2. Sections' = Sections
  BY <1>1, SectionsFixed DEF bootVars
<1> QED BY <1>1, <1>2 DEF IInv, TypeOK, Quiet, Initialised, Uninitialised, OnlyUnconfiguredHang,
           EndHasReason, bootVars, mainVars, serverVars, insideVars, luaVars

LEMMA NextInv == IInv /\ [Next]_vars => IInv'
BY StartInv, InitHandlerInv, ServeInv, AcceptSignalInv, UninitHandlerInv, ReturnInv, ServersInv,
   RequestInv, OutsideInv DEF Next, Main

(* In whatever order the map is ranged over and whoever of the servers     *)
(* serves, a request that waits for ever for an object went to a handler   *)
(* that has no section in the configuration, or an empty pool              *)
(* (cmds.go:41-54, ngxfm.go:67-72).                                        *)
THEOREM OnlyUnconfigured == Spec => []OnlyUnconfiguredHang
<1>1. IInv => OnlyUnconfiguredHang
  BY DEF IInv
<1> QED BY InitInv, NextInv, <1>1, PTL DEF Spec

(* main returns only when every handler was configured and uninitialised,  *)
(* and a panic has one of its causes: the text of the file, no log, a      *)
(* handler without section or with a size no channel has, Lua memory that  *)
(* Uninit freed, or two requests in one Lua state (cmds.go:46-65,          *)
(* sandbox.go:95, ngxfm.go:104-106).                                       *)
THEOREM ReasonedEnd == Spec => []EndHasReason
<1>1. IInv => EndHasReason
  BY DEF IInv
<1> QED BY InitInv, NextInv, <1>1, PTL DEF Spec
=============================================================================
