------------------------------- MODULE Cmdd --------------------------------
(* The daemon cmdset from its start to its end (main.go, srv_conf.go,       *)
(* cmds.go): configuration, logs, its entry in etcd, its handlers, and the  *)
(* server. External: etcd, the network, and what kills or restarts a daemon.*)
EXTENDS Naturals

CONSTANTS Daemons,    \* processes, each started any number of times
          Handlers,   \* the names of the handler map
          Waiting,    \* those with operations that may wait for ever: mongo, syscmd
          Monitors,   \* those with goroutines of their own that may panic: mongo
          Files       \* the configuration files looked at

VARIABLES conf,       \* the configuration of each daemon
          pc,         \* where its main is
          todo,       \* the handlers that InitHandlerConf has not visited
          ready,      \* those whose Init has returned nil
          blocked,    \* those with a request that may wait for ever
          dir, entry  \* etcd: whether config_dir exists, the daemons entered

vars == <<conf, pc, todo, ready, blocked, dir, entry>>

\* What the section of a handler says of its pool: there is no section, a size
\* no channel can have, no object, or some.
Pools == {"none", "bad", "empty", "some"}

\* Addresses are of daemons: two that listen on one are the same entry.
Configs == [text : BOOLEAN,                  \* the parser of TOML has an answer to it
            logs : BOOLEAN,                  \* one of the two logs is on
            port : BOOLEAN,                  \* listen_addr has a colon
            host : BOOLEAN,                  \* and something before it
            sections : [Handlers -> Pools]]

Goto(d, at) == pc' = [pc EXCEPT ![d] = at]
Initial(d) == pc[d] \in {"start", "exit", "panic", "fallen"}

Init ==
    /\ conf \in [Daemons -> Files]
    /\ pc = [d \in Daemons |-> "start"]
    /\ todo = [d \in Daemons |-> {}]
    /\ ready = [d \in Daemons |-> {}]
    /\ blocked = [d \in Daemons |-> {}]
    /\ dir = FALSE
    /\ entry = {}

\* LoadCmdConfig, analyzeCmddConf and InitLog: an error exits, and a text that
\* is a bug to the parser panics.
Load(d) ==
    /\ Initial(d)
    /\ IF conf[d].text THEN Goto(d, "address") \/ Goto(d, "exit") ELSE Goto(d, "panic")
    /\ ready' = [ready EXCEPT ![d] = {}]
    /\ blocked' = [blocked EXCEPT ![d] = {}]
    /\ UNCHANGED <<conf, todo, dir, entry>>

\* An error is written to the log of errors first: without a log that panics.
FailsAt(d) == Goto(d, IF conf[d].logs THEN "exit" ELSE "panic")

\* The address to register: without a host that of the route to the internet.
Address(d) ==
    /\ pc[d] = "address"
    /\ \/ ~conf[d].port /\ Goto(d, "panic")
       \/ conf[d].port /\ Goto(d, "dir")
       \/ conf[d].port /\ ~conf[d].host /\ FailsAt(d)
    /\ UNCHANGED <<conf, todo, ready, blocked, dir, entry>>

(* Faulty variants, used by no specification. *)

\* The error of the entry is logged only.
EntryFailsOn(d) == IF conf[d].logs THEN Goto(d, "handlers") ELSE Goto(d, "panic")

\* CreateDir: an error, as that of a directory that exists, is only logged.
DirFails(d) == Goto(d, IF conf[d].logs THEN "entry" ELSE "panic")

CreateDir(d) ==
    /\ pc[d] = "dir"
    /\ \/ ~dir /\ dir' = TRUE /\ Goto(d, "entry")
       \/ DirFails(d) /\ UNCHANGED dir
    /\ UNCHANGED <<conf, todo, ready, blocked, entry>>

\* Set of the entry, which never expires; its answer may be lost.
EntryFails(d) == FailsAt(d)

SetEntry(d) ==
    /\ pc[d] = "entry"
    /\ \/ entry' = entry \cup {d} /\ Goto(d, "handlers")
       \/ entry' \in {entry, entry \cup {d}} /\ EntryFails(d)
    /\ todo' = [todo EXCEPT ![d] = Handlers]
    /\ UNCHANGED <<conf, ready, blocked, dir>>

InitFails(d, h) ==
    /\ FailsAt(d) \/ (conf[d].sections[h] = "bad" /\ Goto(d, "panic"))
    /\ UNCHANGED <<todo, ready>>

\* InitHandlerConf visits the handlers in any order: one without a section is
\* left as it is, and the first error ends the process, as does a make of a
\* channel with a negative size.
InitHandler(d) ==
    /\ pc[d] = "handlers"
    /\ \E h \in todo[d] :
          \/ /\ conf[d].sections[h] = "none"
             /\ todo' = [todo EXCEPT ![d] = @ \ {h}] /\ UNCHANGED <<ready, pc>>
          \/ /\ conf[d].sections[h] \in {"empty", "some"}
             /\ todo' = [todo EXCEPT ![d] = @ \ {h}]
             /\ ready' = [ready EXCEPT ![d] = @ \cup {h}] /\ UNCHANGED pc
          \/ conf[d].sections[h] # "none" /\ InitFails(d, h)
    /\ UNCHANGED <<conf, blocked, dir, entry>>

\* ListenAndServe, which fails when the port is taken; main then ends.
Listen(d) ==
    /\ pc[d] = "handlers" /\ todo[d] = {}
    /\ Goto(d, "serve") \/ Goto(d, "exit")
    /\ UNCHANGED <<conf, todo, ready, blocked, dir, entry>>

\* A request waits for good on the nil channel of a handler that has no pool,
\* or for an object of an empty one; with an object it may wait in its operation.
Request(d, h) ==
    /\ pc[d] = "serve"
    /\ h \notin ready[d] \/ conf[d].sections[h] = "empty" \/ h \in Waiting
    /\ blocked' = [blocked EXCEPT ![d] = @ \cup {h}]
    /\ UNCHANGED <<conf, pc, todo, ready, dir, entry>>

\* A goroutine that a request started follows a nil session, or logs an error
\* without a log: nobody recovers.
MonitorPanics(d, h) ==
    /\ pc[d] = "serve"
    /\ h \in Monitors \cap ready[d]
    /\ conf[d].sections[h] = "some"
    /\ Goto(d, "fallen")
    /\ UNCHANGED <<conf, todo, ready, blocked, dir, entry>>

\* The daemon catches no signal and takes its entry out of etcd never.
Die(d) ==
    /\ ~Initial(d)
    /\ Goto(d, "exit")
    /\ UNCHANGED <<conf, todo, ready, blocked, dir, entry>>

Main(d) == Load(d) \/ Address(d) \/ CreateDir(d) \/ SetEntry(d) \/ InitHandler(d) \/ Listen(d)

Next == \E d \in Daemons : Main(d) \/ Die(d) \/ \E h \in Handlers : Request(d, h) \/ MonitorPanics(d, h)

Spec == Init /\ [][Next]_vars

----------------------------------------------------------------------------
\* Who asks etcd finds every daemon that serves, also after restarts and when
\* several start at once, and each serves all it is configured for: a request
\* waits for ever only for a handler without section or objects, or in an
\* operation that waits. A start panics only for the text of its file, without
\* a log, without a port in its address, or for a size no channel has; a daemon
\* that serves falls only with a handler that has monitors.
ServesAsEntered ==
    \A d \in Daemons :
        /\ pc[d] = "serve" => /\ d \in entry
                             /\ \A h \in Handlers : conf[d].sections[h] # "none" => h \in ready[d]
        /\ \A h \in blocked[d] : conf[d].sections[h] \in {"none", "empty"} \/ h \in Waiting
        /\ pc[d] = "panic" => \/ ~conf[d].text \/ ~conf[d].logs \/ ~conf[d].port
                             \/ \E h \in Handlers : conf[d].sections[h] = "bad"
        /\ pc[d] = "fallen" => \E h \in Monitors : h \in Handlers /\ conf[d].sections[h] = "some"

\* The inductive invariant: a daemon past its entry is in etcd and has made
\* ready what it visited, which is all of it when it serves.
TypeOK ==
    /\ conf \in [Daemons -> Configs]
    /\ pc \in [Daemons -> {"start", "address", "dir", "entry", "handlers", "serve",
                         "exit", "panic", "fallen"}]
    /\ {todo, ready, blocked} \subseteq [Daemons -> SUBSET Handlers]

Visited ==
    \A d \in Daemons : pc[d] \in {"handlers", "serve"} =>
        /\ d \in entry
        /\ \A h \in Handlers \ todo[d] : conf[d].sections[h] # "none" => h \in ready[d]
        /\ pc[d] = "serve" => todo[d] = {}

IInv == TypeOK /\ Visited /\ ServesAsEntered
=============================================================================
