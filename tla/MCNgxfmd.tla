------------------------------ MODULE MCNgxfmd ------------------------------
(***************************************************************************)
(* Instances of Ngxfmd for TLC: the four handlers of the daemon.           *)
(***************************************************************************)
EXTENDS Ngxfmd

NgxfmdHandlers == {"files", "qianke", "sandbox", "url2name"}
NgxfmdNative   == {"sandbox"}
NgxfmdSpawning == {"url2name"}
NgxfmdClients  == {"files"}

\* Every handler has its default pool, but for one of them, or no section; one
\* object or several is a difference for the Lua state alone.
NgxfmdConfs ==
  {[h \in NgxfmdHandlers |-> IF h = odd THEN size ELSE others] :
     odd \in NgxfmdHandlers, size \in Sizes \ {"one"}, others \in {"none", "many"}}
    \cup {[h \in NgxfmdHandlers |-> "one"]}
=============================================================================
