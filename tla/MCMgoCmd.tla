------------------------------ MODULE MCMgoCmd ------------------------------
(***************************************************************************)
(* Instances of MgoCmd for TLC.                                            *)
(***************************************************************************)
EXTENDS MgoCmd, TLC

\* Starts, stops, and a request without one, which runs the
\* command an earlier request left in its object.
ServeBodies ==
  {[db |-> "a", cmd |-> "diskMonB", bad |-> FALSE],
   [db |-> Absent, cmd |-> "diskMonE", bad |-> FALSE],
   [db |-> "b", cmd |-> Absent, bad |-> FALSE]}

\* Monitors on the default database and on a, a request that is refused but
\* leaves its database behind, and the other commands.
DropBodies ==
  {[db |-> Absent, cmd |-> "diskMonB", bad |-> FALSE],
   [db |-> "a", cmd |-> "diskMonB", bad |-> FALSE],
   [db |-> Absent, cmd |-> "dbMonB", bad |-> FALSE],
   [db |-> Absent, cmd |-> "dbStats", bad |-> FALSE],
   [db |-> "a", cmd |-> Absent, bad |-> TRUE]}

Names(ns) == {[hid |-> "h", name |-> n] : n \in ns}

NoColls == [d \in DBNames |-> {}]

\* 2014_10_1 sorts before 2014_8_1 and 2014_9_1, and 2015_1_1 after them: of the
\* first three, in the default database, it is the newest that is the victim.
DropDates == <<3, 1, 2, 4>>
NoDates == <<>>

\* One victim in the default database, none in a until it grows.
DropColls == [d \in DBNames |-> IF d = "" THEN Names({1, 2, 3}) ELSE Names({1})]

Symmetry == Permutations(Reqs)
=============================================================================
