---- MODULE MCRedisClient ----
(* Two goroutines, one connection at a time, and two operations: a second   *)
(* command of any type may find what a first one left, and a session of the *)
(* other goroutine may come between.                                        *)
EXTENDS RedisClient, TLC
Symmetry == Permutations(Clients)
====
