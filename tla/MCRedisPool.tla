---- MODULE MCRedisPool ----
(* Three clients share a pool of one connection: one uses it, two wait or   *)
(* dial meanwhile. The names suffice for one connection open, one counted   *)
(* down twice and one held though closed.                                   *)
EXTENDS RedisPool
====
