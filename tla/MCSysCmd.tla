------------------------------ MODULE MCSysCmd ------------------------------
(***************************************************************************)
(* Instances of SysCmd for TLC.                                            *)
(***************************************************************************)
EXTENDS SysCmd

LowerCase == [a \in Args |-> IF a = "DF" THEN "df" ELSE IF a = "Disk" THEN "disk" ELSE a]

\* A command with capitals, a monitor, and an empty body, which runs what an
\* earlier one asked for, or nothing on a fresh object.
RunBodies ==
  {[op |-> "syscmd", args |-> "DF", bad |-> FALSE],
   [op |-> "monitor", args |-> "Disk", bad |-> FALSE],
   [op |-> Absent, args |-> Absent, bad |-> FALSE]}
=============================================================================
