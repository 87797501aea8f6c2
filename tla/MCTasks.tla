------------------------------ MODULE MCTasks ------------------------------
(***************************************************************************)
(* A small instance of ScheduledTasks: one task of one tenant that is due  *)
(* twice in a row and once beyond the longest timer.  One unit of time is  *)
(* RUN_TIMEOUT_MS; the miss margin is shorter than that and rounds to 0.   *)
(***************************************************************************)
EXTENDS ScheduledTasks, TLC

CONSTANTS t1, u1

MCOwner == [t \in Task |-> u1]

Cron == {[kind |-> "cron", instants |-> {1, 2, 7}]}
=============================================================================
