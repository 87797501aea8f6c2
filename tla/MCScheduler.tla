---------------------------- MODULE MCScheduler ----------------------------
(***************************************************************************)
(* Small instances of Scheduler.  One unit of time is one miss margin.     *)
(***************************************************************************)
EXTENDS Scheduler, TLC

CONSTANTS t1, t2, u1

MCOwner == [t \in Task |-> u1]

(***************************************************************************)
(* A one-shot and an interval: the two kinds whose series end and go on.   *)
(***************************************************************************)
OneShot  == {[kind |-> "at", at |-> 2]}
OneShots == {[kind |-> "at", at |-> 2], [kind |-> "at", at |-> 3]}
Interval == {[kind |-> "every", step |-> 1]}
Mixed    == OneShot \cup Interval

Symmetry == Permutations(Task)
=============================================================================
