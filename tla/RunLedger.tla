----------------------------- MODULE RunLedger -----------------------------
(***************************************************************************)
(* What the scheduler promises about occurrences, with the clock, the      *)
(* requests, the sweeps and the transactions left out.                     *)
(*                                                                         *)
(* An occurrence of a task is entered in the ledger at most once, either   *)
(* as running, which is a claim granted to one sandbox, or as lost, which  *)
(* is a write-off.  A running entry is closed at most once and a closed    *)
(* entry never changes.  Only deleting a task removes its entries, and     *)
(* nothing is ever entered for a deleted task again.                       *)
(***************************************************************************)
CONSTANT Task      \* the task ids
CONSTANT Instant   \* the instants an occurrence can lie at

VARIABLES
  ledger,          \* one record per occurrence entered
  forgotten        \* the tasks that were deleted

vars == <<ledger, forgotten>>

Outcome == {"ok", "failed", "lost"}
Entry   == [task : Task, at : Instant, status : {"running"} \cup Outcome]

Init == ledger = {} /\ forgotten = {}

Entered(t, o) == \E e \in ledger : e.task = t /\ e.at = o

(***************************************************************************)
(* An occurrence is claimed or written off, the first time it is heard of. *)
(***************************************************************************)
Enter(e) ==
  /\ e.status \in {"running", "lost"}
  /\ e.task \notin forgotten
  /\ ~Entered(e.task, e.at)
  /\ ledger' = ledger \cup {e}
  /\ UNCHANGED forgotten

(***************************************************************************)
(* Some running entries are closed, all with the same outcome.             *)
(***************************************************************************)
Close(closing, outcome) ==
  /\ closing # {}
  /\ \A e \in closing : e.status = "running"
  /\ ledger' = (ledger \ closing) \cup {[e EXCEPT !.status = outcome] : e \in closing}
  /\ UNCHANGED forgotten

Forget(tasks) ==
  /\ forgotten' = forgotten \cup tasks
  /\ ledger' = {e \in ledger : e.task \notin tasks}

Next ==
  \/ \E e \in Entry : Enter(e)
  \/ \E closing \in SUBSET ledger, outcome \in Outcome : Close(closing, outcome)
  \/ \E tasks \in SUBSET Task : Forget(tasks)

Spec == Init /\ [][Next]_vars
=============================================================================
