------------------------------- MODULE Rules -------------------------------
(***************************************************************************)
(* The rule arithmetic of scheduler/src/rules.js: what a submitted task    *)
(* becomes when it is stored (normalize) and which occurrence follows an   *)
(* instant (nextOccurrence).                                               *)
(*                                                                         *)
(* Instants are natural numbers on one clock.  A cron expression is        *)
(* abstracted to the set of instants it matches: the parser, the time zone *)
(* and the text are left out, what is kept is which of those instants is   *)
(* chosen and when none is.                                                *)
(***************************************************************************)
EXTENDS Integers

CONSTANT Horizon       \* HORIZON_MS: how far ahead an occurrence may lie
CONSTANT MinInterval   \* limits.minScheduleIntervalSeconds, 0 for no floor

ASSUME HorizonAssumption == Horizon \in Nat \ {0}
ASSUME MinIntervalAssumption == MinInterval \in Nat

(***************************************************************************)
(* JavaScript null: a task with nothing further to do.                     *)
(***************************************************************************)
NoInstant == -1

(***************************************************************************)
(* A stored rule holds only what its kind needs.                           *)
(***************************************************************************)
AtRule    == [kind : {"at"}, at : Nat]
EveryRule == [kind : {"every"}, step : Nat \ {0}, anchor : Nat]
CronRule  == [kind : {"cron"}, instants : SUBSET Nat]
Rule      == AtRule \cup EveryRule \cup CronRule

(***************************************************************************)
(* The first instant a cron expression matches strictly after one, or none *)
(* when nothing lies inside the horizon.                                   *)
(***************************************************************************)
CronNext(instants, after) ==
  LET later == {i \in instants : i > after /\ i - after <= Horizon}
  IN  IF later = {} THEN NoInstant
      ELSE CHOOSE i \in later : \A j \in later : i <= j

(***************************************************************************)
(* An interval's occurrences are anchor + k * step: straight to the first  *)
(* one strictly after the given instant, and the anchor itself when the    *)
(* instant lies before it.                                                 *)
(***************************************************************************)
EveryNext(step, anchor, after) ==
  LET elapsed == after - anchor
      passed  == IF elapsed < 0 THEN 0 ELSE (elapsed \div step) + 1
  IN  anchor + passed * step

NextOccurrence(rule, after) ==
  CASE rule.kind = "at"    -> NoInstant
    [] rule.kind = "every" -> EveryNext(rule.step, rule.anchor, after)
    [] rule.kind = "cron"  -> CronNext(rule.instants, after)

(***************************************************************************)
(* normalize: what a caller submits, the row it becomes, and its first     *)
(* occurrence.  An interval is anchored at the instant it is submitted.    *)
(***************************************************************************)
Submission == AtRule \cup [kind : {"every"}, step : Nat] \cup CronRule

Accepts(s, now) ==
  CASE s.kind = "at"    -> now < s.at /\ s.at - now <= Horizon
    [] s.kind = "every" -> s.step > 0 /\ s.step >= MinInterval
    [] s.kind = "cron"  ->
         LET first  == CronNext(s.instants, now)
             second == CronNext(s.instants, first)
         IN  /\ first # NoInstant
             /\ MinInterval = 0 \/ second = NoInstant \/ second - first >= MinInterval

(***************************************************************************)
(* Mistake: an interval is stored as it was submitted, without an anchor.  *)
(***************************************************************************)
StoredUnanchored(s, now) == s

Stored(s, now) ==
  IF s.kind = "every" THEN [kind |-> "every", step |-> s.step, anchor |-> now] ELSE s

FirstOccurrence(s, now) ==
  CASE s.kind = "at"    -> s.at
    [] s.kind = "every" -> now + s.step
    [] s.kind = "cron"  -> CronNext(s.instants, now)
=============================================================================
