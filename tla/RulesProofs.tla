---------------------------- MODULE RulesProofs ----------------------------
(***************************************************************************)
(* What the rule arithmetic returns, for every rule and every instant.     *)
(***************************************************************************)
EXTENDS Rules, TLAPS, WellFoundedInduction

(***************************************************************************)
(* Every non-empty set of instants has an earliest one: what makes the     *)
(* CHOOSE in CronNext well defined.                                        *)
(***************************************************************************)
LEMMA EarliestInstant ==
  ASSUME NEW T, T \subseteq Nat, T # {}
  PROVE  \E i \in T : \A j \in T : i <= j
<1>1. PICK x \in T : \A y \in T : ~(<<y, x>> \in OpToRel(<, Nat))
  BY NatLessThanWellFounded, WFMin
<1>2. \A y \in T : ~(y < x)
  BY <1>1 DEF OpToRel
<1>3. QED
  BY <1>2

(***************************************************************************)
(* A cron rule's next occurrence lies strictly after the instant searched  *)
(* from, and no matching instant inside the horizon is passed over.        *)
(***************************************************************************)
LEMMA CronNextIsLeast ==
  ASSUME NEW instants \in SUBSET Nat, NEW after \in Int
  PROVE  LET next == CronNext(instants, after)
         IN  \/ next = NoInstant
             \/ /\ next \in Nat /\ next > after /\ next \in instants
                /\ \A i \in instants : i > after /\ i < next => i - after > Horizon
<1> DEFINE later == {i \in instants : i > after /\ i - after <= Horizon}
<1>1. CASE later = {}
  BY <1>1 DEF CronNext
<1>2. CASE later # {}
  <2>1. \E i \in later : \A j \in later : i <= j
    <3>1. later \subseteq Nat
      OBVIOUS
    <3>2. QED
      BY <1>2, <3>1, EarliestInstant
  <2>2. CronNext(instants, after) = CHOOSE i \in later : \A j \in later : i <= j
    BY <1>2 DEF CronNext
  <2>3. /\ CronNext(instants, after) \in later
        /\ \A j \in later : CronNext(instants, after) <= j
    BY <2>1, <2>2
  <2>4. CronNext(instants, after) \in Nat
    BY <2>3
  <2>5. ASSUME NEW i \in instants, i > after, i < CronNext(instants, after),
               i - after <= Horizon
        PROVE  FALSE
    <3>1. i \in later
      BY <2>5
    <3>2. CronNext(instants, after) <= i
      BY <3>1, <2>3
    <3>3. QED
      BY <3>2, <2>4, <2>5
  <2>6. QED
    BY <2>3, <2>4, <2>5, HorizonAssumption
<1>3. QED
  BY <1>1, <1>2

(***************************************************************************)
(* An interval rule's next occurrence lies strictly after the instant      *)
(* searched from and, once the series has begun, at most one step later:   *)
(* no aligned instant is passed over.                                      *)
(***************************************************************************)
LEMMA EveryNextBounds ==
  ASSUME NEW step \in Nat \ {0}, NEW anchor \in Nat, NEW after \in Nat
  PROVE  /\ EveryNext(step, anchor, after) \in Nat
         /\ EveryNext(step, anchor, after) > after
         /\ anchor <= after => EveryNext(step, anchor, after) <= after + step
<1>1. CASE after < anchor
  BY <1>1 DEF EveryNext
<1>2. CASE anchor <= after
  <2> DEFINE elapsed == after - anchor
             q == elapsed \div step
             r == elapsed % step
  <2>1. elapsed \in Nat /\ step \in Nat /\ step > 0
    BY <1>2
  <2>2. q \in Nat /\ r \in Nat /\ r < step /\ elapsed = q * step + r
    BY <2>1, Z3
  <2>3. (q + 1) * step = q * step + step
    BY <2>1, <2>2, Z3
  <2>4. q * step \in Nat
    BY <2>1, <2>2, Z3
  <2>5. EveryNext(step, anchor, after) = anchor + (q + 1) * step
    BY <1>2 DEF EveryNext
  <2>6. QED
    BY <2>1, <2>2, <2>3, <2>4, <2>5
<1>3. QED
  BY <1>1, <1>2

(***************************************************************************)
(* Whatever the rule, nextOccurrence answers nothing or an instant         *)
(* strictly after the one it was asked about: advancing a series always    *)
(* leaves the occurrence that was claimed or written off behind it.        *)
(***************************************************************************)
THEOREM NextOccurrenceIsLater ==
  ASSUME NEW rule \in Rule, NEW after \in Nat
  PROVE  \/ NextOccurrence(rule, after) = NoInstant
         \/ /\ NextOccurrence(rule, after) \in Nat
            /\ NextOccurrence(rule, after) > after
<1>1. CASE rule \in AtRule
  <2>1. rule.kind = "at"
    BY <1>1 DEF AtRule
  <2>2. QED
    BY <2>1 DEF NextOccurrence
<1>2. CASE rule \in EveryRule
  <2>1. rule.kind = "every" /\ rule.step \in Nat \ {0} /\ rule.anchor \in Nat
    BY <1>2 DEF EveryRule
  <2>2. NextOccurrence(rule, after) = EveryNext(rule.step, rule.anchor, after)
    BY <2>1 DEF NextOccurrence
  <2>3. QED
    BY <2>1, <2>2, EveryNextBounds
<1>3. CASE rule \in CronRule
  <2>1. rule.kind = "cron" /\ rule.instants \in SUBSET Nat
    BY <1>3 DEF CronRule
  <2>2. NextOccurrence(rule, after) = CronNext(rule.instants, after)
    BY <2>1 DEF NextOccurrence
  <2>3. QED
    BY <2>1, <2>2, CronNextIsLeast
<1>4. QED
  BY <1>1, <1>2, <1>3 DEF Rule

(***************************************************************************)
(* A submission that is accepted is stored as a rule, with a first         *)
(* occurrence strictly in the future.                                      *)
(***************************************************************************)
THEOREM AcceptedIsFuture ==
  ASSUME NEW s \in Submission, NEW now \in Nat, Accepts(s, now)
  PROVE  /\ Stored(s, now) \in Rule
         /\ FirstOccurrence(s, now) \in Nat
         /\ FirstOccurrence(s, now) > now
<1>1. CASE s \in AtRule
  <2>1. s.kind = "at" /\ s.at \in Nat
    BY <1>1 DEF AtRule
  <2>2. QED
    BY <1>1, <2>1 DEF Accepts, Stored, FirstOccurrence, Rule
<1>2. CASE s \in [kind : {"every"}, step : Nat]
  <2>1. s.kind = "every" /\ s.step \in Nat
    BY <1>2
  <2>2. s.step > 0
    BY <2>1 DEF Accepts
  <2>3. Stored(s, now) = [kind |-> "every", step |-> s.step, anchor |-> now]
    BY <2>1 DEF Stored
  <2>4. Stored(s, now) \in EveryRule
    BY <2>1, <2>2, <2>3 DEF EveryRule
  <2>5. FirstOccurrence(s, now) = now + s.step
    BY <2>1 DEF FirstOccurrence
  <2>6. QED
    BY <2>1, <2>2, <2>4, <2>5 DEF Rule
<1>3. CASE s \in CronRule
  <2>1. s.kind = "cron" /\ s.instants \in SUBSET Nat
    BY <1>3 DEF CronRule
  <2>2. FirstOccurrence(s, now) = CronNext(s.instants, now) /\ Stored(s, now) = s
    BY <2>1 DEF FirstOccurrence, Stored
  <2>3. CronNext(s.instants, now) # NoInstant
    BY <2>1 DEF Accepts
  <2>4. QED
    BY <1>3, <2>1, <2>2, <2>3, CronNextIsLeast DEF Rule
<1>4. QED
  BY <1>1, <1>2, <1>3 DEF Submission
=============================================================================
