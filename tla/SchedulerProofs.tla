-------------------------- MODULE SchedulerProofs --------------------------
(***************************************************************************)
(* What holds of the scheduler for every set of tasks and tenants, every   *)
(* rule, every limit and every clock.  The inductive invariant adds to the *)
(* properties what the handlers in flight know: ids are drawn once, a      *)
(* claim transaction is about a row that exists and is the only one on it, *)
(* and a row selected for write-off was past the margin when selected.     *)
(***************************************************************************)
EXTENDS Scheduler, RulesProofs, FiniteSetTheorems

IdsDrawnOnce == live \cap deleted = {} /\ posts \cap (live \cup deleted) = {}

ClaimsHoldRows ==
  /\ \A c \in claims : c.task \in live
  /\ \A c, d \in claims : c.task = d.task => c = d

SelectedWereMissed ==
  /\ \A m \in todo : m.at < now - MissAfter
  /\ phase # "missed" => todo = {}

IInv ==
  /\ TypeOK
  /\ OneRecordPerOccurrence
  /\ RecordsHaveTasks
  /\ IdsDrawnOnce
  /\ ClaimsHoldRows
  /\ SelectedWereMissed

(***************************************************************************)
(* A series advances to an instant or ends.                                *)
(***************************************************************************)
LEMMA AdvanceType ==
  ASSUME NEW rule \in Rule, NEW after \in Nat
  PROVE  NextOccurrence(rule, after) \in Following
BY NextOccurrenceIsLater DEF Following

LEMMA InitTypeOK == Init => TypeOK
<1> SUFFICES ASSUME Init PROVE TypeOK
  OBVIOUS
<1>1. NoRow \in Row
  BY DEF NoRow, Row, Rule, AtRule, Following, NoInstant
<1>2. 0 \in Instant
  BY SchedulerAssumption DEF Instant
<1>3. QED
  BY <1>1, <1>2 DEF Init, TypeOK

LEMMA TypePreserved == TypeOK /\ [Next]_vars => TypeOK'
<1> SUFFICES ASSUME TypeOK, [Next]_vars PROVE TypeOK'
  OBVIOUS
<1> USE SchedulerAssumption DEF TypeOK, Instant, table, handler, sweep
<1>1. CASE Tick
  BY <1>1 DEF Tick
<1>2. ASSUME NEW t \in Task, PostTask(t) PROVE TypeOK'
  BY <1>2 DEF PostTask
<1>3. ASSUME NEW t \in Task, NEW s \in Submissions, InsertTask(t, s) PROVE TypeOK'
  <2>1. CASE Accepts(s, now) /\ Owner[t] \notin erased
    <3>1. [rule |-> Stored(s, now), enabled |-> TRUE, next |-> FirstOccurrence(s, now)] \in Row
      BY <2>1, AcceptedIsFuture DEF Row, Following
    <3>2. QED
      BY <1>3, <2>1, <3>1 DEF InsertTask
  <2>2. CASE ~(Accepts(s, now) /\ Owner[t] \notin erased)
    BY <1>3, <2>2 DEF InsertTask
  <2>3. QED
    BY <2>1, <2>2
<1>4. ASSUME NEW t \in Task, NEW s \in Submissions, ReadForEdit(t, s) PROVE TypeOK'
  <2> DEFINE p == [task |-> t, edit |-> TRUE, rule |-> Stored(s, now), enabled |-> row[t].enabled,
                   next |-> IF row[t].enabled THEN FirstOccurrence(s, now) ELSE NoInstant]
  <2>1. Stored(s, now) \in Rule /\ FirstOccurrence(s, now) \in Following
    BY <1>4, AcceptedIsFuture DEF ReadForEdit, Following
  <2>2. row[t].enabled \in BOOLEAN
    BY DEF Row
  <2>3. p \in Patch
    BY <2>1, <2>2 DEF Patch, Following
  <2>4. patches' = patches \cup {p}
    BY <1>4 DEF ReadForEdit
  <2>5. QED
    BY <1>4, <2>3, <2>4 DEF ReadForEdit
<1>5. ASSUME NEW t \in Task, NEW enabled \in BOOLEAN, ReadForToggle(t, enabled) PROVE TypeOK'
  <2> DEFINE next == IF enabled /\ (row[t].next = NoInstant \/ row[t].next < now)
                     THEN NextOccurrence(row[t].rule, now) ELSE row[t].next
             p == [task |-> t, edit |-> FALSE, rule |-> row[t].rule, enabled |-> enabled,
                   next |-> next]
  <2>1. row[t].rule \in Rule /\ row[t].next \in Following /\ now \in Nat
    BY DEF Row
  <2>2. next \in Following
    BY <2>1, AdvanceType
  <2>3. p \in Patch
    BY <2>1, <2>2 DEF Patch
  <2>4. patches' = patches \cup {p}
    BY <1>5 DEF ReadForToggle
  <2>5. QED
    BY <1>5, <2>3, <2>4 DEF ReadForToggle
<1>6. ASSUME NEW p \in patches, WritePatch(p) PROVE TypeOK'
  <2>1. p.task \in Task /\ p.rule \in Rule /\ p.enabled \in BOOLEAN /\ p.next \in Following
    BY DEF Patch
  <2>2. row[p.task].rule \in Rule
    BY <2>1 DEF Row
  <2>3. row' \in [Task -> Row]
    BY <1>6, <2>1, <2>2 DEF WritePatch, Row
  <2>4. QED
    BY <1>6, <2>3 DEF WritePatch
<1>7. ASSUME NEW tasks \in SUBSET live, Remove(tasks)
      PROVE  live' \subseteq Task /\ deleted' \subseteq Task /\ row' \in [Task -> Row] /\ runs' \subseteq Run
  <2>1. NoRow \in Row
    BY DEF NoRow, Row, Rule, AtRule, Following, NoInstant
  <2>2. QED
    BY <1>7, <2>1 DEF Remove
<1>8. ASSUME NEW t \in Task, DeleteTask(t) PROVE TypeOK'
  <2>1. {t} \subseteq live /\ Remove({t})
    BY <1>8 DEF DeleteTask
  <2>2. QED
    BY <1>8, <2>1, <1>7 DEF DeleteTask
<1>9. ASSUME NEW u \in Tenant, EraseAccount(u) PROVE TypeOK'
  <2>1. TasksOf(u) \subseteq live /\ Remove(TasksOf(u))
    BY <1>9 DEF EraseAccount, TasksOf
  <2>2. QED
    BY <1>9, <2>1, <1>7 DEF EraseAccount
<1>10. ASSUME NEW t \in Task, NEW o \in Claimable, OpenClaim(t, o) PROVE TypeOK'
  <2>1. [task |-> t, at |-> o, since |-> now] \in Claim
    BY DEF Claim
  <2>2. QED
    BY <1>10, <2>1 DEF OpenClaim
<1>11. ASSUME NEW c \in claims, CommitClaim(c) PROVE TypeOK'
  <2>1. c.task \in Task /\ c.at \in Instant /\ c.since \in Instant
    BY DEF Claim
  <2>2. row[c.task].rule \in Rule /\ NextOccurrence(row[c.task].rule, c.at) \in Following
    BY <2>1, AdvanceType DEF Row
  <2>3. CASE Granted(c)
    <3>1. [task |-> c.task, at |-> c.at, by |-> "claim", claimedAt |-> c.since,
           status |-> "running"] \in Run
      BY <2>1 DEF Run
    <3>2. row' \in [Task -> Row]
      BY <1>11, <2>1, <2>2, <2>3 DEF CommitClaim, Row
    <3>3. QED
      BY <1>11, <2>3, <3>1, <3>2 DEF CommitClaim
  <2>4. CASE ~Granted(c)
    BY <1>11, <2>4 DEF CommitClaim
  <2>5. QED
    BY <2>3, <2>4
<1>12. ASSUME NEW r \in runs, NEW status \in Reports, FinishRun(r, status) PROVE TypeOK'
  <2>1. Closed(r, status) \in Run
    BY DEF Closed, Run
  <2>2. QED
    BY <1>12, <2>1 DEF FinishRun
<1>13. CASE SelectMissed
  <2> DEFINE missed == {u \in live : Due(u) /\ row[u].next < now - MissAfter}
  <2>1. ASSUME NEW t \in missed
        PROVE  [task |-> t, rule |-> row[t].rule, at |-> row[t].next] \in Overdue
    BY DEF Row, Following, NoInstant, Due, Overdue
  <2>2. todo' = {[task |-> t, rule |-> row[t].rule, at |-> row[t].next] : t \in missed}
    BY <1>13 DEF SelectMissed
  <2>3. QED
    BY <1>13, <2>1, <2>2 DEF SelectMissed
<1>14. ASSUME NEW m \in todo, WriteOff(m) PROVE TypeOK'
  <2>1. m.task \in Task /\ m.rule \in Rule /\ m.at \in Instant
    BY DEF Overdue
  <2>2. NextOccurrence(m.rule, m.at) \in Following
    BY <2>1, AdvanceType
  <2>3. row' \in [Task -> Row]
    BY <1>14, <2>1, <2>2 DEF WriteOff, Row
  <2>4. [task |-> m.task, at |-> m.at, by |-> "sweep", claimedAt |-> now, status |-> "lost"] \in Run
    BY <2>1 DEF Run
  <2>5. runs' \subseteq Run
    BY <1>14, <2>4 DEF WriteOff
  <2>6. QED
    BY <1>14, <2>3, <2>5 DEF WriteOff
<1>15. CASE SweepStale
  <2>1. \A r \in runs : Closed(r, "lost") \in Run
    BY DEF Closed, Run
  <2>2. QED
    BY <1>15, <2>1 DEF SweepStale
<1>16. CASE SelectDue
  BY <1>16 DEF SelectDue
<1>17. CASE EndTick
  BY <1>17 DEF EndTick
<1>18. ASSUME NEW u \in asked, Wake(u) PROVE TypeOK'
  BY <1>18 DEF Wake
<1>19. CASE Restart
  BY <1>19 DEF Restart
<1>20. ASSUME NEW m \in todo, WriteOffFails(m) PROVE TypeOK'
  BY <1>20 DEF WriteOffFails
<1>21. CASE UNCHANGED vars
  BY <1>21 DEF vars
<1>22. QED
  BY <1>1, <1>2, <1>3, <1>4, <1>5, <1>6, <1>8, <1>9, <1>10, <1>11, <1>12, <1>13, <1>14,
     <1>15, <1>16, <1>17, <1>18, <1>19, <1>20, <1>21
  DEF Next, TenantStep, SandboxStep, SweepStep, FaultStep

(***************************************************************************)
(* The tables and the requests in flight keep their types.                 *)
(***************************************************************************)
THEOREM TypeCorrect == Spec => []TypeOK
<1>1. QED
  BY InitTypeOK, TypePreserved, PTL DEF Spec

(***************************************************************************)
(* The parts of the invariant, each preserved by every step.  What happens *)
(* to rows when tasks are removed is shared by DELETE and the erasure.     *)
(***************************************************************************)
LEMMA RemovalKeepsInvariants ==
  ASSUME IInv, NEW tasks \in SUBSET live, Remove(tasks),
         UNCHANGED <<now, posts, claims, phase, todo>>
  PROVE  /\ OneRecordPerOccurrence' /\ RecordsHaveTasks' /\ IdsDrawnOnce'
         /\ ClaimsHoldRows' /\ SelectedWereMissed'
<1>1. runs' = {r \in runs : r.task \notin tasks} /\ live' = live \ tasks
      /\ deleted' = deleted \cup tasks /\ \A t \in tasks : ~Locked(t)
  BY DEF Remove
<1>2. OneRecordPerOccurrence' /\ RecordsHaveTasks'
  BY <1>1 DEF IInv, OneRecordPerOccurrence, RecordsHaveTasks
<1>3. IdsDrawnOnce'
  BY <1>1 DEF IInv, IdsDrawnOnce
<1>4. ClaimsHoldRows'
  BY <1>1 DEF IInv, ClaimsHoldRows, Locked
<1>5. SelectedWereMissed'
  BY DEF IInv, SelectedWereMissed
<1>6. QED
  BY <1>2, <1>3, <1>4, <1>5

LEMMA OneRecordPreserved == IInv /\ [Next]_vars => OneRecordPerOccurrence' /\ RecordsHaveTasks'
<1> SUFFICES ASSUME IInv, [Next]_vars PROVE OneRecordPerOccurrence' /\ RecordsHaveTasks'
  OBVIOUS
<1> USE DEF OneRecordPerOccurrence, RecordsHaveTasks
<1> DEFINE Goal == OneRecordPerOccurrence' /\ RecordsHaveTasks'
<1>0. OneRecordPerOccurrence /\ RecordsHaveTasks
  BY DEF IInv
<1>1. ASSUME runs' = runs, live \subseteq live' PROVE Goal
  BY <1>0, <1>1
<1>2. ASSUME NEW t \in Task, DeleteTask(t) PROVE Goal
  <2>1. {t} \subseteq live /\ Remove({t}) /\ UNCHANGED <<now, posts, claims, phase, todo>>
    BY <1>2 DEF DeleteTask, handler, sweep
  <2>2. QED
    BY <2>1, RemovalKeepsInvariants
<1>3. ASSUME NEW u \in Tenant, EraseAccount(u) PROVE Goal
  <2>1. TasksOf(u) \subseteq live /\ Remove(TasksOf(u))
        /\ UNCHANGED <<now, posts, claims, phase, todo>>
    BY <1>3 DEF EraseAccount, TasksOf, handler, sweep
  <2>2. QED
    BY <2>1, RemovalKeepsInvariants
<1>4. ASSUME NEW c \in claims, CommitClaim(c) PROVE Goal
  <2>1. c.task \in live
    BY DEF IInv, ClaimsHoldRows
  <2>2. CASE Granted(c)
    BY <1>0, <1>4, <2>1, <2>2 DEF CommitClaim, Granted, HasRun
  <2>3. CASE ~Granted(c)
    BY <1>0, <1>4, <2>3 DEF CommitClaim
  <2>4. QED
    BY <2>2, <2>3
<1>5. ASSUME NEW r \in runs, NEW status \in Reports, FinishRun(r, status) PROVE Goal
  <2>1. Closed(r, status).task = r.task /\ Closed(r, status).at = r.at
    BY DEF IInv, TypeOK, Run, Closed
  <2>2. QED
    BY <1>0, <1>5, <2>1 DEF FinishRun
<1>6. ASSUME NEW m \in todo, WriteOff(m) PROVE Goal
  BY <1>0, <1>6 DEF WriteOff, HasRun
<1>7. CASE SweepStale
  <2>1. \A r \in runs : Closed(r, "lost").task = r.task /\ Closed(r, "lost").at = r.at
    BY DEF IInv, TypeOK, Run, Closed
  <2>2. QED
    BY <1>0, <1>7, <2>1 DEF SweepStale
<1>8. CASE UNCHANGED vars
  BY <1>1, <1>8 DEF vars, table
<1>9. CASE Tick \/ SelectMissed \/ SelectDue \/ EndTick \/ Restart
  BY <1>1, <1>9 DEF Tick, SelectMissed, SelectDue, EndTick, Restart, table
<1>10. ASSUME NEW t \in Task, PostTask(t) PROVE Goal
  BY <1>1, <1>10 DEF PostTask, table
<1>11. ASSUME NEW t \in Task, NEW s \in Submissions, InsertTask(t, s) \/ ReadForEdit(t, s) PROVE Goal
  BY <1>1, <1>11 DEF InsertTask, ReadForEdit, table
<1>12. ASSUME NEW t \in Task, NEW enabled \in BOOLEAN, ReadForToggle(t, enabled) PROVE Goal
  BY <1>1, <1>12 DEF ReadForToggle, table
<1>13. ASSUME NEW p \in patches, WritePatch(p) PROVE Goal
  BY <1>1, <1>13 DEF WritePatch
<1>14. ASSUME NEW t \in Task, NEW o \in Claimable, OpenClaim(t, o) PROVE Goal
  BY <1>1, <1>14 DEF OpenClaim, table
<1>15. ASSUME NEW u \in asked, Wake(u) PROVE Goal
  BY <1>1, <1>15 DEF Wake, table
<1>16. ASSUME NEW m \in todo, WriteOffFails(m) PROVE Goal
  BY <1>1, <1>16 DEF WriteOffFails, table
<1>17. QED
  BY <1>2, <1>3, <1>4, <1>5, <1>6, <1>7, <1>8, <1>9, <1>10, <1>11, <1>12, <1>13, <1>14,
     <1>15, <1>16
  DEF Next, TenantStep, SandboxStep, SweepStep, FaultStep

LEMMA HandlersPreserved ==
  IInv /\ [Next]_vars => IdsDrawnOnce' /\ ClaimsHoldRows' /\ SelectedWereMissed'
<1> SUFFICES ASSUME IInv, [Next]_vars
             PROVE  IdsDrawnOnce' /\ ClaimsHoldRows' /\ SelectedWereMissed'
  OBVIOUS
<1> DEFINE Goal == IdsDrawnOnce' /\ ClaimsHoldRows' /\ SelectedWereMissed'
<1> USE DEF IdsDrawnOnce, ClaimsHoldRows, SelectedWereMissed
<1>0. IdsDrawnOnce /\ ClaimsHoldRows /\ SelectedWereMissed
  BY DEF IInv
<1>1. ASSUME live' = live, deleted' = deleted, posts' \subseteq posts, claims' \subseteq claims,
             todo' \subseteq todo, now' = now, phase' = phase \/ todo' = {}
      PROVE  Goal
  BY <1>0, <1>1
<1>2. CASE Tick
  <2>1. now \in Int /\ MissAfter \in Int /\ now' = now + 1
    BY <1>2, SchedulerAssumption DEF Tick, IInv, TypeOK, Instant
  <2>2. \A m \in todo : m.at \in Int
    BY SchedulerAssumption DEF IInv, TypeOK, Overdue, Instant
  <2>3. \A m \in todo : m.at < now' - MissAfter
    BY <1>0, <2>1, <2>2
  <2>4. QED
    BY <1>0, <1>2, <2>3 DEF Tick, table, handler, sweep
<1>3. ASSUME NEW t \in Task, PostTask(t) PROVE Goal
  BY <1>0, <1>3 DEF PostTask, table, sweep
<1>4. ASSUME NEW t \in Task, NEW s \in Submissions, InsertTask(t, s) PROVE Goal
  BY <1>0, <1>4 DEF InsertTask, sweep
<1>5. ASSUME NEW t \in Task, NEW s \in Submissions, ReadForEdit(t, s) PROVE Goal
  BY <1>0, <1>5 DEF ReadForEdit, table, sweep
<1>6. ASSUME NEW t \in Task, NEW enabled \in BOOLEAN, ReadForToggle(t, enabled) PROVE Goal
  BY <1>0, <1>6 DEF ReadForToggle, table, sweep
<1>7. ASSUME NEW p \in patches, WritePatch(p) PROVE Goal
  BY <1>0, <1>7 DEF WritePatch, sweep
<1>8. ASSUME NEW t \in Task, DeleteTask(t) PROVE Goal
  <2>1. {t} \subseteq live /\ Remove({t}) /\ UNCHANGED <<now, posts, claims, phase, todo>>
    BY <1>8 DEF DeleteTask, handler, sweep
  <2>2. QED
    BY <2>1, RemovalKeepsInvariants
<1>9. ASSUME NEW u \in Tenant, EraseAccount(u) PROVE Goal
  <2>1. TasksOf(u) \subseteq live /\ Remove(TasksOf(u))
        /\ UNCHANGED <<now, posts, claims, phase, todo>>
    BY <1>9 DEF EraseAccount, TasksOf, handler, sweep
  <2>2. QED
    BY <2>1, RemovalKeepsInvariants
<1>10. ASSUME NEW t \in Task, NEW o \in Claimable, OpenClaim(t, o) PROVE Goal
  BY <1>0, <1>10 DEF OpenClaim, Locked, table, sweep
<1>11. ASSUME NEW c \in claims, CommitClaim(c) PROVE Goal
  BY <1>0, <1>11 DEF CommitClaim, sweep
<1>12. ASSUME NEW r \in runs, NEW status \in Reports, FinishRun(r, status) PROVE Goal
  BY <1>0, <1>12 DEF FinishRun, handler, sweep
<1>13. CASE SelectMissed
  BY <1>0, <1>13 DEF SelectMissed, table, handler
<1>14. ASSUME NEW m \in todo, WriteOff(m) PROVE Goal
  BY <1>0, <1>14 DEF WriteOff, handler
<1>15. CASE SweepStale \/ SelectDue \/ EndTick
  BY <1>0, <1>15 DEF SweepStale, SelectDue, EndTick, table, handler
<1>16. ASSUME NEW u \in asked, Wake(u) PROVE Goal
  BY <1>0, <1>16 DEF Wake, table, handler
<1>17. CASE Restart
  BY <1>0, <1>17 DEF Restart, table
<1>18. ASSUME NEW m \in todo, WriteOffFails(m) PROVE Goal
  BY <1>0, <1>18 DEF WriteOffFails, table, handler
<1>19. CASE UNCHANGED vars
  BY <1>0, <1>19 DEF vars, table, handler, sweep
<1>20. QED
  BY <1>2, <1>3, <1>4, <1>5, <1>6, <1>7, <1>8, <1>9, <1>10, <1>11, <1>12, <1>13, <1>14,
     <1>15, <1>16, <1>17, <1>18, <1>19
  DEF Next, TenantStep, SandboxStep, SweepStep, FaultStep

LEMMA InvariantInductive == Spec => []IInv
<1>1. Init => IInv
  <2>1. Init => OneRecordPerOccurrence /\ RecordsHaveTasks /\ IdsDrawnOnce
                /\ ClaimsHoldRows /\ SelectedWereMissed
    BY DEF Init, OneRecordPerOccurrence, RecordsHaveTasks, IdsDrawnOnce, ClaimsHoldRows,
           SelectedWereMissed
  <2>2. QED
    BY <2>1, InitTypeOK DEF IInv
<1>2. IInv /\ [Next]_vars => IInv'
  <2>1. IInv => TypeOK
    BY DEF IInv
  <2>2. QED
    BY <2>1, TypePreserved, OneRecordPreserved, HandlersPreserved DEF IInv
<1>3. QED
  BY <1>1, <1>2, PTL DEF Spec

(***************************************************************************)
(* An occurrence has one record, whatever interleaves: it is never granted *)
(* twice, nor granted and written off.                                     *)
(***************************************************************************)
THEOREM AtMostOnce == Spec => []OneRecordPerOccurrence
<1>1. IInv => OneRecordPerOccurrence
  BY DEF IInv
<1>2. QED
  BY <1>1, InvariantInductive, PTL

(***************************************************************************)
(* No claim or write-off that was under way leaves a record behind for a   *)
(* task that has been deleted.                                             *)
(***************************************************************************)
THEOREM NoOrphanRecords == Spec => []RecordsHaveTasks
<1>1. IInv => RecordsHaveTasks
  BY DEF IInv
<1>2. QED
  BY <1>1, InvariantInductive, PTL

(***************************************************************************)
(* The write-off moves no series that is not itself past the margin: the   *)
(* row it selected may have been claimed or edited since, and then its     *)
(* UPDATE finds another next_run_at.                                       *)
(***************************************************************************)
THEOREM WriteOffGuarded == Spec => WriteOffLeavesMovedSeries
<1> DEFINE Guarded == \A t \in live : todo' # todo /\ row'[t].next # row[t].next
                                        => row[t].next < now - MissAfter
<1>1. ASSUME IInv, Next PROVE Guarded
  <2>1. ASSUME NEW m \in todo, WriteOff(m) PROVE Guarded
    <3>1. row \in [Task -> Row] /\ live \subseteq Task /\ m.at < now - MissAfter
      BY <1>1 DEF IInv, TypeOK, SelectedWereMissed
    <3>2. ASSUME NEW t \in live, row'[t].next # row[t].next PROVE row[t].next = m.at
      BY <2>1, <3>1, <3>2 DEF WriteOff, Row
    <3>3. QED
      BY <3>1, <3>2
  <2>2. ASSUME UNCHANGED row \/ UNCHANGED todo PROVE Guarded
    BY <2>2
  <2>3. CASE TenantStep
    <3>1. UNCHANGED todo
      BY <2>3 DEF TenantStep, PostTask, DeleteTask, InsertTask, ReadForEdit, ReadForToggle,
                  WritePatch, EraseAccount, sweep
    <3>2. QED
      BY <2>2, <3>1
  <2>4. CASE SandboxStep \/ Tick
    <3>1. UNCHANGED todo
      BY <2>4 DEF SandboxStep, Tick, OpenClaim, CommitClaim, FinishRun, sweep
    <3>2. QED
      BY <2>2, <3>1
  <2>5. CASE FaultStep \/ SelectMissed \/ SweepStale \/ SelectDue \/ EndTick
    <3>1. UNCHANGED row
      BY <2>5 DEF FaultStep, Restart, WriteOffFails, SelectMissed, SweepStale, SelectDue,
                  EndTick, table
    <3>2. QED
      BY <2>2, <3>1
  <2>6. ASSUME NEW u \in asked, Wake(u) PROVE Guarded
    <3>1. UNCHANGED row
      BY <2>6 DEF Wake, table
    <3>2. QED
      BY <2>2, <3>1
  <2>7. QED
    BY <1>1, <2>1, <2>3, <2>4, <2>5, <2>6 DEF Next, SweepStep
<1>2. IInv /\ [Next]_vars => [Guarded]_vars
  BY <1>1
<1>3. QED
  BY <1>2, InvariantInductive, PTL DEF Spec, WriteOffLeavesMovedSeries

-----------------------------------------------------------------------------
(***************************************************************************)
(* The refinement.  A record is seen in the ledger without who wrote it    *)
(* and when; since an occurrence has one record, replacing a record        *)
(* replaces one entry.                                                     *)
(***************************************************************************)
Seen(r) == [task |-> r.task, at |-> r.at, status |-> r.status]
Ledgered(rs) == {Seen(r) : r \in rs}

LEMMA SeenOnce ==
  ASSUME IInv, NEW closing \in SUBSET runs
  PROVE  Ledgered(runs \ closing) = Ledgered(runs) \ Ledgered(closing)
<1>1. \A r, s \in runs : Seen(r) = Seen(s) => r = s
  BY DEF IInv, OneRecordPerOccurrence, Seen
<1>2. QED
  BY <1>1 DEF Ledgered

LEMMA ClosingIsClose ==
  ASSUME IInv, NEW closing \in SUBSET runs, closing # {}, NEW status \in {"ok", "failed", "lost"},
         \A r \in closing : r.status = "running",
         runs' = (runs \ closing) \cup {Closed(r, status) : r \in closing},
         deleted' = deleted
  PROVE  Ledger!Next
<1>1. /\ Ledgered(closing) \in SUBSET Ledgered(runs)
      /\ Ledgered(closing) # {}
      /\ \A e \in Ledgered(closing) : e.status = "running"
  <2>1. Ledgered(closing) \in SUBSET Ledgered(runs)
    BY DEF Ledgered
  <2>2. PICK r \in closing : TRUE
    OBVIOUS
  <2>3. Seen(r) \in Ledgered(closing)
    BY <2>2 DEF Ledgered
  <2>4. \A e \in Ledgered(closing) : e.status = "running"
    BY DEF Ledgered, Seen
  <2>5. QED
    BY <2>1, <2>3, <2>4
<1>2. ASSUME NEW r \in runs PROVE Seen(Closed(r, status)) = [Seen(r) EXCEPT !.status = status]
  <2>1. r \in Run
    BY DEF IInv, TypeOK
  <2>2. /\ Closed(r, status).task = r.task /\ Closed(r, status).at = r.at
        /\ Closed(r, status).status = status
    BY <2>1 DEF Closed, Run
  <2>3. Seen(Closed(r, status)) = [task |-> r.task, at |-> r.at, status |-> status]
    BY <2>2 DEF Seen
  <2>4. [Seen(r) EXCEPT !.status = status] = [task |-> r.task, at |-> r.at, status |-> status]
    BY DEF Seen
  <2>5. QED
    BY <2>3, <2>4
<1>3. Ledgered(runs') = Ledgered(runs \ closing)
                        \cup {[e EXCEPT !.status = status] : e \in Ledgered(closing)}
  <2>1. Ledgered(runs') = Ledgered(runs \ closing) \cup {Seen(Closed(r, status)) : r \in closing}
    BY DEF Ledgered
  <2>2. {Seen(Closed(r, status)) : r \in closing}
        = {[e EXCEPT !.status = status] : e \in Ledgered(closing)}
    BY <1>2 DEF Ledgered
  <2>3. QED
    BY <2>1, <2>2
<1>4. Ledger!Close(Ledgered(closing), status)
  BY <1>1, <1>3, SeenOnce DEF Ledger!Close, Ledgered, Seen
<1>5. QED
  BY <1>1, <1>4 DEF Ledger!Next, Ledger!Outcome, Ledgered, Seen

LEMMA EnteringIsEnter ==
  ASSUME IInv, NEW r \in Run, r.status \in {"running", "lost"}, ~HasRun(r.task, r.at),
         r.task \in live, runs' = runs \cup {r}, deleted' = deleted
  PROVE  Ledger!Next
<1>1. Seen(r) \in Ledger!Entry
  BY DEF Seen, Run, Ledger!Entry, Ledger!Outcome
<1>2. Ledgered(runs') = Ledgered(runs) \cup {Seen(r)}
  BY DEF Ledgered
<1>3. r.task \notin deleted
  BY DEF IInv, IdsDrawnOnce
<1>4. ~Ledger!Entered(r.task, r.at)
  BY DEF HasRun, Ledger!Entered
<1>5. Ledger!Enter(Seen(r))
  BY <1>2, <1>3, <1>4 DEF Ledger!Enter, Ledgered, Seen
<1>6. QED
  BY <1>1, <1>5 DEF Ledger!Next

LEMMA RemovalIsForget ==
  ASSUME IInv, NEW tasks \in SUBSET live, Remove(tasks)
  PROVE  Ledger!Next
<1>1. tasks \in SUBSET Task
  BY DEF IInv, TypeOK
<1>2. Ledgered(runs') = {e \in Ledgered(runs) : e.task \notin tasks}
  BY DEF Remove, Ledgered, Seen
<1>3. Ledger!Forget(tasks)
  BY <1>2 DEF Ledger!Forget, Remove, Ledgered, Seen
<1>4. QED
  BY <1>1, <1>3 DEF Ledger!Next

(***************************************************************************)
(* Every step of the service is a step of the ledger or leaves it alone.   *)
(***************************************************************************)
THEOREM Refinement == Spec => ImplementsLedger
<1>1. Init => Ledger!Init
  BY DEF Init, Ledger!Init
<1>2. IInv /\ [Next]_vars => [Ledger!Next]_(Ledger!vars)
  <2> SUFFICES ASSUME IInv, [Next]_vars PROVE Ledger!Next \/ UNCHANGED Ledger!vars
    OBVIOUS
  <2> DEFINE Goal == Ledger!Next \/ UNCHANGED Ledger!vars
  <2>1. ASSUME runs' = runs, deleted' = deleted PROVE Goal
    BY <2>1 DEF Ledger!vars
  <2>2. ASSUME NEW t \in Task, DeleteTask(t) PROVE Goal
    <3>1. {t} \in SUBSET live /\ Remove({t})
      BY <2>2 DEF DeleteTask
    <3>2. QED
      BY <3>1, RemovalIsForget
  <2>3. ASSUME NEW u \in Tenant, EraseAccount(u) PROVE Goal
    <3>1. TasksOf(u) \in SUBSET live /\ Remove(TasksOf(u))
      BY <2>3 DEF EraseAccount, TasksOf
    <3>2. QED
      BY <3>1, RemovalIsForget
  <2>4. ASSUME NEW c \in claims, CommitClaim(c) PROVE Goal
    <3>1. CASE Granted(c)
      <4> DEFINE r == [task |-> c.task, at |-> c.at, by |-> "claim", claimedAt |-> c.since,
                       status |-> "running"]
      <4>1. r \in Run /\ c.task \in live
        BY DEF IInv, TypeOK, Claim, Run, ClaimsHoldRows
      <4>2. runs' = runs \cup {r} /\ deleted' = deleted /\ ~HasRun(r.task, r.at)
        BY <2>4, <3>1 DEF CommitClaim, Granted
      <4>3. QED
        BY <4>1, <4>2, EnteringIsEnter
    <3>2. CASE ~Granted(c)
      BY <2>1, <2>4, <3>2 DEF CommitClaim
    <3>3. QED
      BY <3>1, <3>2
  <2>5. ASSUME NEW r \in runs, NEW status \in Reports, FinishRun(r, status) PROVE Goal
    <3>1. status \in {"ok", "failed", "lost"}
      BY SchedulerAssumption
    <3>2. r.status = "running" /\ runs' = (runs \ {r}) \cup {Closed(r, status)} /\ deleted' = deleted
      BY <2>5 DEF FinishRun
    <3>3. runs' = (runs \ {r}) \cup {Closed(s, status) : s \in {r}}
      BY <3>2
    <3>4. QED
      BY <3>1, <3>2, <3>3, ClosingIsClose
  <2>6. ASSUME NEW m \in todo, WriteOff(m) PROVE Goal
    <3>1. CASE m.task \in live /\ ~HasRun(m.task, m.at)
      <4> DEFINE r == [task |-> m.task, at |-> m.at, by |-> "sweep", claimedAt |-> now,
                       status |-> "lost"]
      <4>1. r \in Run
        BY DEF IInv, TypeOK, Overdue, Run
      <4>2. runs' = runs \cup {r} /\ deleted' = deleted
        BY <2>6, <3>1 DEF WriteOff
      <4>3. QED
        BY <3>1, <4>1, <4>2, EnteringIsEnter
    <3>2. CASE ~(m.task \in live /\ ~HasRun(m.task, m.at))
      BY <2>1, <2>6, <3>2 DEF WriteOff
    <3>3. QED
      BY <3>1, <3>2
  <2>7. CASE SweepStale
    <3> DEFINE stale == {r \in runs : r.status = "running" /\ r.claimedAt < now - RunDeadline}
    <3>1. runs' = (runs \ stale) \cup {Closed(r, "lost") : r \in stale} /\ deleted' = deleted
      BY <2>7 DEF SweepStale
    <3>2. CASE stale = {}
      BY <2>1, <3>1, <3>2
    <3>3. CASE stale # {}
      BY <3>1, <3>3, ClosingIsClose
    <3>4. QED
      BY <3>2, <3>3
  <2>8. CASE UNCHANGED vars \/ Tick \/ SelectMissed \/ SelectDue \/ EndTick \/ Restart
    BY <2>1, <2>8 DEF vars, Tick, SelectMissed, SelectDue, EndTick, Restart, table
  <2>9. ASSUME NEW t \in Task, PostTask(t) PROVE Goal
    BY <2>1, <2>9 DEF PostTask, table
  <2>10. ASSUME NEW t \in Task, NEW s \in Submissions, InsertTask(t, s) \/ ReadForEdit(t, s)
         PROVE  Goal
    BY <2>1, <2>10 DEF InsertTask, ReadForEdit, table
  <2>11. ASSUME NEW t \in Task, NEW enabled \in BOOLEAN, ReadForToggle(t, enabled) PROVE Goal
    BY <2>1, <2>11 DEF ReadForToggle, table
  <2>12. ASSUME NEW p \in patches, WritePatch(p) PROVE Goal
    BY <2>1, <2>12 DEF WritePatch
  <2>13. ASSUME NEW t \in Task, NEW o \in Claimable, OpenClaim(t, o) PROVE Goal
    BY <2>1, <2>13 DEF OpenClaim, table
  <2>14. ASSUME NEW u \in asked, Wake(u) PROVE Goal
    BY <2>1, <2>14 DEF Wake, table
  <2>15. ASSUME NEW m \in todo, WriteOffFails(m) PROVE Goal
    BY <2>1, <2>15 DEF WriteOffFails, table
  <2>16. QED
    BY <2>2, <2>3, <2>4, <2>5, <2>6, <2>7, <2>8, <2>9, <2>10, <2>11, <2>12, <2>13, <2>14, <2>15
    DEF Next, TenantStep, SandboxStep, SweepStep, FaultStep
<1>3. QED
  BY <1>1, <1>2, InvariantInductive, PTL DEF Spec, Ledger!Spec, ImplementsLedger
-----------------------------------------------------------------------------
(***************************************************************************)
(* The budget.  A claim that is counted while others of its tenant are     *)
(* open takes a place beside theirs: runs claimed today and tasks being    *)
(* claimed together stay below the limit and one for every other task.     *)
(***************************************************************************)
Ids(u)      == {t \in Task : Owner[t] = u}
Paid(u)     == {r \in Spent(u) : r.by = "claim"}
Claiming(u) == {t \in Ids(u) : Locked(t)}

WithinBudget(u) ==
  Cardinality(Paid(u)) + Cardinality(Claiming(u)) < MaxRunsPerDay + Cardinality(Ids(u))

BudgetInv ==
  /\ IsFiniteSet(runs)
  /\ MaxRunsPerDay > 0 => \A u \in Tenant : WithinBudget(u)

LEMMA BudgetSizes ==
  ASSUME IsFiniteSet(runs), NEW u
  PROVE  /\ IsFiniteSet(Spent(u)) /\ Cardinality(Spent(u)) \in Nat
         /\ IsFiniteSet(Paid(u)) /\ Cardinality(Paid(u)) \in Nat
         /\ Cardinality(Paid(u)) <= Cardinality(Spent(u))
         /\ IsFiniteSet(Ids(u)) /\ Cardinality(Ids(u)) \in Nat
         /\ IsFiniteSet(Claiming(u)) /\ Cardinality(Claiming(u)) \in Nat
         /\ Cardinality(Claiming(u)) <= Cardinality(Ids(u))
<1>1. Ids(u) \in SUBSET Task /\ Claiming(u) \in SUBSET Ids(u)
  BY DEF Ids, Claiming
<1>2. Spent(u) \in SUBSET runs /\ Paid(u) \in SUBSET Spent(u)
  BY DEF Spent, Paid
<1>3. IsFiniteSet(Ids(u)) /\ IsFiniteSet(Spent(u))
  BY <1>1, <1>2, FS_Subset, IdsAssumption
<1>4. /\ IsFiniteSet(Claiming(u)) /\ Cardinality(Claiming(u)) <= Cardinality(Ids(u))
      /\ IsFiniteSet(Paid(u)) /\ Cardinality(Paid(u)) <= Cardinality(Spent(u))
  BY <1>1, <1>2, <1>3, FS_Subset
<1>5. QED
  BY <1>3, <1>4, FS_CardinalityType

LEMMA BudgetSizesNext ==
  ASSUME IsFiniteSet(runs'), NEW u
  PROVE  /\ Cardinality(Paid(u)') \in Nat /\ Cardinality(Claiming(u)') \in Nat
         /\ IsFiniteSet(Paid(u)')
         /\ IsFiniteSet(Claiming(u)') /\ Cardinality(Claiming(u)') <= Cardinality(Ids(u))
<1>1. Ids(u) \in SUBSET Task /\ Claiming(u)' \in SUBSET Ids(u)
  BY DEF Ids, Claiming
<1>2. Paid(u)' \in SUBSET runs'
  BY DEF Spent, Paid
<1>3. IsFiniteSet(Ids(u)) /\ IsFiniteSet(Paid(u)')
  BY <1>1, <1>2, FS_Subset, IdsAssumption
<1>4. IsFiniteSet(Claiming(u)') /\ Cardinality(Claiming(u)') <= Cardinality(Ids(u))
  BY <1>1, <1>3, FS_Subset
<1>5. QED
  BY <1>3, <1>4, FS_CardinalityType

\* Nothing more is claimed, and no more is spent.
LEMMA BudgetFalls ==
  ASSUME BudgetInv, IsFiniteSet(runs'), NEW u \in Tenant, MaxRunsPerDay > 0,
         Claiming(u)' \subseteq Claiming(u), Cardinality(Paid(u)') <= Cardinality(Paid(u))
  PROVE  WithinBudget(u)'
<1>1. Cardinality(Claiming(u)') <= Cardinality(Claiming(u))
  BY BudgetSizes, FS_Subset DEF BudgetInv
<1>2. WithinBudget(u)
  BY DEF BudgetInv
<1>3. \A a, b, c, d, k, m \in Nat : a <= c /\ b <= d /\ c + d < m + k => a + b < m + k
  OBVIOUS
<1>4. /\ Cardinality(Paid(u)) \in Nat /\ Cardinality(Claiming(u)) \in Nat
      /\ Cardinality(Paid(u)') \in Nat /\ Cardinality(Claiming(u)') \in Nat
      /\ Cardinality(Ids(u)) \in Nat /\ MaxRunsPerDay \in Nat
  BY BudgetSizes, BudgetSizesNext, SchedulerAssumption DEF BudgetInv
<1>5. Cardinality(Paid(u)') + Cardinality(Claiming(u)') < MaxRunsPerDay + Cardinality(Ids(u))
  <2>1. Cardinality(Paid(u)) + Cardinality(Claiming(u)) < MaxRunsPerDay + Cardinality(Ids(u))
    BY <1>2 DEF WithinBudget
  <2>2. QED
    BY <1>1, <1>3, <1>4, <2>1
<1>6. QED
  BY <1>5 DEF WithinBudget, Ids

\* Runs go, or are written by the sweep, as the clock goes on.
LEMMA BudgetSpares ==
  ASSUME IInv, BudgetInv, IsFiniteSet(runs'), claims' \subseteq claims,
         now' = now \/ now' = now + 1, \A r \in runs' : r \in runs \/ r.by = "sweep"
  PROVE  BudgetInv'
<1> SUFFICES ASSUME MaxRunsPerDay > 0, NEW u \in Tenant PROVE WithinBudget(u)'
  BY DEF BudgetInv
<1>1. Claiming(u)' \subseteq Claiming(u)
  BY DEF Claiming, Ids, Locked
<1>2. now \in Int /\ now' \in Int /\ now <= now' /\ Day \in Int
  BY SchedulerAssumption DEF IInv, TypeOK, Instant
<1>3. ASSUME NEW r \in Paid(u)' PROVE r \in Paid(u)
  <2>1. r \in runs' /\ Owner[r.task] = u /\ r.claimedAt > now' - Day /\ r.by = "claim"
    BY <1>3 DEF Paid, Spent
  <2>2. r \in runs /\ r.claimedAt \in Int
    BY <2>1, SchedulerAssumption DEF IInv, TypeOK, Run, Instant
  <2>3. r.claimedAt > now - Day
    BY <1>2, <2>1, <2>2
  <2>4. QED
    BY <2>1, <2>2, <2>3 DEF Paid, Spent
<1>4. Cardinality(Paid(u)') <= Cardinality(Paid(u))
  <2>1. Paid(u)' \in SUBSET Paid(u) /\ IsFiniteSet(Paid(u))
    BY <1>3, BudgetSizes DEF BudgetInv
  <2>2. QED
    BY <2>1, FS_Subset
<1>5. QED
  BY <1>1, <1>4, BudgetFalls

\* A run that is closed stays what it cost.
LEMMA BudgetCloses ==
  ASSUME IInv, BudgetInv, NEW closing \in SUBSET runs, NEW status, UNCHANGED <<claims, now>>,
         runs' = (runs \ closing) \cup {Closed(r, status) : r \in closing}
  PROVE  BudgetInv'
<1> DEFINE f == [r \in runs |-> IF r \in closing THEN Closed(r, status) ELSE r]
<1>1. f \in Surjection(runs, runs')
  <2>1. f \in [runs -> runs']
    OBVIOUS
  <2>2. ASSUME NEW r \in runs' PROVE \E q \in runs : f[q] = r
    OBVIOUS
  <2>3. QED
    BY <2>1, <2>2 DEF Surjection
<1>2. IsFiniteSet(runs')
  BY <1>1, FS_Surjection DEF BudgetInv
<1> SUFFICES ASSUME MaxRunsPerDay > 0, NEW u \in Tenant PROVE WithinBudget(u)'
  BY <1>2 DEF BudgetInv
<1>3. ASSUME NEW r \in runs
      PROVE  Closed(r, status).task = r.task /\ Closed(r, status).claimedAt = r.claimedAt
             /\ Closed(r, status).by = r.by
  BY DEF IInv, TypeOK, Run, Closed
<1>4. \A r \in runs : f[r].task = r.task /\ f[r].claimedAt = r.claimedAt /\ f[r].by = r.by
  BY <1>3
<1> DEFINE p == [r \in Paid(u) |-> f[r]]
<1>5. p \in Surjection(Paid(u), Paid(u)')
  <2>1. ASSUME NEW r \in Paid(u) PROVE f[r] \in Paid(u)'
    <3>1. r \in runs /\ f[r] \in runs'
      BY DEF Paid, Spent
    <3>2. QED
      BY <1>4, <3>1 DEF Paid, Spent
  <2>2. ASSUME NEW r \in Paid(u)' PROVE \E q \in Paid(u) : p[q] = r
    <3>1. r \in runs'
      BY DEF Paid, Spent
    <3>2. PICK q \in runs : f[q] = r
      BY <3>1
    <3>3. q \in Paid(u)
      BY <1>4, <3>2 DEF Paid, Spent
    <3>4. QED
      BY <3>2, <3>3
  <2>3. p \in [Paid(u) -> Paid(u)']
    BY <2>1
  <2>4. QED
    BY <2>2, <2>3 DEF Surjection
<1>6. Cardinality(Paid(u)') <= Cardinality(Paid(u))
  <2>1. IsFiniteSet(Paid(u))
    BY BudgetSizes DEF BudgetInv
  <2>2. QED
    BY <1>5, <2>1, FS_Surjection
<1>7. Claiming(u)' = Claiming(u)
  BY DEF Claiming, Ids, Locked
<1>8. QED
  BY <1>2, <1>6, <1>7, BudgetFalls

\* A granted claim gives up its place for the run it writes.
LEMMA BudgetIsSpent ==
  ASSUME IInv, BudgetInv, NEW c \in claims, CommitClaim(c)
  PROVE  BudgetInv'
<1> DEFINE r == [task |-> c.task, at |-> c.at, by |-> "claim", claimedAt |-> c.since,
                 status |-> "running"]
<1>1. claims' = claims \ {c} /\ now' = now /\ (runs' = runs \cup {r} \/ runs' = runs)
  BY DEF CommitClaim
<1>2. IsFiniteSet(runs')
  BY <1>1, FS_AddElement DEF BudgetInv
<1>3. CASE runs' = runs
  BY <1>1, <1>2, <1>3, BudgetSpares
<1>4. CASE runs' = runs \cup {r}
  <2> SUFFICES ASSUME MaxRunsPerDay > 0, NEW u \in Tenant PROVE WithinBudget(u)'
    BY <1>2 DEF BudgetInv
  <2>1. c.task \in Task /\ \A d \in claims : d.task = c.task => d = c
    BY DEF IInv, TypeOK, Claim, ClaimsHoldRows
  <2>2. CASE Owner[c.task] # u
    <3>1. Paid(u)' = Paid(u)
      BY <1>1, <1>4, <2>2 DEF Paid, Spent
    <3>2. Claiming(u)' \subseteq Claiming(u)
      BY <1>1 DEF Claiming, Ids, Locked
    <3>3. Cardinality(Paid(u)') <= Cardinality(Paid(u))
      BY <3>1, BudgetSizes DEF BudgetInv
    <3>4. QED
      BY <1>2, <3>2, <3>3, BudgetFalls
  <2>3. CASE Owner[c.task] = u
    <3>1. c.task \in Claiming(u) /\ Claiming(u)' = Claiming(u) \ {c.task}
      BY <1>1, <2>1, <2>3 DEF Claiming, Ids, Locked
    <3>2. Paid(u)' \in SUBSET (Paid(u) \cup {r})
      BY <1>1, <1>4 DEF Paid, Spent
    <3>3. IsFiniteSet(Paid(u)) /\ IsFiniteSet(Claiming(u)) /\ Cardinality(Ids(u)) \in Nat
      BY BudgetSizes DEF BudgetInv
    <3>4. Cardinality(Claiming(u)') = Cardinality(Claiming(u)) - 1
      BY <3>1, <3>3, FS_RemoveElement
    <3>5. Cardinality(Paid(u)') <= Cardinality(Paid(u)) + 1
      <4>1. /\ IsFiniteSet(Paid(u) \cup {r})
            /\ Cardinality(Paid(u) \cup {r}) <= Cardinality(Paid(u)) + 1
        <5>1. /\ IsFiniteSet(Paid(u) \cup {r})
              /\ \/ Cardinality(Paid(u) \cup {r}) = Cardinality(Paid(u))
                 \/ Cardinality(Paid(u) \cup {r}) = Cardinality(Paid(u)) + 1
          BY <3>3, FS_AddElement
        <5>2. Cardinality(Paid(u)) \in Nat
          BY <3>3, FS_CardinalityType
        <5>3. QED
          BY <5>1, <5>2
      <4>2. Cardinality(Paid(u)') <= Cardinality(Paid(u) \cup {r})
        BY <3>2, <4>1, FS_Subset
      <4>3. /\ Cardinality(Paid(u)') \in Nat /\ Cardinality(Paid(u)) \in Nat
            /\ Cardinality(Paid(u) \cup {r}) \in Nat
        BY <1>2, <3>3, <4>1, BudgetSizesNext, FS_CardinalityType
      <4>4. \A a, b, d \in Nat : a <= b /\ b <= d + 1 => a <= d + 1
        OBVIOUS
      <4>5. QED
        BY <4>1, <4>2, <4>3, <4>4
    <3>6. Cardinality(Paid(u)) + Cardinality(Claiming(u)) < MaxRunsPerDay + Cardinality(Ids(u))
      BY DEF BudgetInv, WithinBudget
    <3>7. /\ Cardinality(Paid(u)) \in Nat /\ Cardinality(Claiming(u)) \in Nat
          /\ Cardinality(Paid(u)') \in Nat /\ MaxRunsPerDay \in Nat
      BY <1>2, BudgetSizes, BudgetSizesNext, SchedulerAssumption DEF BudgetInv
    <3>8. \A a, b, d, k, m \in Nat : a <= d + 1 /\ d + b < m + k => a + (b - 1) < m + k
      OBVIOUS
    <3>9. Cardinality(Paid(u)') + Cardinality(Claiming(u)') < MaxRunsPerDay + Cardinality(Ids(u))
      BY <3>3, <3>4, <3>5, <3>6, <3>7, <3>8
    <3>10. QED
      BY <3>9 DEF WithinBudget, Ids
  <2>4. QED
    BY <2>2, <2>3
<1>5. QED
  BY <1>1, <1>3, <1>4

\* A claim is counted against what was spent before it.
LEMMA BudgetIsCounted ==
  ASSUME IInv, BudgetInv, NEW t \in Task, NEW o \in Claimable, OpenClaim(t, o)
  PROVE  BudgetInv'
<1> DEFINE c == [task |-> t, at |-> o, since |-> now]
<1>1. runs' = runs /\ now' = now /\ claims' = claims \cup {c}
  BY DEF OpenClaim, table
<1>2. IsFiniteSet(runs) /\ IsFiniteSet(runs')
  BY <1>1 DEF BudgetInv
<1> SUFFICES ASSUME MaxRunsPerDay > 0, NEW u \in Tenant PROVE WithinBudget(u)'
  BY <1>2 DEF BudgetInv
<1>3. Paid(u)' = Paid(u)
  BY <1>1 DEF Paid, Spent
<1>4. CASE Owner[t] # u
  <2>1. Claiming(u)' \subseteq Claiming(u)
    BY <1>1, <1>4 DEF Claiming, Ids, Locked
  <2>2. Cardinality(Paid(u)') <= Cardinality(Paid(u))
    BY <1>2, <1>3, BudgetSizes
  <2>3. QED
    BY <1>2, <2>1, <2>2, BudgetFalls
<1>5. CASE Owner[t] = u
  <2>1. Cardinality(Spent(u)) < MaxRunsPerDay
    BY <1>5 DEF OpenClaim
  <2>2. /\ Cardinality(Paid(u)) <= Cardinality(Spent(u))
        /\ Cardinality(Claiming(u)') <= Cardinality(Ids(u))
    BY <1>2, BudgetSizes, BudgetSizesNext
  <2>3. /\ Cardinality(Paid(u)) \in Nat /\ Cardinality(Spent(u)) \in Nat
        /\ Cardinality(Claiming(u)') \in Nat /\ Cardinality(Ids(u)) \in Nat /\ MaxRunsPerDay \in Nat
    BY <1>2, BudgetSizes, BudgetSizesNext, SchedulerAssumption
  <2>4. \A a, b, k, m, n \in Nat : n < m /\ a <= n /\ b <= k => a + b < m + k
    OBVIOUS
  <2>5. Cardinality(Paid(u)') + Cardinality(Claiming(u)') < MaxRunsPerDay + Cardinality(Ids(u))
    BY <1>3, <2>1, <2>2, <2>3, <2>4
  <2>6. QED
    BY <2>5 DEF WithinBudget, Ids
<1>6. QED
  BY <1>4, <1>5

LEMMA BudgetPreserved == IInv /\ BudgetInv /\ [Next]_vars => BudgetInv'
<1> SUFFICES ASSUME IInv, BudgetInv, [Next]_vars PROVE BudgetInv'
  OBVIOUS
<1> DEFINE Goal == BudgetInv'
<1>1. ASSUME claims' \subseteq claims, now' = now \/ now' = now + 1, runs' \subseteq runs PROVE Goal
  <2>1. IsFiniteSet(runs')
    BY <1>1, FS_Subset DEF BudgetInv
  <2>2. QED
    BY <1>1, <2>1, BudgetSpares
<1>2. CASE Tick
  BY <1>1, <1>2 DEF Tick, table, handler
<1>3. ASSUME NEW t \in Task, PostTask(t) PROVE Goal
  BY <1>1, <1>3 DEF PostTask, table
<1>4. ASSUME NEW t \in Task, NEW s \in Submissions, InsertTask(t, s) \/ ReadForEdit(t, s) PROVE Goal
  BY <1>1, <1>4 DEF InsertTask, ReadForEdit, table
<1>5. ASSUME NEW t \in Task, NEW enabled \in BOOLEAN, ReadForToggle(t, enabled) PROVE Goal
  BY <1>1, <1>5 DEF ReadForToggle, table
<1>6. ASSUME NEW p \in patches, WritePatch(p) PROVE Goal
  BY <1>1, <1>6 DEF WritePatch
<1>7. ASSUME NEW t \in Task, DeleteTask(t) PROVE Goal
  BY <1>1, <1>7 DEF DeleteTask, Remove, handler
<1>8. ASSUME NEW u \in Tenant, EraseAccount(u) PROVE Goal
  BY <1>1, <1>8 DEF EraseAccount, Remove, handler
<1>9. ASSUME NEW t \in Task, NEW o \in Claimable, OpenClaim(t, o) PROVE Goal
  BY <1>9, BudgetIsCounted
<1>10. ASSUME NEW c \in claims, CommitClaim(c) PROVE Goal
  BY <1>10, BudgetIsSpent
<1>11. ASSUME NEW r \in runs, NEW status \in Reports, FinishRun(r, status) PROVE Goal
  <2>1. runs' = (runs \ {r}) \cup {Closed(q, status) : q \in {r}} /\ UNCHANGED <<claims, now>>
    BY <1>11 DEF FinishRun, handler
  <2>2. QED
    BY <2>1, BudgetCloses
<1>12. CASE SweepStale
  <2> DEFINE stale == {r \in runs : r.status = "running" /\ r.claimedAt < now - RunDeadline}
  <2>1. runs' = (runs \ stale) \cup {Closed(r, "lost") : r \in stale} /\ UNCHANGED <<claims, now>>
    BY <1>12 DEF SweepStale, handler
  <2>2. QED
    BY <2>1, BudgetCloses
<1>13. ASSUME NEW m \in todo, WriteOff(m) PROVE Goal
  <2> DEFINE r == [task |-> m.task, at |-> m.at, by |-> "sweep", claimedAt |-> now,
                   status |-> "lost"]
  <2>1. claims' = claims /\ now' = now /\ (runs' = runs \/ runs' = runs \cup {r})
    BY <1>13 DEF WriteOff, handler
  <2>2. IsFiniteSet(runs')
    BY <2>1, FS_AddElement DEF BudgetInv
  <2>3. QED
    BY <2>1, <2>2, BudgetSpares
<1>14. CASE UNCHANGED vars \/ SelectMissed \/ SelectDue \/ EndTick \/ Restart
  BY <1>1, <1>14 DEF vars, SelectMissed, SelectDue, EndTick, Restart, table, handler
<1>15. ASSUME NEW u \in asked, Wake(u) PROVE Goal
  BY <1>1, <1>15 DEF Wake, table, handler
<1>16. ASSUME NEW m \in todo, WriteOffFails(m) PROVE Goal
  BY <1>1, <1>16 DEF WriteOffFails, table, handler
<1>17. QED
  BY <1>2, <1>3, <1>4, <1>5, <1>6, <1>7, <1>8, <1>9, <1>10, <1>11, <1>12, <1>13, <1>14, <1>15,
     <1>16
  DEF Next, TenantStep, SandboxStep, SweepStep, FaultStep

(***************************************************************************)
(* However many tasks a tenant has and whenever they are claimed, what a   *)
(* tenant's claims cost in a day passes the limit by less than one run for *)
(* each of its tasks: the claim's count holds only its own task's row.     *)
(***************************************************************************)
THEOREM BudgetIsNearlyKept == Spec => []BudgetOvershootBounded
<1>1. Init => BudgetInv
  <2> SUFFICES ASSUME Init, NEW u \in Tenant, MaxRunsPerDay > 0
               PROVE  IsFiniteSet(runs) /\ WithinBudget(u)
    BY FS_EmptySet DEF BudgetInv, Init
  <2>1. runs = {} /\ Paid(u) = {} /\ Claiming(u) = {}
    BY DEF Init, Paid, Spent, Claiming, Locked
  <2>2. IsFiniteSet(runs) /\ Cardinality(Paid(u)) = 0 /\ Cardinality(Claiming(u)) = 0
    BY <2>1, FS_EmptySet
  <2>3. Cardinality(Ids(u)) \in Nat /\ MaxRunsPerDay \in Nat
    BY <2>2, BudgetSizes, SchedulerAssumption
  <2>4. 0 + 0 < MaxRunsPerDay + Cardinality(Ids(u))
    BY <2>3
  <2>5. QED
    BY <2>2, <2>4 DEF WithinBudget
<1>2. IInv /\ BudgetInv => BudgetOvershootBounded
  <2> SUFFICES ASSUME BudgetInv, MaxRunsPerDay > 0, NEW u \in Tenant
               PROVE  Cardinality(Paid(u)) < MaxRunsPerDay + Cardinality(Ids(u))
    BY DEF BudgetOvershootBounded, Paid, Ids
  <2>1. Cardinality(Paid(u)) + Cardinality(Claiming(u)) < MaxRunsPerDay + Cardinality(Ids(u))
    BY DEF BudgetInv, WithinBudget
  <2>2. /\ Cardinality(Paid(u)) \in Nat /\ Cardinality(Claiming(u)) \in Nat
        /\ Cardinality(Ids(u)) \in Nat /\ MaxRunsPerDay \in Nat
    BY BudgetSizes, SchedulerAssumption DEF BudgetInv
  <2>3. \A a, b, k, m \in Nat : a + b < m + k => a < m + k
    OBVIOUS
  <2>4. QED
    BY <2>1, <2>2, <2>3
<1>3. QED
  BY <1>1, <1>2, BudgetPreserved, InvariantInductive, PTL DEF Spec
=============================================================================
