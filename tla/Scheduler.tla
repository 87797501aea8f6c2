----------------------------- MODULE Scheduler -----------------------------
(***************************************************************************)
(* The scheduler service: its two tables (scheduler/src/db.js), its API    *)
(* (scheduler/src/server.js) and its sweep (scheduler/src/clock.js).       *)
(*                                                                         *)
(* Every handler that reads the database and then writes it is two         *)
(* actions, because another request can run between the two statements.    *)
(* A claim is one transaction holding its task's row lock: its two halves  *)
(* are two actions too, and every statement that needs the row waits.      *)
(***************************************************************************)
EXTENDS Rules, FiniteSets

CONSTANTS
  Task,            \* task ids: randomUUID never answers one twice
  Tenant,          \* account addresses
  Owner,           \* the tenant whose request draws each id
  Submissions,     \* what tenants submit as a task
  Claimable,       \* the occurrences sandboxes name in their claims
  Reports,         \* the outcomes sandboxes report
  MissAfter,       \* MISS_AFTER_MS
  RunDeadline,     \* RUN_DEADLINE_MS
  Lead,            \* WAKE_LEAD_MS
  Day,             \* the window of the daily run budget
  MaxTasks,        \* limits.maxScheduledTasks, 0 for no limit
  MaxRunsPerDay,   \* limits.maxScheduledRunsPerDay, 0 for no limit
  MaxTime,         \* bound: the clock stops here
  MaxPatches,      \* bound: PATCH requests in flight at once
  MaxFaults        \* bound: restarts and failed transactions

ASSUME SchedulerAssumption ==
  /\ Owner \in [Task -> Tenant]
  /\ Submissions \subseteq Submission
  /\ Claimable \subseteq 0 .. MaxTime
  /\ Reports \subseteq {"ok", "failed"}
  /\ {MissAfter, RunDeadline, Lead, Day} \subseteq Nat
  /\ {MaxTasks, MaxRunsPerDay, MaxTime, MaxPatches, MaxFaults} \subseteq Nat

\* There are UUIDs, and only so many.
ASSUME IdsAssumption == Task # {} /\ IsFiniteSet(Task)

VARIABLES
  now,             \* the database clock
  live,            \* ids with a row in scheduled_tasks
  deleted,         \* ids whose row is gone
  row,             \* scheduled_tasks: rule, enabled, next_run_at
  runs,            \* scheduled_runs
  erased,          \* accounts that no longer exist
  posts,           \* POST /tasks that passed the ceiling and have not inserted
  patches,         \* PATCH requests between their SELECT and their UPDATE
  claims,          \* open claim transactions, each holding its task's row
  phase,           \* where the tick is
  todo,            \* rows sweepMissed selected and has not written off yet
  asked,           \* tenants sweepDue selected and has not woken yet
  faults           \* faults so far

table   == <<live, deleted, row, runs, erased>>
handler == <<posts, patches, claims>>
sweep   == <<phase, todo, asked>>
vars    == <<now, table, handler, sweep, faults>>

Instant   == 0 .. MaxTime
Following == Nat \cup {NoInstant}
Row       == [rule : Rule, enabled : BOOLEAN, next : Following]
Run       == [task : Task, at : Instant, by : {"claim", "sweep"}, claimedAt : Instant,
              status : {"running", "ok", "failed", "lost"}]
Patch     == [task : Task, edit : BOOLEAN, rule : Rule, enabled : BOOLEAN, next : Following]
Claim     == [task : Task, at : Instant, since : Instant]
Overdue   == [task : Task, rule : Rule, at : Instant]

NoRow == [rule |-> [kind |-> "at", at |-> 0], enabled |-> FALSE, next |-> NoInstant]

TypeOK ==
  /\ now \in Instant
  /\ live \subseteq Task
  /\ deleted \subseteq Task
  /\ row \in [Task -> Row]
  /\ runs \subseteq Run
  /\ erased \subseteq Tenant
  /\ posts \subseteq Task
  /\ patches \subseteq Patch
  /\ claims \subseteq Claim
  /\ phase \in {"idle", "missed", "stale", "due"}
  /\ todo \subseteq Overdue
  /\ asked \subseteq Tenant
  /\ faults \in Nat

Init ==
  /\ now = 0
  /\ live = {} /\ deleted = {} /\ erased = {}
  /\ row = [t \in Task |-> NoRow]
  /\ runs = {}
  /\ posts = {} /\ patches = {} /\ claims = {}
  /\ phase = "idle" /\ todo = {} /\ asked = {}
  /\ faults = 0

TasksOf(u)   == {t \in live : Owner[t] = u}
HasRun(t, o) == \E r \in runs : r.task = t /\ r.at = o
Locked(t)    == \E c \in claims : c.task = t
Spent(u)     == {r \in runs : Owner[r.task] = u /\ r.claimedAt > now - Day}
Due(t)       == row[t].enabled /\ row[t].next # NoInstant

Tick ==
  /\ now < MaxTime
  /\ now' = now + 1
  /\ UNCHANGED <<table, handler, sweep, faults>>

-----------------------------------------------------------------------------
(***************************************************************************)
(* The tenant's requests.                                                  *)
(***************************************************************************)

(***************************************************************************)
(* POST /tasks: count first, insert later.                                 *)
(***************************************************************************)
PostTask(t) ==
  /\ t \notin live \cup deleted \cup posts
  /\ Owner[t] \notin erased
  /\ MaxTasks > 0 => Cardinality(TasksOf(Owner[t])) < MaxTasks
  /\ posts' = posts \cup {t}
  /\ UNCHANGED <<now, table, patches, claims, sweep, faults>>

InsertTask(t, s) ==
  /\ t \in posts
  /\ posts' = posts \ {t}
  /\ IF Accepts(s, now) /\ Owner[t] \notin erased
     THEN /\ live' = live \cup {t}
          /\ row' = [row EXCEPT ![t] = [rule    |-> Stored(s, now),
                                        enabled |-> TRUE,
                                        next    |-> FirstOccurrence(s, now)]]
     ELSE UNCHANGED <<live, row>>
  /\ UNCHANGED <<now, deleted, runs, erased, patches, claims, sweep, faults>>

(***************************************************************************)
(* PATCH with only `enabled`: the occurrence to store is decided from the  *)
(* row that was read.                                                      *)
(***************************************************************************)
ReadForToggle(t, enabled) ==
  /\ t \in live
  /\ Cardinality(patches) < MaxPatches
  /\ LET old  == row[t]
         next == IF enabled /\ (old.next = NoInstant \/ old.next < now)
                 THEN NextOccurrence(old.rule, now) ELSE old.next
     IN  patches' = patches \cup
           {[task |-> t, edit |-> FALSE, rule |-> old.rule, enabled |-> enabled, next |-> next]}
  /\ UNCHANGED <<now, table, posts, claims, sweep, faults>>

(***************************************************************************)
(* PATCH with a task: the dialog sends no `enabled`, so the row's is kept. *)
(***************************************************************************)
ReadForEdit(t, s) ==
  /\ t \in live
  /\ Cardinality(patches) < MaxPatches
  /\ Accepts(s, now)
  /\ LET enabled == row[t].enabled
     IN  patches' = patches \cup
           {[task |-> t, edit |-> TRUE, rule |-> Stored(s, now), enabled |-> enabled,
             next |-> IF enabled THEN FirstOccurrence(s, now) ELSE NoInstant]}
  /\ UNCHANGED <<now, table, posts, claims, sweep, faults>>

(***************************************************************************)
(* The UPDATE of either PATCH, which touches nothing when the row is gone. *)
(***************************************************************************)
WritePatch(p) ==
  /\ p \in patches
  /\ ~Locked(p.task)
  /\ patches' = patches \ {p}
  /\ row' = IF p.task \in live
            THEN [row EXCEPT ![p.task] =
                    [rule    |-> IF p.edit THEN p.rule ELSE @.rule,
                     enabled |-> p.enabled,
                     next    |-> p.next]]
            ELSE row
  /\ UNCHANGED <<now, live, deleted, runs, erased, posts, claims, sweep, faults>>

(***************************************************************************)
(* Deleting rows cascades to their runs.                                   *)
(***************************************************************************)
Remove(tasks) ==
  /\ \A t \in tasks : ~Locked(t)
  /\ live' = live \ tasks
  /\ deleted' = deleted \cup tasks
  /\ row' = [t \in Task |-> IF t \in tasks THEN NoRow ELSE row[t]]
  /\ runs' = {r \in runs : r.task \notin tasks}

DeleteTask(t) ==
  /\ t \in live
  /\ Remove({t})
  /\ UNCHANGED <<now, erased, handler, sweep, faults>>

(***************************************************************************)
(* The gateway erases the account; the foreign key takes its tasks.        *)
(***************************************************************************)
EraseAccount(u) ==
  /\ u \notin erased
  /\ Remove(TasksOf(u))
  /\ erased' = erased \cup {u}
  /\ UNCHANGED <<now, handler, sweep, faults>>

-----------------------------------------------------------------------------
(***************************************************************************)
(* The sandbox's requests.                                                 *)
(***************************************************************************)

(***************************************************************************)
(* Mistake: the budget lets one run too many through.                      *)
(***************************************************************************)
OpenClaimOffByOne(t, o) ==
  /\ t \in live /\ ~Locked(t) /\ row[t].enabled
  /\ MaxRunsPerDay > 0 => Cardinality(Spent(Owner[t])) <= MaxRunsPerDay
  /\ claims' = claims \cup {[task |-> t, at |-> o, since |-> now]}
  /\ UNCHANGED <<now, table, posts, patches, sweep, faults>>

(***************************************************************************)
(* POST /tasks/:id/claim up to its INSERT.  The occurrence is whatever the *)
(* caller names; only the task's row is locked, so two tasks of one tenant *)
(* can be counting the same budget at once.                                *)
(***************************************************************************)
OpenClaim(t, o) ==
  /\ t \in live
  /\ ~Locked(t)
  /\ row[t].enabled
  /\ MaxRunsPerDay > 0 => Cardinality(Spent(Owner[t])) < MaxRunsPerDay
  /\ claims' = claims \cup {[task |-> t, at |-> o, since |-> now]}
  /\ UNCHANGED <<now, table, posts, patches, sweep, faults>>

(***************************************************************************)
(* Mistake: only a run still under way refuses a second claim.             *)
(***************************************************************************)
GrantedUnlessRunning(c) ==
  \A r \in runs : r.task = c.task /\ r.at = c.at => r.status # "running"

(***************************************************************************)
(* The rest of the claim: the unique key decides, and a granted claim      *)
(* advances the series in the same transaction.                            *)
(***************************************************************************)
Granted(c) == ~HasRun(c.task, c.at)

CommitClaim(c) ==
  /\ c \in claims
  /\ claims' = claims \ {c}
  /\ IF Granted(c)
     THEN /\ runs' = runs \cup {[task |-> c.task, at |-> c.at, by |-> "claim",
                                 claimedAt |-> c.since, status |-> "running"]}
          /\ row' = [row EXCEPT ![c.task].next = NextOccurrence(row[c.task].rule, c.at)]
     ELSE UNCHANGED <<runs, row>>
  /\ UNCHANGED <<now, live, deleted, erased, posts, patches, sweep, faults>>

Closed(r, status) == [r EXCEPT !.status = status]

(***************************************************************************)
(* Mistake: a late report overwrites a run already written off.            *)
(***************************************************************************)
FinishAnyRun(r, status) ==
  /\ r \in runs
  /\ runs' = (runs \ {r}) \cup {Closed(r, status)}
  /\ UNCHANGED <<now, live, deleted, row, erased, handler, sweep, faults>>

(***************************************************************************)
(* POST /runs/:id/finish writes only a run that is still open.             *)
(***************************************************************************)
FinishRun(r, status) ==
  /\ r \in runs
  /\ r.status = "running"
  /\ runs' = (runs \ {r}) \cup {Closed(r, status)}
  /\ UNCHANGED <<now, live, deleted, row, erased, handler, sweep, faults>>

-----------------------------------------------------------------------------
(***************************************************************************)
(* The tick: sweepMissed, then sweepStale, then sweepDue.                  *)
(***************************************************************************)
SelectMissed ==
  /\ phase = "idle"
  /\ phase' = "missed"
  /\ todo' = {[task |-> t, rule |-> row[t].rule, at |-> row[t].next] :
                t \in {u \in live : Due(u) /\ row[u].next < now - MissAfter}}
  /\ UNCHANGED <<now, table, handler, asked, faults>>

(***************************************************************************)
(* Mistakes: the write-off with its three statements, the INSERT, the      *)
(* UPDATE's WHERE and the foreign key, each weakened in turn.              *)
(***************************************************************************)
WriteOffOf(m, inserts, advances) ==
  /\ phase = "missed" /\ m \in todo /\ ~Locked(m.task)
  /\ todo' = todo \ {m}
  /\ runs' = IF inserts
             THEN runs \cup {[task |-> m.task, at |-> m.at, by |-> "sweep",
                              claimedAt |-> now, status |-> "lost"]}
             ELSE runs
  /\ row' = IF advances
            THEN [row EXCEPT ![m.task].next = NextOccurrence(m.rule, m.at)] ELSE row
  /\ UNCHANGED <<now, live, deleted, erased, handler, phase, asked, faults>>

WriteOffAnyway(m)     == WriteOffOf(m, m.task \in live /\ ~HasRun(m.task, m.at),
                                    m.task \in live)
WriteOffIfNew(m)      == LET new == m.task \in live /\ ~HasRun(m.task, m.at)
                         IN  WriteOffOf(m, new, new /\ row[m.task].next = m.at)
WriteOffUnanchored(m) == WriteOffOf(m, ~HasRun(m.task, m.at),
                                    m.task \in live /\ row[m.task].next = m.at)

(***************************************************************************)
(* One transaction per selected row.  The row may be gone, in which case   *)
(* the INSERT violates its foreign key; it may have moved on, in which     *)
(* case only the write-off is recorded.                                    *)
(***************************************************************************)
WriteOff(m) ==
  /\ phase = "missed"
  /\ m \in todo
  /\ ~Locked(m.task)
  /\ todo' = todo \ {m}
  /\ IF m.task \in live
     THEN /\ runs' = IF HasRun(m.task, m.at) THEN runs
                     ELSE runs \cup {[task |-> m.task, at |-> m.at, by |-> "sweep",
                                      claimedAt |-> now, status |-> "lost"]}
          /\ row' = IF row[m.task].next = m.at
                    THEN [row EXCEPT ![m.task].next = NextOccurrence(m.rule, m.at)]
                    ELSE row
     ELSE UNCHANGED <<runs, row>>
  /\ UNCHANGED <<now, live, deleted, erased, handler, phase, asked, faults>>

(***************************************************************************)
(* Mistake: the deadline is compared the wrong way round.                  *)
(***************************************************************************)
SweepFresh ==
  /\ phase = "missed" /\ todo = {}
  /\ phase' = "stale"
  /\ LET stale == {r \in runs : r.status = "running" /\ r.claimedAt > now - RunDeadline}
     IN  runs' = (runs \ stale) \cup {Closed(r, "lost") : r \in stale}
  /\ UNCHANGED <<now, live, deleted, row, erased, handler, todo, asked, faults>>

SweepStale ==
  /\ phase = "missed"
  /\ todo = {}
  /\ phase' = "stale"
  /\ LET stale == {r \in runs : r.status = "running" /\ r.claimedAt < now - RunDeadline}
     IN  runs' = (runs \ stale) \cup {Closed(r, "lost") : r \in stale}
  /\ UNCHANGED <<now, live, deleted, row, erased, handler, todo, asked, faults>>

SelectDue ==
  /\ phase = "stale"
  /\ phase' = "due"
  /\ asked' = {Owner[t] : t \in {u \in live : Due(u) /\ row[u].next <= now + Lead}}
  /\ UNCHANGED <<now, table, handler, todo, faults>>

(***************************************************************************)
(* One tenant's machine is asked for, whatever the gateway answers.        *)
(***************************************************************************)
Wake(u) ==
  /\ phase = "due"
  /\ u \in asked
  /\ asked' = asked \ {u}
  /\ UNCHANGED <<now, table, handler, phase, todo, faults>>

EndTick ==
  /\ phase = "due"
  /\ asked = {}
  /\ phase' = "idle"
  /\ UNCHANGED <<now, table, handler, todo, asked, faults>>

-----------------------------------------------------------------------------
(***************************************************************************)
(* Faults: one write-off rolls back and is skipped until the next tick, or *)
(* the service restarts and every request and transaction in flight goes.  *)
(***************************************************************************)
WriteOffFails(m) ==
  /\ faults < MaxFaults
  /\ phase = "missed"
  /\ m \in todo
  /\ todo' = todo \ {m}
  /\ faults' = faults + 1
  /\ UNCHANGED <<now, table, handler, phase, asked>>

Restart ==
  /\ faults < MaxFaults
  /\ faults' = faults + 1
  /\ posts' = {} /\ patches' = {} /\ claims' = {}
  /\ phase' = "idle" /\ todo' = {} /\ asked' = {}
  /\ UNCHANGED <<now, table>>

-----------------------------------------------------------------------------
TenantStep ==
  \/ \E t \in Task : PostTask(t) \/ DeleteTask(t)
  \/ \E t \in Task, s \in Submissions : InsertTask(t, s) \/ ReadForEdit(t, s)
  \/ \E t \in Task, enabled \in BOOLEAN : ReadForToggle(t, enabled)
  \/ \E p \in patches : WritePatch(p)
  \/ \E u \in Tenant : EraseAccount(u)

SandboxStep ==
  \/ \E t \in Task, o \in Claimable : OpenClaim(t, o)
  \/ \E c \in claims : CommitClaim(c)
  \/ \E r \in runs, status \in Reports : FinishRun(r, status)

SweepStep ==
  \/ SelectMissed \/ SweepStale \/ SelectDue \/ EndTick
  \/ \E m \in todo : WriteOff(m)
  \/ \E u \in asked : Wake(u)

FaultStep == Restart \/ \E m \in todo : WriteOffFails(m)

Next == Tick \/ TenantStep \/ SandboxStep \/ SweepStep \/ FaultStep

Spec == Init /\ [][Next]_vars

(***************************************************************************)
(* Time passes, the interval timer keeps ticking, PostgreSQL finishes a    *)
(* transaction that was begun and grants a row lock in the order it was    *)
(* asked for, so a sweep that waits for a claim is not overtaken for ever. *)
(* Nothing is assumed of tenants or of sandboxes.                          *)
(***************************************************************************)
FairSpec ==
  /\ Spec
  /\ WF_vars(Tick)
  /\ WF_vars(SweepStep)
  /\ SF_vars(\E m \in todo : WriteOff(m))
  /\ WF_vars(\E c \in claims : CommitClaim(c))

-----------------------------------------------------------------------------
(***************************************************************************)
(* Properties.                                                             *)
(***************************************************************************)

(***************************************************************************)
(* The unique key of scheduled_runs as every party relies on it: whatever  *)
(* claims, sweeps, edits and restarts interleave, an occurrence has one    *)
(* record, so it is granted to one sandbox or written off, never both      *)
(* (db.js, "makes a run happen at most once").                             *)
(***************************************************************************)
OneRecordPerOccurrence ==
  \A r, s \in runs : r.task = s.task /\ r.at = s.at => r = s

(***************************************************************************)
(* No record outlives its task, although a claim or a write-off may have   *)
(* been under way when the task was deleted or its account erased.         *)
(***************************************************************************)
RecordsHaveTasks == \A r \in runs : r.task \in live

(***************************************************************************)
(* The write-off works from rows it selected earlier.  It never moves a    *)
(* series whose stored occurrence is not itself past the miss margin: one  *)
(* that was claimed, edited or re-enabled meanwhile is left where it is.   *)
(***************************************************************************)
WriteOffLeavesMovedSeries ==
  [][\A t \in live :
       todo' # todo /\ row'[t].next # row[t].next => row[t].next < now - MissAfter]_vars

(***************************************************************************)
(* The daily budget is counted while only one task's row is locked.  What  *)
(* simultaneous claims can spend beyond it is bounded: one run for every   *)
(* other task the tenant has.                                              *)
(***************************************************************************)
BudgetOvershootBounded ==
  MaxRunsPerDay > 0 =>
    \A u \in Tenant :
      Cardinality({r \in Spent(u) : r.by = "claim"})
        < MaxRunsPerDay + Cardinality({t \in Task : Owner[t] = u})

(***************************************************************************)
(* The service implements the ledger of occurrences.                       *)
(***************************************************************************)
Ledger == INSTANCE RunLedger WITH
  ledger    <- {[task |-> r.task, at |-> r.at, status |-> r.status] : r \in runs},
  forgotten <- deleted

ImplementsLedger == Ledger!Spec

(***************************************************************************)
(* No occurrence stays due for ever: it is claimed, written off, edited,   *)
(* disabled or deleted, even when a PATCH has put back an occurrence that  *)
(* was already claimed and no sandbox will ever be granted again.          *)
(***************************************************************************)
NothingStaysDue ==
  \A t \in Task, o \in Instant :
    LET stays == t \in live /\ row[t].enabled /\ row[t].next = o
    IN  stays /\ o + MissAfter < MaxTime ~> ~stays

(***************************************************************************)
(* A claim that never reports is closed as lost once its deadline passes.  *)
(***************************************************************************)
ClaimsAreClosed ==
  \A t \in Task, o \in Instant :
    LET open(limit) == \E r \in runs :
          r.task = t /\ r.at = o /\ r.status = "running" /\ r.claimedAt < limit
    IN  open(MaxTime - RunDeadline) ~> ~open(MaxTime + 1)

(***************************************************************************)
(* server.js on PATCH: "Re-enabling alone still has to produce an          *)
(* occurrence".  For a one-shot task that has not run and whose instant is *)
(* still ahead, that occurrence is its instant.                            *)
(***************************************************************************)
ReenablingProducesOccurrence ==
  [][\A t \in live \cap live' :
       /\ ~row[t].enabled /\ row'[t].enabled
       /\ row'[t].rule.kind = "at" /\ row'[t].rule.at > now
       /\ \A r \in runs : r.task # t
       => row'[t].next = row'[t].rule.at]_vars
=============================================================================
