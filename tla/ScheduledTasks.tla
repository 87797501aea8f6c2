--------------------------- MODULE ScheduledTasks --------------------------
(***************************************************************************)
(* The plugin that fires scheduled tasks inside a tenant's machine         *)
(* (packages/dsh-scheduled-tasks/index.js), composed with the scheduler    *)
(* service it reads, claims from and reports to, and with the gateway's    *)
(* wake call between them.                                                 *)
(*                                                                         *)
(* Time is counted in units that are long beside a request: the clock does *)
(* not advance while a machine has something to do at once, nor before a   *)
(* sweep has gone by.  Account erasure is left to Sessions and Sandboxes.  *)
(***************************************************************************)
EXTENDS Scheduler, Sequences, FiniteSetsExt

Seqs == INSTANCE SequencesExt

CONSTANTS
  RunTimeout,      \* RUN_TIMEOUT_MS
  Refresh,         \* REFRESH_MS
  StaleAfter,      \* STALE_AFTER_MS
  MaxTimer,        \* MAX_TIMER_MS
  MaxExtras        \* bound: PATCH requests and calls of schedule_list

ASSUME PluginAssumption ==
  /\ {RunTimeout, Refresh, StaleAfter, MaxTimer} \subseteq Nat \ {0}
  /\ RunTimeout < RunDeadline
  /\ MaxExtras \in Nat

VARIABLES
  plug,            \* the plugin of each tenant's machine
  job,             \* its fire(), and that of a machine it has replaced
  ran,             \* history: occurrences whose turn was begun
  swept,           \* whether a sweep has ended since the clock, a row or a
                   \* machine's presence changed
  excused,         \* history: due tasks a machine had a reason to leave
  extras           \* PATCH requests and calls of schedule_list so far

pvars == <<plug, job, ran, swept, excused, extras, vars>>

Why      == {"begin", "run", "other"}
Machine  == {"now", "old"}
Listed   == [task : Task, on : BOOLEAN, at : Following]
Key      == Task \X Instant
Reply    == [why : Why, tasks : SUBSET Listed, unheard : SUBSET Task, late : BOOLEAN]
Plugin   == [up : BOOLEAN, tasks : SUBSET Listed, readAt : Following,
             claimed : SUBSET Key, alarm : Following, queue : Seq(Key),
             asks : SUBSET Why, replies : Seq(Reply), idle : Instant,
             unheard : SUBSET Task, overtaken : BOOLEAN, unfired : SUBSET Key]
Job      == [pc : {"none", "claiming", "opened", "granted", "refused", "turn", "reading"},
             key : Key, since : Instant]

Off    == [up |-> FALSE, tasks |-> {}, readAt |-> NoInstant, claimed |-> {},
           alarm |-> NoInstant, queue |-> <<>>, asks |-> {}, replies |-> <<>>,
           idle |-> 0, unheard |-> {}, overtaken |-> FALSE, unfired |-> {}]
Booted == [Off EXCEPT !.up = TRUE, !.asks = {"begin"}, !.idle = now]
NoJob  == [pc |-> "none", key |-> <<CHOOSE t \in Task : TRUE, 0>>, since |-> 0]

PluginTypeOK ==
  /\ TypeOK
  /\ plug \in [Tenant -> Plugin]
  /\ job \in [Tenant -> [Machine -> Job]]
  /\ ran \subseteq Key
  /\ swept \in BOOLEAN
  /\ excused \subseteq Task
  /\ extras \in 0 .. MaxExtras

PluginInit ==
  /\ Init
  /\ plug = [u \in Tenant |-> Off]
  /\ job = [u \in Tenant |-> [m \in Machine |-> NoJob]]
  /\ ran = {} /\ swept = FALSE /\ excused = {} /\ extras = 0

KeyOf(x) == <<x.task, x.at>>
Replied(p, why) == \E i \in DOMAIN p.replies : p.replies[i].why = why
MayAsk(p) == "other" \notin p.asks /\ ~Replied(p, "other")
Asking(p, why) == [p EXCEPT !.asks = @ \cup {why}]

(***************************************************************************)
(* Mistake: a task whose series has ended is taken for an overdue one.     *)
(***************************************************************************)
OfferedEnded(p) == {x \in p.tasks : x.on /\ KeyOf(x) \notin p.claimed}

(***************************************************************************)
(* What the list still offers: enabled, with an instant, not fired yet.    *)
(***************************************************************************)
Offered(p) == {x \in p.tasks : x.on /\ x.at # NoInstant /\ KeyOf(x) \notin p.claimed}
Earliest(p) == {x \in Offered(p) : \A y \in Offered(p) : x.at <= y.at}

(***************************************************************************)
(* Mistake: a timer already armed is left as it is.                        *)
(***************************************************************************)
ArmedUnlessArmed(p) ==
  IF p.alarm > now THEN p
  ELSE [p EXCEPT !.alarm = now + IF Offered(p) = {} THEN Refresh
                 ELSE Max({0, (CHOOSE x \in Earliest(p) : TRUE).at - now})]

(***************************************************************************)
(* One timer, for the earliest occurrence or the heartbeat.                *)
(***************************************************************************)
Armed(p) ==
  LET delay == IF Offered(p) = {} THEN Refresh
               ELSE Max({0, (CHOOSE x \in Earliest(p) : TRUE).at - now})
  IN  [p EXCEPT !.alarm = now + Min({delay, MaxTimer})]

-----------------------------------------------------------------------------
(***************************************************************************)
(* The machine comes and goes.  A machine that is up is not told that it   *)
(* was asked for.                                                          *)
(***************************************************************************)
Brought(u) == plug' = IF plug[u].up THEN plug ELSE [plug EXCEPT ![u] = Booted]

WakeTenant(u) == Wake(u) /\ Brought(u) /\ UNCHANGED <<job, ran, swept, excused, extras>>

Visit(u) == ~plug[u].up /\ Brought(u) /\ UNCHANGED <<job, ran, swept, excused, extras, vars>>

Lose(u, next) ==
  /\ plug' = [plug EXCEPT ![u] = next]
  /\ swept' = FALSE
  /\ UNCHANGED <<ran, excused, extras>>

(***************************************************************************)
(* The idle sweep takes a machine in which no agent has worked for a while.*)
(***************************************************************************)
Reap(u) ==
  /\ plug[u].up
  /\ plug[u].idle < now
  /\ job[u]["now"].pc # "turn"
  /\ Lose(u, Off)
  /\ job' = [job EXCEPT ![u]["now"] = NoJob]
  /\ UNCHANGED vars

Faulty == faults < MaxFaults /\ faults' = faults + 1 /\ UNCHANGED <<now, table, handler, sweep>>

Crash(u) ==
  /\ plug[u].up
  /\ Lose(u, Off)
  /\ job' = [job EXCEPT ![u]["now"] = NoJob]
  /\ Faulty

(***************************************************************************)
(* A machine is rebuilt while the one before it is still winding down.  A  *)
(* call of the old one is answered or not, depending on whether it got to  *)
(* the gateway before the gateway forgot that machine.                     *)
(***************************************************************************)
Rebuild(u) ==
  /\ plug[u].up
  /\ Lose(u, Booted)
  /\ job' = [job EXCEPT ![u] = [now |-> NoJob, old |-> job[u]["now"]]]
  /\ Faulty

OldGoes(u) ==
  /\ job[u]["old"] # NoJob
  /\ job' = [job EXCEPT ![u]["old"] = NoJob]
  /\ UNCHANGED <<plug, ran, swept, excused, extras, vars>>

-----------------------------------------------------------------------------
(***************************************************************************)
(* refresh: the server's answer is a snapshot, and answers may arrive in   *)
(* another order than they were read in.                                   *)
(***************************************************************************)
Snapshot(u) == {[task |-> t, on |-> row[t].enabled, at |-> row[t].next] : t \in TasksOf(u)}

Serve(u, why) ==
  /\ why \in plug[u].asks
  /\ plug' = [plug EXCEPT
       ![u].asks = @ \ {why},
       ![u].replies = Append(@, [why |-> why, tasks |-> Snapshot(u),
                                 unheard |-> {}, late |-> FALSE])]
  /\ UNCHANGED <<job, ran, swept, excused, extras, vars>>

Back(u, why) ==
  job' = IF why = "run" THEN [job EXCEPT ![u]["now"] = NoJob] ELSE job

(***************************************************************************)
(* Only the keys the fresh list could still offer are kept.                *)
(***************************************************************************)
KeptKeys(p, tasks) == p.claimed \cap {KeyOf(x) : x \in tasks}

Apply(u, i) ==
  /\ i \in DOMAIN plug[u].replies
  /\ LET p == plug[u]
         r == p.replies[i]
         rest == [k \in DOMAIN p.replies |->
                    [p.replies[k] EXCEPT !.late = @ \/ k < i]]
     IN  /\ plug' = [plug EXCEPT ![u] = Armed([p EXCEPT
                !.tasks = r.tasks, !.readAt = now, !.claimed = KeptKeys(p, r.tasks),
                !.replies = Seqs!RemoveAt(rest, i), !.unheard = r.unheard,
                !.overtaken = r.late, !.unfired = KeptKeys(p, r.tasks) \cap (@ \cup ran)])]
         /\ Back(u, r.why)
  /\ UNCHANGED <<ran, swept, excused, extras, vars>>

(***************************************************************************)
(* The read fails: the timer is armed from the list there is, and the      *)
(* first read is tried again.                                              *)
(***************************************************************************)
GetFails(u, why) ==
  /\ why \in plug[u].asks
  /\ plug' = [plug EXCEPT ![u] =
       Armed([plug[u] EXCEPT !.asks = IF why = "begin" THEN @ ELSE @ \ {why}])]
  /\ Back(u, why)
  /\ Faulty
  /\ UNCHANGED <<ran, swept, excused, extras>>

(***************************************************************************)
(* The timer's callback.                                                   *)
(***************************************************************************)
Ringing(p) == p.alarm # NoInstant /\ p.alarm <= now

Taken(p, x) == Armed([p EXCEPT !.claimed = @ \cup {KeyOf(x)}, !.queue = Append(@, KeyOf(x))])

AlarmTakes(u) ==
  /\ Ringing(plug[u])
  /\ \E x \in Earliest(plug[u]) :
       /\ x.at <= now
       /\ plug' = [plug EXCEPT ![u] = Taken(@, x)]
  /\ UNCHANGED <<job, ran, swept, excused, extras, vars>>

AlarmReads(u) ==
  /\ Ringing(plug[u])
  /\ \A x \in Earliest(plug[u]) : x.at > now
  /\ LET p == plug[u]
     IN  IF p.readAt = NoInstant \/ now - p.readAt >= Refresh
         THEN /\ MayAsk(p)
              /\ plug' = [plug EXCEPT ![u] = Asking([p EXCEPT !.alarm = NoInstant], "other")]
         ELSE plug' = [plug EXCEPT ![u] = Armed(p)]
  /\ UNCHANGED <<job, ran, swept, excused, extras, vars>>

-----------------------------------------------------------------------------
(***************************************************************************)
(* fire: one occurrence at a time, from a list recent enough.              *)
(***************************************************************************)
Fire(u) ==
  /\ plug[u].queue # <<>>
  /\ job[u]["now"].pc = "none"
  /\ LET key  == Head(plug[u].queue)
         rest == [plug[u] EXCEPT !.queue = Tail(@)]
     IN  IF now - plug[u].readAt > StaleAfter
         THEN /\ plug' = [plug EXCEPT ![u] = [rest EXCEPT !.unfired = @ \cup {key}]]
              /\ job' = job
         ELSE /\ plug' = [plug EXCEPT ![u] = rest]
              /\ job' = [job EXCEPT ![u]["now"] =
                           [pc |-> "claiming", key |-> key, since |-> now]]
  /\ UNCHANGED <<ran, swept, excused, extras, vars>>

At(u, m, pc) == job[u][m].pc = pc
Moves(u, m, pc) == job' = [job EXCEPT ![u][m].pc = pc]
Refusable(u, t) ==
  \/ t \notin live
  \/ ~row[t].enabled
  \/ MaxRunsPerDay > 0 /\ Cardinality(Spent(u)) >= MaxRunsPerDay

ClaimOpens(u, m) ==
  /\ At(u, m, "claiming")
  /\ OpenClaim(job[u][m].key[1], job[u][m].key[2])
  /\ Moves(u, m, "opened")
  /\ UNCHANGED <<plug, ran, swept, excused, extras>>

ClaimIsRefused(u, m) ==
  /\ At(u, m, "claiming")
  /\ ~Locked(job[u][m].key[1])
  /\ m = "old" \/ Refusable(u, job[u][m].key[1])
  /\ Moves(u, m, "refused")
  /\ UNCHANGED <<plug, ran, swept, excused, extras, vars>>

Opened(c) == {um \in Tenant \X Machine :
                At(um[1], um[2], "opened") /\ job[um[1]][um[2]].key = <<c.task, c.at>>}

(***************************************************************************)
(* The transaction ends, whether or not its caller is still there.         *)
(***************************************************************************)
ClaimEnds(c) ==
  /\ CommitClaim(c)
  /\ IF Opened(c) = {} THEN job' = job
     ELSE \E um \in Opened(c) :
            Moves(um[1], um[2], IF Granted(c) THEN "granted" ELSE "refused")
  /\ UNCHANGED <<plug, ran, swept, excused, extras>>

(***************************************************************************)
(* The scheduler restarted in the middle of the claim.                     *)
(***************************************************************************)
ClaimAborts(u, m) ==
  /\ At(u, m, "opened")
  /\ ~Locked(job[u][m].key[1])
  /\ Moves(u, m, "refused")
  /\ UNCHANGED <<plug, ran, swept, excused, extras, vars>>

(***************************************************************************)
(* A refused claim reads the list again, without being waited for.         *)
(***************************************************************************)
Refused(u, m) ==
  /\ At(u, m, "refused")
  /\ job' = [job EXCEPT ![u][m] = NoJob]
  /\ IF m = "now" THEN /\ MayAsk(plug[u])
          /\ plug' = [plug EXCEPT ![u] =
               Asking([plug[u] EXCEPT !.unfired = @ \cup {job[u][m].key}], "other")]
     ELSE plug' = plug
  /\ UNCHANGED <<ran, swept, excused, extras, vars>>

AnswerLost(u) ==
  /\ job[u]["now"].pc \in {"claiming", "granted", "refused"}
  /\ job' = [job EXCEPT ![u]["now"] = NoJob]
  /\ Faulty
  /\ UNCHANGED <<plug, ran, swept, excused, extras>>

(***************************************************************************)
(* The turn: a session is opened and prompted, and it ends or times out.   *)
(***************************************************************************)
TurnBegins(u, m) ==
  /\ At(u, m, "granted")
  /\ job' = [job EXCEPT ![u][m].pc = "turn", ![u][m].since = now]
  /\ ran' = ran \cup {job[u][m].key}
  /\ UNCHANGED <<plug, swept, excused, extras, vars>>

(***************************************************************************)
(* Mistake: the list is not read again once a run has ended.               *)
(***************************************************************************)
AfterUnread(u, m) ==
  /\ plug' = [plug EXCEPT ![u].idle = now]
  /\ job' = [job EXCEPT ![u][m] = NoJob]
  /\ UNCHANGED <<ran, swept, excused, extras>>

After(u, m) ==
  /\ IF m = "now"
     THEN /\ plug' = [plug EXCEPT ![u] = [Asking(@, "run") EXCEPT !.idle = now]]
          /\ Moves(u, m, "reading")
     ELSE /\ plug' = plug
          /\ job' = [job EXCEPT ![u][m] = NoJob]
  /\ UNCHANGED <<ran, swept, excused, extras>>

OpenRuns(key) == {r \in runs : r.task = key[1] /\ r.at = key[2] /\ r.status = "running"}

TurnEnds(u, m, status) ==
  /\ At(u, m, "turn")
  /\ \/ \E r \in OpenRuns(job[u][m].key) : FinishRun(r, status)
     \/ /\ m = "old" \/ OpenRuns(job[u][m].key) = {}
        /\ UNCHANGED vars
  /\ After(u, m)

ReportLost(u) == At(u, "now", "turn") /\ After(u, "now") /\ Faulty

-----------------------------------------------------------------------------
(***************************************************************************)
(* The tenant's own writes.  The agent's tools are followed by a read of   *)
(* the list; what the browser writes goes to the scheduler, past the       *)
(* machine.                                                                *)
(***************************************************************************)
UnheardReply(r, t) == [r EXCEPT !.unheard = @ \cup {t}]

Unheard(t) ==
  plug' = [u \in Tenant |->
    IF Owner[t] = u /\ plug[u].up
    THEN [plug[u] EXCEPT
            !.unheard = @ \cup {t},
            !.replies = [i \in DOMAIN @ |-> UnheardReply(@[i], t)]]
    ELSE plug[u]]

Writes(t) == DeleteTask(t) \/ \E s \in Submissions : InsertTask(t, s)

BrowserWrites(t) ==
  /\ Writes(t) \/ \E p \in patches : p.task = t /\ WritePatch(p)
  /\ Unheard(t)
  /\ swept' = FALSE
  /\ UNCHANGED <<job, ran, excused, extras>>

BrowserReads(t) ==
  /\ \/ /\ posts = {}
        /\ PostTask(t)
        /\ extras' = extras
     \/ /\ extras < MaxExtras
        /\ \/ \E s \in Submissions : ReadForEdit(t, s)
           \/ \E enabled \in BOOLEAN : ReadForToggle(t, enabled)
        /\ extras' = extras + 1
  /\ UNCHANGED <<plug, job, ran, swept, excused>>

ToolWrites(t) ==
  /\ plug[Owner[t]].up
  /\ MayAsk(plug[Owner[t]])
  /\ Writes(t)
  /\ plug' = [plug EXCEPT ![Owner[t]] = Asking(@, "other")]
  /\ swept' = FALSE
  /\ UNCHANGED <<job, ran, excused, extras>>

ToolLists(u) ==
  /\ extras < MaxExtras
  /\ extras' = extras + 1
  /\ plug[u].up
  /\ MayAsk(plug[u])
  /\ plug' = [plug EXCEPT ![u] = Asking(@, "other")]
  /\ UNCHANGED <<job, ran, swept, excused, vars>>

-----------------------------------------------------------------------------
(***************************************************************************)
(* The sweep, and time.                                                    *)
(***************************************************************************)
SweepMoves ==
  /\ \/ ~swept /\ handler = <<{}, {}, {}>> /\ SelectMissed
     \/ SweepStale \/ SelectDue \/ \E m \in todo : WriteOff(m)
  /\ UNCHANGED <<plug, job, ran, swept, excused, extras>>

SweepEnds == EndTick /\ swept' = TRUE /\ UNCHANGED <<plug, job, ran, excused, extras>>

SchedulerFault == FaultStep /\ UNCHANGED <<plug, job, ran, swept, excused, extras>>

(***************************************************************************)
(* The gateway could not bring the machine up.                             *)
(***************************************************************************)
WakeFails(u) ==
  /\ phase = "due" /\ u \in asked
  /\ faults < MaxFaults
  /\ faults' = faults + 1
  /\ asked' = asked \ {u}
  /\ UNCHANGED <<now, table, handler, phase, todo, plug, job, ran, swept, excused, extras>>

(***************************************************************************)
(* Mistake: nobody gives up on a turn that does not end.                   *)
(***************************************************************************)
NeverTimedOut(j) == FALSE

TimedOut(j) == j.pc = "turn" /\ j.since + RunTimeout <= now

Prompt(u) ==
  \/ plug[u].asks # {} \/ plug[u].replies # <<>>
  \/ Ringing(plug[u])
  \/ plug[u].queue # <<>> /\ job[u]["now"].pc = "none"
  \/ \E m \in Machine :
       \/ job[u][m].pc \in {"claiming", "opened", "granted", "refused", "reading"}
       \/ TimedOut(job[u][m])

(***************************************************************************)
(* The reasons a plugin that is up may let the clock pass an occurrence:   *)
(* the browser changed the task behind its back, an older answer replaced  *)
(* a newer one, the occurrence waits behind a turn, or what the list names *)
(* for the task will not be fired again: it was too old to fire, its claim *)
(* was refused, or it was read with an occurrence whose turn had begun,    *)
(* which a PATCH can put back.                                             *)
(***************************************************************************)
Excused(t) ==
  LET u == Owner[t]  p == plug[u]
  IN  /\ p.up
      /\ \/ t \in p.unheard \/ p.overtaken
         \/ \E x \in p.tasks : x.task = t /\ KeyOf(x) \in p.unfired
         \/ At(u, "now", "turn")

StillDue(t) == t \in live /\ Due(t) /\ row[t].next <= now

TimePasses ==
  /\ swept /\ phase = "idle" /\ handler = <<{}, {}, {}>>
  /\ \A u \in Tenant : ~Prompt(u)
  /\ Tick
  /\ swept' = FALSE
  /\ excused' = {t \in Task : StillDue(t) /\ (t \in excused \/ Excused(t))}
  /\ UNCHANGED <<plug, job, ran, extras>>

-----------------------------------------------------------------------------
MachineStep ==
  \E u \in Tenant :
    \/ Visit(u) \/ Reap(u) \/ OldGoes(u)
    \/ Fire(u) \/ AlarmTakes(u) \/ AlarmReads(u) \/ ToolLists(u)
    \/ \E why \in Why : Serve(u, why)
    \/ \E i \in DOMAIN plug[u].replies : Apply(u, i)
    \/ \E m \in Machine :
         \/ ClaimOpens(u, m) \/ ClaimIsRefused(u, m) \/ ClaimAborts(u, m)
         \/ Refused(u, m) \/ TurnBegins(u, m)
         \/ \E status \in Reports : TurnEnds(u, m, status)

MachineFault ==
  \E u \in Tenant :
    \/ Crash(u) \/ Rebuild(u) \/ AnswerLost(u) \/ ReportLost(u)
    \/ \E why \in Why : GetFails(u, why)

(***************************************************************************)
(* Bound: one sweep for every instant, and nothing else happens during it; *)
(* MCScheduler checks what does.                                           *)
(***************************************************************************)
BetweenSweeps ==
  \/ TimePasses \/ MachineStep \/ MachineFault
  \/ \E c \in claims : ClaimEnds(c)
  \/ \E t \in Task : BrowserReads(t) \/ BrowserWrites(t) \/ ToolWrites(t)

PluginNext ==
  \/ phase = "idle" /\ BetweenSweeps
  \/ SweepMoves \/ SweepEnds \/ SchedulerFault
  \/ \E u \in asked : WakeTenant(u) \/ WakeFails(u)

PluginSpec == PluginInit /\ [][PluginNext]_pvars

-----------------------------------------------------------------------------
(***************************************************************************)
(* Properties.                                                             *)
(***************************************************************************)

(***************************************************************************)
(* Whatever machine of the tenant holds the occurrence in its list, and    *)
(* whatever is edited, rebuilt or answered late, its turn is begun at most *)
(* once (index.js, "The server's unique key settles it").                  *)
(***************************************************************************)
OneTurnPerOccurrence ==
  [][\A u \in Tenant, m \in Machine :
       At(u, m, "granted") /\ job'[u][m].pc = "turn" => job[u][m].key \notin ran]_pvars

(***************************************************************************)
(* One timer serves the whole list: whenever an occurrence the list offers *)
(* is overdue, the timer is ringing or a read that will arm it is under    *)
(* way, so none is slept through behind another.                           *)
(***************************************************************************)
NothingListedIsOverslept ==
  \A u \in Tenant :
    (\E x \in Offered(plug[u]) : x.at < now) =>
      Ringing(plug[u]) \/ plug[u].asks # {} \/ plug[u].replies # <<>>

(***************************************************************************)
(* The record of a turn that a machine is still watching is open, unless   *)
(* its task is gone: the plugin gives up on a turn (RUN_TIMEOUT_MS) before *)
(* the scheduler would call its run lost (RUN_DEADLINE_MS), so a tenant is *)
(* not shown a lost run that is in fact working.                           *)
(***************************************************************************)
LiveTurnsAreOpen ==
  \A u \in Tenant, m \in Machine :
    At(u, m, "turn") =>
      \/ job[u][m].key[1] \notin live
      \/ OpenRuns(job[u][m].key) # {}

(***************************************************************************)
(* When nothing has failed, the sweep writes an occurrence off only for    *)
(* one of those reasons: a machine that was down is woken in time, and one *)
(* that is up has the occurrence in its list and fires it.                 *)
(***************************************************************************)
MissesAreExcused ==
  [][\A r \in runs' \ runs :
       r.by = "sweep" => faults > 0 \/ r.task \in excused]_pvars
=============================================================================
