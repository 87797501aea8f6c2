---------------------------- MODULE TasksProofs ----------------------------
(***************************************************************************)
(* What holds of the machines that fire scheduled tasks, composed with the *)
(* scheduler, for every set of tenants and tasks and every setting of the  *)
(* plugin's times.  The inductive invariant adds to the scheduler's what   *)
(* the plugin relies on: a claim is answered within the instant it was     *)
(* made, an occurrence has one job at most, its record is open as long as  *)
(* its turn, and the timer is set for nothing later than what it offers.   *)
(***************************************************************************)
EXTENDS ScheduledTasks, SchedulerProofs, SequenceTheorems

Attends(p) ==
  p.asks = {} /\ p.replies = <<>> =>
    \A x \in Offered(p) : p.alarm # NoInstant /\ (p.alarm <= now \/ p.alarm <= x.at)

AlarmInv == \A u \in Tenant : Attends(plug[u])

\* A job whose claim was granted, before or after its turn has begun.
Begun(u, m) == job[u][m].pc \in {"granted", "turn"}
Asks(u, m)  == job[u][m].pc \in {"claiming", "opened", "granted"}

Recorded(j) ==
  \/ j.key[1] \in deleted
  \/ \E r \in OpenRuns(j.key) : r.claimedAt = j.since

ClaimsAreFresh  == \A c \in claims : c.since = now
JobsAreFresh    == \A u \in Tenant, m \in Machine : Asks(u, m) => job[u][m].since = now
TurnsAreShort   == \A u \in Tenant, m \in Machine :
                     At(u, m, "turn") => /\ job[u][m].since <= now
                                         /\ now <= job[u][m].since + RunTimeout
JobsAreRecorded == \A u \in Tenant, m \in Machine : Begun(u, m) => Recorded(job[u][m])
TurnsAreRan     == \A u \in Tenant, m \in Machine :
                     /\ At(u, m, "granted") => job[u][m].key \notin ran
                     /\ At(u, m, "turn") => job[u][m].key \in ran
RanAreRecorded  == \A k \in ran : k[1] \in deleted \/ HasRun(k[1], k[2])
OneJobEach      == \A u, v \in Tenant, m, n \in Machine :
                     /\ Begun(u, m) /\ Begun(v, n)
                     /\ job[u][m].key = job[v][n].key
                     => u = v /\ m = n

TurnInv ==
  /\ ClaimsAreFresh
  /\ JobsAreFresh
  /\ TurnsAreShort
  /\ JobsAreRecorded
  /\ TurnsAreRan
  /\ RanAreRecorded
  /\ OneJobEach
-----------------------------------------------------------------------------
(***************************************************************************)
(* The timer.                                                              *)
(***************************************************************************)
LEMMA EarliestIsOffered ==
  ASSUME NEW p \in Plugin, Offered(p) # {}
  PROVE  \E x \in Earliest(p) : TRUE
<1> DEFINE times == {x.at : x \in Offered(p)}
<1>1. \A x \in Offered(p) : x.at \in Nat
  BY DEF Offered, Plugin, Listed, Following
<1>2. times \subseteq Nat /\ times # {}
  BY <1>1
<1>3. \E i \in times : \A j \in times : i <= j
  BY <1>2, EarliestInstant
<1>4. QED
  BY <1>3 DEF Earliest

LEMMA LaterOfTwo ==
  ASSUME NEW d \in Int
  PROVE  Max({0, d}) \in Nat /\ (Max({0, d}) = 0 \/ Max({0, d}) = d)
<1>1. \E x \in {0, d} : \A y \in {0, d} : x >= y
  <2>1. CASE d >= 0
    BY <2>1
  <2>2. CASE d < 0
    BY <2>2
  <2>3. QED
    BY <2>1, <2>2
<1>2. Max({0, d}) \in {0, d} /\ \A y \in {0, d} : Max({0, d}) >= y
  BY <1>1 DEF Max
<1>3. QED
  BY <1>2

LEMMA SoonerOfTwo ==
  ASSUME NEW a \in Nat, NEW b \in Nat
  PROVE  Min({a, b}) \in Nat /\ Min({a, b}) <= a
<1>1. \E x \in {a, b} : \A y \in {a, b} : x <= y
  <2>1. CASE a <= b
    BY <2>1
  <2>2. CASE b < a
    BY <2>2
  <2>3. QED
    BY <2>1, <2>2
<1>2. Min({a, b}) \in {a, b} /\ \A y \in {a, b} : Min({a, b}) <= y
  BY <1>1 DEF Min
<1>3. QED
  BY <1>2

(***************************************************************************)
(* The timer is armed for nothing later than what the list offers, unless  *)
(* it rings at once.                                                       *)
(***************************************************************************)
LEMMA ArmedInTime ==
  ASSUME now \in Nat, NEW p \in Plugin
  PROVE  \E a \in Nat : /\ Armed(p) = [p EXCEPT !.alarm = a]
                        /\ \A x \in Offered(p) : a <= now \/ a <= x.at
<1> DEFINE first == CHOOSE x \in Earliest(p) : TRUE
           delay == IF Offered(p) = {} THEN Refresh ELSE Max({0, first.at - now})
           a     == now + Min({delay, MaxTimer})
<1>1. Armed(p) = [p EXCEPT !.alarm = a]
  BY DEF Armed
<1>2. CASE Offered(p) = {}
  <2>1. delay = Refresh /\ Refresh \in Nat /\ MaxTimer \in Nat
    BY <1>2, PluginAssumption
  <2>2. Min({delay, MaxTimer}) \in Nat
    BY <2>1, SoonerOfTwo
  <2>3. a \in Nat
    BY <2>2
  <2>4. QED
    BY <1>1, <1>2, <2>3
<1>3. CASE Offered(p) # {}
  <2>1. first \in Earliest(p)
    BY <1>3, EarliestIsOffered
  <2>2. first.at \in Nat /\ \A x \in Offered(p) : x.at \in Nat /\ first.at <= x.at
    BY <2>1 DEF Earliest, Offered, Plugin, Listed, Following
  <2>3. first.at - now \in Int
    BY <2>2
  <2>4. delay \in Nat /\ (delay = 0 \/ delay = first.at - now)
    BY <1>3, <2>3, LaterOfTwo
  <2>5. Min({delay, MaxTimer}) \in Nat /\ Min({delay, MaxTimer}) <= delay
    BY <2>4, SoonerOfTwo, PluginAssumption
  <2>6. a \in Nat /\ (a <= now \/ a <= first.at)
    <3> HIDE DEF delay
    <3>1. QED
      BY <2>2, <2>4, <2>5
  <2>7. \A x \in Offered(p) : a <= now \/ a <= x.at
    <3> HIDE DEF a
    <3>1. QED
      BY <2>2, <2>6
  <2>8. QED
    BY <1>1, <2>6, <2>7
<1>4. QED
  BY <1>2, <1>3

LEMMA ArmedType ==
  ASSUME now \in Nat, NEW p \in Plugin
  PROVE  Armed(p) \in Plugin /\ Attends(Armed(p))
<1>1. PICK a \in Nat : /\ Armed(p) = [p EXCEPT !.alarm = a]
                       /\ \A x \in Offered(p) : a <= now \/ a <= x.at
  BY ArmedInTime
<1>2. Armed(p) \in Plugin
  BY <1>1 DEF Plugin, Following
<1>3. Armed(p).alarm = a /\ Armed(p).tasks = p.tasks /\ Armed(p).claimed = p.claimed
  BY <1>1 DEF Plugin
<1>4. Offered(Armed(p)) = Offered(p)
  BY <1>3 DEF Offered
<1>5. a # NoInstant
  BY DEF NoInstant
<1>6. QED
  BY <1>1, <1>2, <1>3, <1>4, <1>5 DEF Attends

-----------------------------------------------------------------------------
(***************************************************************************)
(* Types.                                                                  *)
(***************************************************************************)
LEMMA NoJobType == NoJob \in Job
<1>1. (CHOOSE t \in Task : TRUE) \in Task /\ 0 \in Instant
  BY IdsAssumption, SchedulerAssumption DEF Instant
<1>2. QED
  BY <1>1 DEF NoJob, Job, Key

LEMMA OffType == Off \in Plugin
<1>1. <<>> \in Seq(Key) /\ <<>> \in Seq(Reply) /\ 0 \in Instant
  BY SchedulerAssumption DEF Instant
<1>2. QED
  BY <1>1 DEF Off, Plugin, Following

LEMMA BootedType == ASSUME now \in Instant PROVE Booted \in Plugin
BY OffType DEF Booted, Plugin, Why

LEMMA InstantsAreNaturals == Instant \subseteq Nat
BY SchedulerAssumption DEF Instant

PlugsTyped == plug \in [Tenant -> Plugin]
JobsTyped  == job \in [Tenant -> [Machine -> Job]]
RestTyped  == ran \subseteq Key /\ swept \in BOOLEAN /\ excused \subseteq Task
              /\ extras \in 0 .. MaxExtras

LEMMA PlugReplaced ==
  ASSUME PlugsTyped, NEW u \in Tenant, NEW q \in Plugin, plug' = [plug EXCEPT ![u] = q]
  PROVE  PlugsTyped'
BY DEF PlugsTyped

LEMMA JobReplaced ==
  ASSUME JobsTyped, NEW u \in Tenant, NEW m \in Machine, NEW j \in Job,
         job' = [job EXCEPT ![u][m] = j]
  PROVE  JobsTyped'
BY DEF JobsTyped

LEMMA JobMoved ==
  ASSUME JobsTyped, NEW u \in Tenant, NEW m \in Machine,
         NEW pc \in {"none", "claiming", "opened", "granted", "refused", "turn", "reading"},
         Moves(u, m, pc)
  PROVE  JobsTyped'
<1>1. [job[u][m] EXCEPT !.pc = pc] \in Job
  BY DEF JobsTyped, Job
<1>2. job' = [job EXCEPT ![u][m] = [job[u][m] EXCEPT !.pc = pc]]
  BY DEF Moves
<1>3. QED
  BY <1>1, <1>2, JobReplaced

LEMMA MachinesTyped ==
  ASSUME PluginTypeOK, NEW u \in Tenant,
         \/ Visit(u) \/ Reap(u) \/ OldGoes(u) \/ Crash(u) \/ Rebuild(u)
         \/ WakeTenant(u) \/ WakeFails(u)
  PROVE  PlugsTyped' /\ JobsTyped' /\ RestTyped'
<1>1. PlugsTyped /\ JobsTyped /\ RestTyped /\ now \in Instant
  BY DEF PluginTypeOK, PlugsTyped, JobsTyped, RestTyped, TypeOK
<1>2. Booted \in Plugin /\ Off \in Plugin /\ NoJob \in Job /\ "now" \in Machine /\ "old" \in Machine
  BY <1>1, BootedType, OffType, NoJobType DEF Machine
<1>3. ASSUME Brought(u) PROVE PlugsTyped'
  BY <1>1, <1>2, <1>3 DEF Brought, PlugsTyped
<1>4. ASSUME NEW q \in Plugin, Lose(u, q) PROVE PlugsTyped' /\ RestTyped'
  BY <1>1, <1>4 DEF Lose, PlugsTyped, RestTyped
<1>5. ASSUME NEW m \in Machine, job' = [job EXCEPT ![u][m] = NoJob] PROVE JobsTyped'
  BY <1>1, <1>2, <1>5, JobReplaced
<1>6. CASE Visit(u) \/ WakeTenant(u)
  BY <1>1, <1>3, <1>6 DEF Visit, WakeTenant, JobsTyped, RestTyped
<1>7. CASE Reap(u) \/ Crash(u)
  BY <1>2, <1>4, <1>5, <1>7 DEF Reap, Crash
<1>8. CASE OldGoes(u)
  BY <1>1, <1>2, <1>5, <1>8 DEF OldGoes, PlugsTyped, RestTyped
<1>9. CASE Rebuild(u)
  <2>1. Lose(u, Booted) /\ job' = [job EXCEPT ![u] = [now |-> NoJob, old |-> job[u]["now"]]]
    BY <1>9 DEF Rebuild
  <2>2. [now |-> NoJob, old |-> job[u]["now"]] \in [Machine -> Job]
    BY <1>1, <1>2 DEF JobsTyped, Machine
  <2>3. JobsTyped'
    BY <1>1, <2>1, <2>2 DEF JobsTyped
  <2>4. QED
    BY <1>2, <1>4, <2>1, <2>3
<1>10. CASE WakeFails(u)
  BY <1>1, <1>10 DEF WakeFails, PlugsTyped, JobsTyped, RestTyped
<1>11. QED
  BY <1>6, <1>7, <1>8, <1>9, <1>10

LEMMA SnapshotType ==
  ASSUME TypeOK, NEW u
  PROVE  Snapshot(u) \in SUBSET Listed
<1>1. \A t \in TasksOf(u) : t \in Task /\ row[t].enabled \in BOOLEAN /\ row[t].next \in Following
  BY DEF TasksOf, TypeOK, Row
<1>2. QED
  BY <1>1 DEF Snapshot, Listed

LEMMA WithoutOne ==
  ASSUME NEW S, NEW s \in Seq(S), NEW i \in DOMAIN s
  PROVE  Seqs!RemoveAt(s, i) \in Seq(S)
<1>1. i \in 1 .. Len(s) /\ Len(s) \in Nat
  OBVIOUS
<1>2. SubSeq(s, 1, i - 1) \in Seq(S) /\ SubSeq(s, i + 1, Len(s)) \in Seq(S)
  BY <1>1
<1>3. QED
  BY <1>2 DEF Seqs!RemoveAt

LEMMA Relabelled ==
  ASSUME NEW s \in Seq(Reply), NEW F, F \in [DOMAIN s -> Reply]
  PROVE  F \in Seq(Reply) /\ DOMAIN F = DOMAIN s
<1>1. DOMAIN s = 1 .. Len(s) /\ Len(s) \in Nat
  OBVIOUS
<1>2. QED
  BY <1>1

LEMMA BackTyped ==
  ASSUME JobsTyped, NEW u \in Tenant, NEW why, Back(u, why)
  PROVE  JobsTyped'
<1>1. CASE why = "run"
  <2>1. job' = [job EXCEPT ![u]["now"] = NoJob] /\ "now" \in Machine
    BY <1>1 DEF Back, Machine
  <2>2. QED
    BY <2>1, NoJobType, JobReplaced
<1>2. CASE why # "run"
  BY <1>2 DEF Back, JobsTyped
<1>3. QED
  BY <1>1, <1>2

LEMMA AppliedType ==
  ASSUME NEW p \in Plugin, NEW i \in DOMAIN p.replies, now \in Instant, ran \subseteq Key,
         NEW rest, rest = [k \in DOMAIN p.replies |-> [p.replies[k] EXCEPT !.late = @ \/ k < i]],
         NEW r, r = p.replies[i]
  PROVE  [p EXCEPT !.tasks = r.tasks, !.readAt = now, !.claimed = KeptKeys(p, r.tasks),
                   !.replies = Seqs!RemoveAt(rest, i), !.unheard = r.unheard,
                   !.overtaken = r.late,
                   !.unfired = KeptKeys(p, r.tasks) \cap (@ \cup ran)] \in Plugin
<1>1. p.replies \in Seq(Reply) /\ p.claimed \in SUBSET Key /\ p.unfired \in SUBSET Key
  BY DEF Plugin
<1>2. \A k \in DOMAIN p.replies : p.replies[k] \in Reply
  BY <1>1
<1>3. rest \in [DOMAIN p.replies -> Reply]
  <2>1. ASSUME NEW k \in DOMAIN p.replies
        PROVE  [p.replies[k] EXCEPT !.late = @ \/ k < i] \in Reply
    <3>1. p.replies[k] \in Reply
      BY <1>2
    <3>2. (p.replies[k].late \/ k < i) \in BOOLEAN
      OBVIOUS
    <3>3. QED
      BY <3>1, <3>2 DEF Reply
  <2>2. QED
    BY <2>1
<1>4. rest \in Seq(Reply) /\ i \in DOMAIN rest
  BY <1>1, <1>3, Relabelled
<1>5. Seqs!RemoveAt(rest, i) \in Seq(Reply)
  BY <1>4, WithoutOne
<1>6. r.tasks \in SUBSET Listed /\ r.unheard \in SUBSET Task /\ r.late \in BOOLEAN
  BY <1>2 DEF Reply
<1>7. KeptKeys(p, r.tasks) \in SUBSET Key
  BY <1>1 DEF KeptKeys
<1>8. now \in Following
  BY InstantsAreNaturals DEF Following
<1>9. QED
  BY <1>5, <1>6, <1>7, <1>8 DEF Plugin

\* The plugin has a list again, and its timer attends to it.
Reread(u) == \E q \in Plugin : Attends(q) /\ plug' = [plug EXCEPT ![u] = q]

LEMMA ReadingTyped ==
  ASSUME PluginTypeOK, NEW u \in Tenant,
         \/ \E why \in Why : Serve(u, why) \/ GetFails(u, why)
         \/ \E i \in DOMAIN plug[u].replies : Apply(u, i)
         \/ AlarmTakes(u) \/ AlarmReads(u)
  PROVE  PlugsTyped' /\ JobsTyped' /\ RestTyped' /\ Reread(u)
<1> DEFINE Goal == PlugsTyped' /\ JobsTyped' /\ RestTyped' /\ Reread(u)
<1>1. PlugsTyped /\ JobsTyped /\ RestTyped /\ now \in Instant /\ now \in Nat /\ TypeOK
      /\ plug[u] \in Plugin
  BY InstantsAreNaturals DEF PluginTypeOK, PlugsTyped, JobsTyped, RestTyped, TypeOK
<1>2. ASSUME NEW why \in Why, Serve(u, why) PROVE Goal
  <2>1. [why |-> why, tasks |-> Snapshot(u), unheard |-> {}, late |-> FALSE] \in Reply
    BY <1>1, SnapshotType DEF Reply
  <2>2. plug[u].replies \in Seq(Reply) /\ plug[u].asks \in SUBSET Why
    BY <1>1 DEF Plugin
  <2>3. Append(plug[u].replies, [why |-> why, tasks |-> Snapshot(u), unheard |-> {},
                                 late |-> FALSE]) \in Seq(Reply)
    BY <2>1, <2>2
  <2> DEFINE q == [plug[u] EXCEPT !.asks = @ \ {why},
                     !.replies = Append(@, [why |-> why, tasks |-> Snapshot(u), unheard |-> {},
                                            late |-> FALSE])]
  <2>4. q \in Plugin
    BY <1>1, <2>2, <2>3 DEF Plugin
  <2>5. plug' = [plug EXCEPT ![u] = q]
    BY <1>1, <1>2 DEF Serve, PlugsTyped
  <2>6. q.replies # <<>>
    BY <1>1, <2>2 DEF Plugin
  <2>7. PlugsTyped' /\ Reread(u)
    BY <1>1, <2>4, <2>5, <2>6, PlugReplaced DEF Reread, Attends
  <2>8. QED
    BY <1>1, <1>2, <2>7 DEF Serve, JobsTyped, RestTyped
<1>3. ASSUME NEW why \in Why, GetFails(u, why) PROVE Goal
  <2> DEFINE q == [plug[u] EXCEPT !.asks = IF why = "begin" THEN @ ELSE @ \ {why}]
  <2>1. q \in Plugin
    BY <1>1 DEF Plugin
  <2>2. Armed(q) \in Plugin /\ Attends(Armed(q))
    BY <1>1, <2>1, ArmedType
  <2>3. plug' = [plug EXCEPT ![u] = Armed(q)]
    BY <1>3 DEF GetFails
  <2>4. PlugsTyped' /\ Reread(u)
    BY <1>1, <2>2, <2>3, PlugReplaced DEF Reread
  <2>5. QED
    BY <1>1, <1>3, <2>4, BackTyped DEF GetFails, RestTyped
<1>4. ASSUME NEW i \in DOMAIN plug[u].replies, Apply(u, i)
      PROVE  Goal
  <2> DEFINE p == plug[u]
             r == p.replies[i]
             rest == [k \in DOMAIN p.replies |-> [p.replies[k] EXCEPT !.late = @ \/ k < i]]
             q == [p EXCEPT !.tasks = r.tasks, !.readAt = now, !.claimed = KeptKeys(p, r.tasks),
                     !.replies = Seqs!RemoveAt(rest, i), !.unheard = r.unheard,
                     !.overtaken = r.late, !.unfired = KeptKeys(p, r.tasks) \cap (@ \cup ran)]
  <2>1. plug' = [plug EXCEPT ![u] = Armed(q)] /\ Back(u, r.why)
    BY <1>4 DEF Apply
  <2>2. q \in Plugin
    BY <1>1, AppliedType DEF RestTyped
  <2>3. Armed(q) \in Plugin /\ Attends(Armed(q))
    BY <1>1, <2>2, ArmedType
  <2>4. PlugsTyped' /\ Reread(u)
    BY <1>1, <2>1, <2>3, PlugReplaced DEF Reread
  <2>5. QED
    BY <1>1, <1>4, <2>1, <2>4, BackTyped DEF Apply, RestTyped
<1>5. CASE AlarmTakes(u)
  <2>1. PICK x \in Earliest(plug[u]) : x.at <= now /\ plug' = [plug EXCEPT ![u] = Taken(@, x)]
    BY <1>5 DEF AlarmTakes
  <2>2. x.task \in Task /\ x.at \in Nat
    BY <1>1 DEF Earliest, Offered, Plugin, Listed, Following
  <2>3. KeyOf(x) \in Key
    <3>1. x.at \in Instant
      BY <1>1, <2>1, <2>2, SchedulerAssumption DEF Instant
    <3>2. QED
      BY <2>2, <3>1 DEF KeyOf, Key
  <2> DEFINE q == [plug[u] EXCEPT !.claimed = @ \cup {KeyOf(x)}, !.queue = Append(@, KeyOf(x))]
  <2>4. q \in Plugin
    <3>1. plug[u].queue \in Seq(Key) /\ plug[u].claimed \in SUBSET Key
      BY <1>1 DEF Plugin
    <3>2. Append(plug[u].queue, KeyOf(x)) \in Seq(Key)
      BY <2>3, <3>1
    <3>3. plug[u].claimed \cup {KeyOf(x)} \in SUBSET Key
      BY <2>3, <3>1
    <3>4. QED
      BY <1>1, <3>2, <3>3 DEF Plugin
  <2>5. Armed(q) \in Plugin /\ Attends(Armed(q)) /\ plug' = [plug EXCEPT ![u] = Armed(q)]
    BY <1>1, <2>1, <2>4, ArmedType DEF Taken
  <2>6. PlugsTyped' /\ Reread(u)
    BY <1>1, <2>5, PlugReplaced DEF Reread
  <2>7. QED
    BY <1>1, <1>5, <2>6 DEF AlarmTakes, JobsTyped, RestTyped
<1>6. CASE AlarmReads(u)
  <2> DEFINE q == Asking([plug[u] EXCEPT !.alarm = NoInstant], "other")
  <2>1. plug' = [plug EXCEPT ![u] = q] \/ plug' = [plug EXCEPT ![u] = Armed(plug[u])]
    BY <1>6 DEF AlarmReads
  <2>2. q \in Plugin /\ Attends(q)
    <3>1. q \in Plugin
      BY <1>1 DEF Plugin, Asking, Why, Following
    <3>2. q.asks # {}
      BY <1>1 DEF Plugin, Asking
    <3>3. QED
      BY <3>1, <3>2 DEF Attends
  <2>3. Armed(plug[u]) \in Plugin /\ Attends(Armed(plug[u]))
    BY <1>1, ArmedType
  <2>4. PlugsTyped' /\ Reread(u)
    <3> HIDE DEF q
    <3>1. QED
      BY <1>1, <2>1, <2>2, <2>3, PlugReplaced DEF Reread
  <2>5. QED
    BY <1>1, <1>6, <2>4 DEF AlarmReads, JobsTyped, RestTyped
<1>7. QED
  BY <1>2, <1>3, <1>4, <1>5, <1>6

LEMMA FiringTyped ==
  ASSUME PluginTypeOK, NEW u \in Tenant, Fire(u)
  PROVE  PlugsTyped' /\ JobsTyped' /\ RestTyped'
<1> DEFINE key  == Head(plug[u].queue)
           rest == [plug[u] EXCEPT !.queue = Tail(@)]
           left == [rest EXCEPT !.unfired = @ \cup {key}]
           j    == [pc |-> "claiming", key |-> key, since |-> now]
<1>1. PlugsTyped /\ JobsTyped /\ RestTyped /\ now \in Instant /\ plug[u] \in Plugin
  BY DEF PluginTypeOK, PlugsTyped, JobsTyped, RestTyped, TypeOK
<1>2. plug[u].queue \in Seq(Key) /\ plug[u].queue # <<>> /\ plug[u].unfired \in SUBSET Key
  BY <1>1 DEF Fire, Plugin
<1>3. key \in Key /\ Tail(plug[u].queue) \in Seq(Key)
  BY <1>2
<1>4. rest \in Plugin
  BY <1>1, <1>3 DEF Plugin
<1>5. plug[u].unfired \cup {key} \in SUBSET Key /\ rest.unfired = plug[u].unfired
  BY <1>1, <1>2, <1>3 DEF Plugin
<1>6. left \in Plugin
  <2> HIDE DEF rest, key
  <2>1. QED
    BY <1>4, <1>5 DEF Plugin
<1>7. j \in Job /\ "now" \in Machine
  BY <1>1, <1>3 DEF Job, Machine
<1>8. CASE now - plug[u].readAt > StaleAfter
  <2>1. plug' = [plug EXCEPT ![u] = left] /\ job' = job
    BY <1>8 DEF Fire
  <2>2. PlugsTyped'
    BY <1>1, <1>6, <2>1, PlugReplaced
  <2>3. QED
    BY <1>1, <2>1, <2>2 DEF Fire, JobsTyped, RestTyped
<1>9. CASE ~(now - plug[u].readAt > StaleAfter)
  <2>1. plug' = [plug EXCEPT ![u] = rest] /\ job' = [job EXCEPT ![u]["now"] = j]
    BY <1>9 DEF Fire
  <2>2. PlugsTyped' /\ JobsTyped'
    BY <1>1, <1>4, <1>7, <2>1, PlugReplaced, JobReplaced
  <2>3. QED
    BY <1>1, <2>1, <2>2 DEF Fire, RestTyped
<1>10. QED
  BY <1>8, <1>9

LEMMA ClaimingTyped ==
  ASSUME PluginTypeOK, NEW u \in Tenant, NEW m \in Machine,
         \/ ClaimOpens(u, m) \/ ClaimIsRefused(u, m) \/ ClaimAborts(u, m)
         \/ Refused(u, m) \/ TurnBegins(u, m) \/ AnswerLost(u)
  PROVE  PlugsTyped' /\ JobsTyped' /\ RestTyped'
<1>1. PlugsTyped /\ JobsTyped /\ RestTyped /\ now \in Instant /\ plug[u] \in Plugin
      /\ job[u][m] \in Job /\ "now" \in Machine
  BY DEF PluginTypeOK, PlugsTyped, JobsTyped, RestTyped, TypeOK, Machine
<1>2. CASE ClaimOpens(u, m) \/ ClaimIsRefused(u, m) \/ ClaimAborts(u, m)
  <2>1. JobsTyped'
    BY <1>1, <1>2, JobMoved DEF ClaimOpens, ClaimIsRefused, ClaimAborts
  <2>2. QED
    BY <1>1, <1>2, <2>1 DEF ClaimOpens, ClaimIsRefused, ClaimAborts, PlugsTyped, RestTyped
<1>3. CASE Refused(u, m)
  <2> DEFINE key == job[u][m].key
             left == [plug[u] EXCEPT !.unfired = @ \cup {key}]
             q == Asking(left, "other")
  <2>1. job' = [job EXCEPT ![u][m] = NoJob]
        /\ (plug' = [plug EXCEPT ![u] = q] \/ plug' = plug)
    BY <1>3 DEF Refused
  <2>2. left \in Plugin
    <3>1. key \in Key /\ plug[u].unfired \in SUBSET Key
      BY <1>1 DEF Job, Plugin
    <3>2. plug[u].unfired \cup {key} \in SUBSET Key
      BY <3>1
    <3>3. QED
      BY <1>1, <3>2 DEF Plugin
  <2>3. q \in Plugin
    <3> HIDE DEF left
    <3>1. QED
      BY <2>2 DEF Asking, Plugin, Why
  <2>4. JobsTyped'
    BY <1>1, <2>1, NoJobType, JobReplaced
  <2>5. PlugsTyped'
    <3> HIDE DEF q
    <3>1. CASE plug' = plug
      BY <1>1, <3>1 DEF PlugsTyped
    <3>2. CASE plug' = [plug EXCEPT ![u] = q]
      BY <1>1, <2>3, <3>2, PlugReplaced
    <3>3. QED
      BY <2>1, <3>1, <3>2
  <2>6. QED
    BY <1>1, <1>3, <2>4, <2>5 DEF Refused, RestTyped
<1>4. CASE TurnBegins(u, m)
  <2> DEFINE j == [job[u][m] EXCEPT !.pc = "turn", !.since = now]
  <2>1. j \in Job /\ job[u][m].key \in Key
    BY <1>1 DEF Job
  <2>2. job' = [job EXCEPT ![u][m] = j]
    BY <1>1, <1>4 DEF TurnBegins, JobsTyped, Job
  <2>3. JobsTyped'
    BY <1>1, <2>1, <2>2, JobReplaced
  <2>4. QED
    BY <1>1, <1>4, <2>1, <2>3 DEF TurnBegins, PlugsTyped, RestTyped
<1>5. CASE AnswerLost(u)
  <2>1. JobsTyped'
    BY <1>1, <1>5, NoJobType, JobReplaced DEF AnswerLost
  <2>2. QED
    BY <1>1, <1>5, <2>1 DEF AnswerLost, PlugsTyped, RestTyped
<1>6. QED
  BY <1>2, <1>3, <1>4, <1>5

LEMMA AfterTyped ==
  ASSUME PluginTypeOK, NEW u \in Tenant, NEW m \in Machine, After(u, m)
  PROVE  PlugsTyped' /\ JobsTyped' /\ RestTyped'
<1>1. PlugsTyped /\ JobsTyped /\ RestTyped /\ now \in Instant /\ plug[u] \in Plugin
  BY DEF PluginTypeOK, PlugsTyped, JobsTyped, RestTyped, TypeOK
<1>2. RestTyped'
  BY <1>1 DEF After, RestTyped
<1>3. CASE m = "now"
  <2> DEFINE q == [Asking(plug[u], "run") EXCEPT !.idle = now]
  <2>1. plug' = [plug EXCEPT ![u] = q] /\ Moves(u, m, "reading")
    BY <1>1, <1>3 DEF After, PlugsTyped
  <2>2. Asking(plug[u], "run") \in Plugin
    BY <1>1 DEF Asking, Plugin, Why
  <2>3. q \in Plugin
    BY <1>1, <2>2 DEF Plugin
  <2>4. PlugsTyped'
    BY <1>1, <2>1, <2>3, PlugReplaced
  <2>5. JobsTyped'
    BY <1>1, <2>1, JobMoved
  <2>6. QED
    BY <1>2, <2>4, <2>5
<1>4. CASE m # "now"
  <2>1. plug' = plug /\ job' = [job EXCEPT ![u][m] = NoJob]
    BY <1>4 DEF After
  <2>2. JobsTyped'
    BY <1>1, <2>1, NoJobType, JobReplaced
  <2>3. QED
    BY <1>1, <1>2, <2>1, <2>2 DEF PlugsTyped
<1>5. QED
  BY <1>3, <1>4

LEMMA ClaimEndsTyped ==
  ASSUME PluginTypeOK, NEW c \in claims, ClaimEnds(c)
  PROVE  PlugsTyped' /\ JobsTyped' /\ RestTyped'
<1>1. PlugsTyped /\ JobsTyped /\ RestTyped
  BY DEF PluginTypeOK, PlugsTyped, JobsTyped, RestTyped
<1>2. PlugsTyped' /\ RestTyped'
  BY <1>1 DEF ClaimEnds, PlugsTyped, RestTyped
<1>3. CASE Opened(c) = {}
  BY <1>1, <1>2, <1>3 DEF ClaimEnds, JobsTyped
<1>4. CASE Opened(c) # {}
  <2>1. PICK um \in Opened(c) :
          Moves(um[1], um[2], IF Granted(c) THEN "granted" ELSE "refused")
    BY <1>4 DEF ClaimEnds
  <2>2. um[1] \in Tenant /\ um[2] \in Machine
    BY DEF Opened
  <2>3. JobsTyped'
    BY <1>1, <2>1, <2>2, JobMoved
  <2>4. QED
    BY <1>2, <2>3
<1>5. QED
  BY <1>3, <1>4

LEMMA UnheardTyped ==
  ASSUME PlugsTyped, NEW t \in Task, Unheard(t)
  PROVE  PlugsTyped'
<1>1. ASSUME NEW p \in Plugin, NEW F, F = [i \in DOMAIN p.replies |-> UnheardReply(p.replies[i], t)]
      PROVE  [p EXCEPT !.unheard = @ \cup {t}, !.replies = F] \in Plugin
  <2>1. p.replies \in Seq(Reply) /\ p.unheard \in SUBSET Task
    BY DEF Plugin
  <2>2. \A r \in Reply : UnheardReply(r, t) \in Reply
    BY DEF UnheardReply, Reply
  <2>3. F \in [DOMAIN p.replies -> Reply]
    BY <1>1, <2>1, <2>2
  <2>4. F \in Seq(Reply)
    BY <2>1, <2>3, Relabelled
  <2>5. QED
    BY <2>1, <2>4 DEF Plugin
<1>2. ASSUME NEW u \in Tenant PROVE plug'[u] \in Plugin
  <2>1. plug[u] \in Plugin
    BY DEF PlugsTyped
  <2> DEFINE F == [i \in DOMAIN plug[u].replies |-> UnheardReply(plug[u].replies[i], t)]
  <2>2. plug'[u] = [plug[u] EXCEPT !.unheard = @ \cup {t}, !.replies = F] \/ plug'[u] = plug[u]
    BY DEF Unheard
  <2>3. [plug[u] EXCEPT !.unheard = @ \cup {t}, !.replies = F] \in Plugin
    BY <1>1, <2>1
  <2>4. QED
    BY <2>1, <2>2, <2>3
<1>3. QED
  BY <1>2 DEF Unheard, PlugsTyped

LEMMA TenantTyped ==
  ASSUME PluginTypeOK, NEW t \in Task,
         BrowserWrites(t) \/ BrowserReads(t) \/ ToolWrites(t) \/ \E u \in Tenant : ToolLists(u)
  PROVE  PlugsTyped' /\ JobsTyped' /\ RestTyped'
<1>1. PlugsTyped /\ JobsTyped /\ RestTyped
  BY DEF PluginTypeOK, PlugsTyped, JobsTyped, RestTyped
<1>2. ASSUME NEW u \in Tenant, plug' = [plug EXCEPT ![u] = Asking(@, "other")] PROVE PlugsTyped'
  <2>1. plug[u] \in Plugin
    BY <1>1 DEF PlugsTyped
  <2>2. Asking(plug[u], "other") \in Plugin
    BY <2>1 DEF Asking, Plugin, Why
  <2>3. plug' = [plug EXCEPT ![u] = Asking(plug[u], "other")]
    BY <1>2
  <2>4. QED
    BY <1>1, <2>2, <2>3, PlugReplaced
<1>3. ASSUME extras < MaxExtras, extras' = extras + 1 PROVE extras' \in 0 .. MaxExtras
  BY <1>1, <1>3, PluginAssumption DEF RestTyped
<1>4. CASE BrowserWrites(t)
  BY <1>1, <1>4, UnheardTyped DEF BrowserWrites, JobsTyped, RestTyped
<1>5. CASE BrowserReads(t)
  BY <1>1, <1>3, <1>5 DEF BrowserReads, PlugsTyped, JobsTyped, RestTyped
<1>6. CASE ToolWrites(t)
  <2>1. Owner[t] \in Tenant
    BY SchedulerAssumption
  <2>2. QED
    BY <1>1, <1>2, <1>6, <2>1 DEF ToolWrites, JobsTyped, RestTyped
<1>7. ASSUME NEW u \in Tenant, ToolLists(u) PROVE PlugsTyped' /\ JobsTyped' /\ RestTyped'
  BY <1>1, <1>2, <1>3, <1>7 DEF ToolLists, JobsTyped, RestTyped
<1>8. QED
  BY <1>4, <1>5, <1>6, <1>7

LEMMA SweepTyped ==
  ASSUME PluginTypeOK, SweepMoves \/ SweepEnds \/ SchedulerFault \/ TimePasses \/ UNCHANGED pvars
  PROVE  PlugsTyped' /\ JobsTyped' /\ RestTyped'
BY DEF PluginTypeOK, PlugsTyped, JobsTyped, RestTyped, SweepMoves, SweepEnds, SchedulerFault,
       TimePasses, pvars

(***************************************************************************)
(* What a step of the composition does to the scheduler: a step of its     *)
(* own, a claim of whatever occurrence a list named, or a tenant it could  *)
(* not wake.                                                               *)
(***************************************************************************)
LeavesTables ==
  /\ UNCHANGED <<now, table, handler, phase, todo>>
  /\ asked' \subseteq asked
  /\ faults' = faults \/ faults' = faults + 1

SchedulerStep ==
  Next \/ LeavesTables \/ \E t \in Task, o \in Instant : OpenClaim(t, o)

LEMMA SchedulerSteps == ASSUME PluginTypeOK, [PluginNext]_pvars PROVE SchedulerStep
<1>1. CASE UNCHANGED vars
  BY <1>1 DEF vars, sweep, SchedulerStep, LeavesTables
<1>2. CASE Faulty
  BY <1>2 DEF Faulty, sweep, SchedulerStep, LeavesTables
<1>3. CASE TimePasses \/ SweepMoves \/ SweepEnds \/ SchedulerFault
  BY <1>3 DEF TimePasses, SweepMoves, SweepEnds, SchedulerFault, Next, SweepStep, SchedulerStep
<1>4. ASSUME NEW u \in asked, WakeTenant(u) \/ WakeFails(u) PROVE SchedulerStep
  <2>1. CASE WakeTenant(u)
    BY <2>1 DEF WakeTenant, Next, SweepStep, SchedulerStep
  <2>2. CASE WakeFails(u)
    BY <2>2 DEF WakeFails, table, handler, SchedulerStep, LeavesTables
  <2>3. QED
    BY <1>4, <2>1, <2>2
<1>5. ASSUME NEW t \in Task, BrowserReads(t) \/ BrowserWrites(t) \/ ToolWrites(t)
      PROVE  SchedulerStep
  BY <1>5 DEF BrowserReads, BrowserWrites, ToolWrites, Writes, Next, TenantStep, SchedulerStep
<1>6. ASSUME NEW c \in claims, ClaimEnds(c) PROVE SchedulerStep
  BY <1>6 DEF ClaimEnds, Next, SandboxStep, SchedulerStep
<1>7. ASSUME NEW u \in Tenant, NEW m \in Machine, ClaimOpens(u, m) PROVE SchedulerStep
  <2>1. job[u][m].key \in Task \X Instant
    BY DEF PluginTypeOK, Job, Key
  <2>2. job[u][m].key[1] \in Task /\ job[u][m].key[2] \in Instant
    BY <2>1
  <2>3. QED
    BY <1>7, <2>2 DEF ClaimOpens, SchedulerStep
<1>8. ASSUME NEW u \in Tenant, NEW m \in Machine, NEW status \in Reports, TurnEnds(u, m, status)
      PROVE  SchedulerStep
  <2>1. CASE UNCHANGED vars
    BY <1>1, <2>1
  <2>2. ASSUME NEW r \in OpenRuns(job[u][m].key), FinishRun(r, status) PROVE SchedulerStep
    BY <2>2 DEF OpenRuns, Next, SandboxStep, SchedulerStep
  <2>3. QED
    BY <1>8, <2>1, <2>2 DEF TurnEnds
<1>9. CASE MachineStep
  <2>1. ASSUME NEW u \in Tenant, NEW m \in Machine,
               \/ Visit(u) \/ Reap(u) \/ OldGoes(u)
               \/ Fire(u) \/ AlarmTakes(u) \/ AlarmReads(u) \/ ToolLists(u)
               \/ ClaimIsRefused(u, m) \/ ClaimAborts(u, m) \/ Refused(u, m) \/ TurnBegins(u, m)
        PROVE  UNCHANGED vars
    BY <2>1 DEF Visit, Reap, OldGoes, Fire, AlarmTakes, AlarmReads, ToolLists, ClaimIsRefused,
                ClaimAborts, Refused, TurnBegins
  <2>2. ASSUME NEW u \in Tenant, NEW why \in Why, Serve(u, why) PROVE UNCHANGED vars
    BY <2>2 DEF Serve
  <2>3. ASSUME NEW u \in Tenant, NEW i \in DOMAIN plug[u].replies, Apply(u, i)
        PROVE  UNCHANGED vars
    BY <2>3 DEF Apply
  <2>4. "now" \in Machine
    BY DEF Machine
  <2>5. QED
    BY <1>1, <1>7, <1>8, <1>9, <2>1, <2>2, <2>3, <2>4 DEF MachineStep
<1>10. CASE MachineFault
  BY <1>2, <1>10 DEF MachineFault, Crash, Rebuild, AnswerLost, ReportLost, GetFails
<1>11. CASE UNCHANGED pvars
  BY <1>1, <1>11 DEF pvars
<1>12. QED
  BY <1>3, <1>4, <1>5, <1>6, <1>9, <1>10, <1>11 DEF PluginNext, BetweenSweeps

LEMMA SchedulerKept ==
  (TypeOK /\ SchedulerStep => TypeOK') /\ (IInv /\ SchedulerStep => IInv')
<1>1. ASSUME TypeOK, SchedulerStep PROVE TypeOK'
  <2>1. CASE Next
    BY <1>1, <2>1, TypePreserved
  <2>2. CASE LeavesTables
    BY <1>1, <2>2 DEF LeavesTables, table, handler, TypeOK
  <2>3. ASSUME NEW t \in Task, NEW o \in Instant, OpenClaim(t, o) PROVE TypeOK'
    <3>1. [task |-> t, at |-> o, since |-> now] \in Claim
      BY <1>1 DEF Claim, TypeOK
    <3>2. QED
      BY <1>1, <2>3, <3>1 DEF OpenClaim, table, sweep, TypeOK
  <2>4. QED
    BY <1>1, <2>1, <2>2, <2>3 DEF SchedulerStep
<1>2. ASSUME IInv, SchedulerStep PROVE IInv'
  <2>1. TypeOK'
    BY <1>1, <1>2 DEF IInv
  <2>2. CASE Next
    BY <1>2, <2>1, <2>2, OneRecordPreserved, HandlersPreserved DEF IInv
  <2>3. CASE LeavesTables
    BY <1>2, <2>1, <2>3
    DEF LeavesTables, table, handler, IInv, OneRecordPerOccurrence, RecordsHaveTasks, IdsDrawnOnce,
        ClaimsHoldRows, SelectedWereMissed
  <2>4. ASSUME NEW t \in Task, NEW o \in Instant, OpenClaim(t, o) PROVE IInv'
    <3>1. ClaimsHoldRows'
      BY <1>2, <2>4 DEF OpenClaim, table, Locked, IInv, ClaimsHoldRows
    <3>2. QED
      BY <1>2, <2>1, <2>4, <3>1
      DEF OpenClaim, table, sweep, IInv, OneRecordPerOccurrence, RecordsHaveTasks, IdsDrawnOnce,
          SelectedWereMissed
  <2>5. QED
    BY <1>2, <2>2, <2>3, <2>4 DEF SchedulerStep
<1>3. QED
  BY <1>1, <1>2

LEMMA PluginTypePreserved == PluginTypeOK /\ [PluginNext]_pvars => PluginTypeOK'
<1> SUFFICES ASSUME PluginTypeOK, [PluginNext]_pvars PROVE PluginTypeOK'
  OBVIOUS
<1> DEFINE Goal == PlugsTyped' /\ JobsTyped' /\ RestTyped'
<1>1. TypeOK'
  BY SchedulerSteps, SchedulerKept DEF PluginTypeOK
<1>2. CASE MachineStep
  <2>1. PICK u \in Tenant :
          \/ Visit(u) \/ Reap(u) \/ OldGoes(u)
          \/ Fire(u) \/ AlarmTakes(u) \/ AlarmReads(u) \/ ToolLists(u)
          \/ \E why \in Why : Serve(u, why)
          \/ \E i \in DOMAIN plug[u].replies : Apply(u, i)
          \/ \E m \in Machine :
               \/ ClaimOpens(u, m) \/ ClaimIsRefused(u, m) \/ ClaimAborts(u, m)
               \/ Refused(u, m) \/ TurnBegins(u, m)
               \/ \E status \in Reports : TurnEnds(u, m, status)
    BY <1>2 DEF MachineStep
  <2>2. ASSUME Visit(u) \/ Reap(u) \/ OldGoes(u) PROVE Goal
    BY <2>2, MachinesTyped
  <2>3. ASSUME \/ AlarmTakes(u) \/ AlarmReads(u) \/ \E why \in Why : Serve(u, why)
               \/ \E i \in DOMAIN plug[u].replies : Apply(u, i)
        PROVE  Goal
    BY <2>3, ReadingTyped
  <2>4. ASSUME Fire(u) PROVE Goal
    BY <2>4, FiringTyped
  <2>5. ASSUME ToolLists(u) PROVE Goal
    BY <2>5, TenantTyped, IdsAssumption
  <2>6. ASSUME NEW m \in Machine,
               \/ ClaimOpens(u, m) \/ ClaimIsRefused(u, m) \/ ClaimAborts(u, m)
               \/ Refused(u, m) \/ TurnBegins(u, m)
        PROVE  Goal
    BY <2>6, ClaimingTyped
  <2>7. ASSUME NEW m \in Machine, NEW status \in Reports, TurnEnds(u, m, status) PROVE Goal
    BY <2>7, AfterTyped DEF TurnEnds
  <2>8. QED
    BY <1>1, <2>1, <2>2, <2>3, <2>4, <2>5, <2>6, <2>7
    DEF PluginTypeOK, PlugsTyped, JobsTyped, RestTyped
<1>3. CASE MachineFault
  <2>1. PICK u \in Tenant : \/ Crash(u) \/ Rebuild(u) \/ AnswerLost(u) \/ ReportLost(u)
                            \/ \E why \in Why : GetFails(u, why)
    BY <1>3 DEF MachineFault
  <2>2. "now" \in Machine
    BY DEF Machine
  <2>3. Goal
    BY <2>1, <2>2, MachinesTyped, ClaimingTyped, AfterTyped, ReadingTyped DEF ReportLost
  <2>4. QED
    BY <1>1, <2>3 DEF PluginTypeOK, PlugsTyped, JobsTyped, RestTyped
<1>4. ASSUME NEW c \in claims, ClaimEnds(c) PROVE Goal
  BY <1>4, ClaimEndsTyped
<1>5. ASSUME NEW t \in Task, BrowserReads(t) \/ BrowserWrites(t) \/ ToolWrites(t) PROVE Goal
  BY <1>5, TenantTyped
<1>6. ASSUME NEW u \in asked, WakeTenant(u) \/ WakeFails(u) PROVE Goal
  <2>1. u \in Tenant
    BY DEF PluginTypeOK, TypeOK
  <2>2. QED
    BY <1>6, <2>1, MachinesTyped
<1>7. CASE SweepMoves \/ SweepEnds \/ SchedulerFault \/ TimePasses \/ UNCHANGED pvars
  BY <1>1, <1>7, SweepTyped DEF PluginTypeOK, PlugsTyped, JobsTyped, RestTyped
<1>8. ASSUME Goal PROVE PluginTypeOK'
  BY <1>1, <1>8 DEF PluginTypeOK, PlugsTyped, JobsTyped, RestTyped
<1>9. QED
  BY <1>2, <1>3, <1>4, <1>5, <1>6, <1>7, <1>8 DEF PluginNext, BetweenSweeps

LEMMA PluginTypeInit == PluginInit => PluginTypeOK
<1> SUFFICES ASSUME PluginInit PROVE PluginTypeOK
  OBVIOUS
<1>1. TypeOK
  BY InitTypeOK DEF PluginInit
<1>2. 0 \in 0 .. MaxExtras
  BY PluginAssumption
<1>3. QED
  BY <1>1, <1>2, OffType, NoJobType DEF PluginInit, PluginTypeOK

(***************************************************************************)
(* Every variable of the composition stays in its set: a plugin keeps the  *)
(* keys of occurrences the clock has reached, never of an ended series.    *)
(***************************************************************************)
THEOREM PluginTypeCorrect == PluginSpec => []PluginTypeOK
BY PluginTypeInit, PluginTypePreserved, PTL DEF PluginSpec

-----------------------------------------------------------------------------
(***************************************************************************)
(* The list is attended to.                                                *)
(***************************************************************************)
LEMMA AttendsToTheSame ==
  ASSUME NEW p, NEW q, Attends(p), q.tasks = p.tasks, q.claimed = p.claimed, q.alarm = p.alarm,
         q.asks = {} /\ q.replies = <<>> => p.asks = {} /\ p.replies = <<>>
  PROVE  Attends(q)
BY DEF Attends, Offered

LEMMA AttendsToNothing == Attends(Off) /\ Attends(Booted)
BY DEF Attends, Offered, Off, Booted

LEMMA AttendsReplaced ==
  ASSUME PlugsTyped, AlarmInv, NEW u \in Tenant, NEW q, Attends(q), plug' = [plug EXCEPT ![u] = q]
  PROVE  \A v \in Tenant : Attends(plug'[v])
BY DEF PlugsTyped, AlarmInv

LEMMA AlarmKeeps == ASSUME now' = now, \A v \in Tenant : Attends(plug'[v]) PROVE AlarmInv'
BY DEF AlarmInv, Attends, Offered

LEMMA AskingAttends ==
  ASSUME NEW p \in Plugin, NEW why
  PROVE  Attends(Asking(p, why))
BY DEF Asking, Plugin, Attends

LEMMA AlarmPreserved == PluginTypeOK /\ AlarmInv /\ [PluginNext]_pvars => AlarmInv'
<1> SUFFICES ASSUME PluginTypeOK, AlarmInv, [PluginNext]_pvars PROVE AlarmInv'
  OBVIOUS
<1> DEFINE Goal == AlarmInv'
<1>1. PlugsTyped /\ now \in Nat
  BY InstantsAreNaturals DEF PluginTypeOK, PlugsTyped, TypeOK
<1>2. ASSUME UNCHANGED <<plug, now>> PROVE Goal
  BY <1>2, AlarmKeeps DEF AlarmInv
<1>3. ASSUME NEW u \in Tenant, NEW q, Attends(q), plug' = [plug EXCEPT ![u] = q], now' = now
      PROVE  Goal
  BY <1>1, <1>3, AttendsReplaced, AlarmKeeps
<1>4. ASSUME NEW u \in Tenant PROVE plug[u] \in Plugin /\ Attends(plug[u])
  BY <1>1 DEF PlugsTyped, AlarmInv
<1>5. ASSUME NEW u \in Tenant, Brought(u), now' = now PROVE Goal
  BY <1>2, <1>3, <1>5, AttendsToNothing DEF Brought
<1>6. ASSUME NEW u \in Tenant, NEW m \in Machine, After(u, m), now' = now PROVE Goal
  <2> DEFINE q == [Asking(plug[u], "run") EXCEPT !.idle = now]
  <2>1. plug' = [plug EXCEPT ![u] = q] \/ plug' = plug
    BY <1>1, <1>6 DEF After, PlugsTyped
  <2>2. q.asks # {}
    BY <1>4 DEF Asking, Plugin
  <2>3. Attends(q)
    BY <2>2 DEF Attends
  <2>4. QED
    <3> HIDE DEF q
    <3>1. QED
      BY <1>2, <1>3, <1>6, <2>1, <2>3
<1>7. ASSUME NEW u \in Tenant, NEW m \in Machine, NEW status \in Reports, TurnEnds(u, m, status)
      PROVE  Goal
  <2>1. now' = now /\ After(u, m)
    BY <1>7 DEF TurnEnds, FinishRun, vars
  <2>2. QED
    BY <1>6, <2>1
<1>8. ASSUME NEW u \in Tenant, Fire(u) PROVE Goal
  <2> DEFINE key  == Head(plug[u].queue)
             rest == [plug[u] EXCEPT !.queue = Tail(@)]
             left == [rest EXCEPT !.unfired = @ \cup {key}]
  <2>1. now' = now /\ (plug' = [plug EXCEPT ![u] = left] \/ plug' = [plug EXCEPT ![u] = rest])
    BY <1>8 DEF Fire, vars
  <2>2. Attends(rest) /\ Attends(left)
    BY <1>4, AttendsToTheSame DEF Plugin
  <2>3. QED
    <3> HIDE DEF rest, left
    <3>1. QED
      BY <1>3, <2>1, <2>2
<1>9. ASSUME NEW u \in Tenant, NEW m \in Machine, Refused(u, m) PROVE Goal
  <2> DEFINE left == [plug[u] EXCEPT !.unfired = @ \cup {job[u][m].key}]
             q == Asking(left, "other")
  <2>1. now' = now /\ (plug' = [plug EXCEPT ![u] = q] \/ plug' = plug)
    BY <1>9 DEF Refused, vars
  <2>2. q.asks # {}
    BY <1>4 DEF Plugin, Asking
  <2>3. Attends(q)
    BY <2>2 DEF Attends
  <2>4. QED
    <3> HIDE DEF q
    <3>1. QED
      BY <1>2, <1>3, <2>1, <2>3
<1>10. ASSUME NEW t \in Task, Unheard(t), now' = now PROVE Goal
  <2>1. ASSUME NEW u \in Tenant PROVE Attends(plug'[u])
    <3> DEFINE F == [i \in DOMAIN plug[u].replies |-> UnheardReply(plug[u].replies[i], t)]
               q == [plug[u] EXCEPT !.unheard = @ \cup {t}, !.replies = F]
    <3>1. plug'[u] = q \/ plug'[u] = plug[u]
      BY <1>10 DEF Unheard
    <3>2. plug[u].replies \in Seq(Reply)
      BY <1>4 DEF Plugin
    <3>3. F = <<>> => plug[u].replies = <<>>
      BY <3>2
    <3>4. q.tasks = plug[u].tasks /\ q.claimed = plug[u].claimed /\ q.alarm = plug[u].alarm
          /\ q.asks = plug[u].asks /\ q.replies = F
      BY <1>4 DEF Plugin
    <3>5. Attends(q)
      <4> HIDE DEF q
      <4>1. QED
        BY <1>4, <3>3, <3>4, AttendsToTheSame
    <3>6. QED
      BY <1>4, <3>1, <3>5
  <2>2. QED
    BY <1>10, <2>1, AlarmKeeps
<1>11. ASSUME NEW u \in Tenant, plug' = [plug EXCEPT ![u] = Asking(@, "other")], now' = now
       PROVE  Goal
  BY <1>3, <1>4, <1>11, AskingAttends
<1>12. ASSUME NEW t \in Task, BrowserReads(t) \/ BrowserWrites(t) \/ ToolWrites(t) PROVE Goal
  <2>1. now' = now
    BY <1>12 DEF BrowserReads, BrowserWrites, ToolWrites, Writes, PostTask, ReadForEdit,
                 ReadForToggle, DeleteTask, InsertTask, WritePatch
  <2>2. CASE BrowserReads(t)
    BY <1>2, <2>1, <2>2 DEF BrowserReads
  <2>3. CASE BrowserWrites(t)
    BY <1>10, <2>1, <2>3 DEF BrowserWrites
  <2>4. CASE ToolWrites(t)
    <3>1. Owner[t] \in Tenant
      BY SchedulerAssumption
    <3>2. QED
      BY <1>11, <2>1, <2>4, <3>1 DEF ToolWrites
  <2>5. QED
    BY <1>12, <2>2, <2>3, <2>4
<1>13. CASE TimePasses
  <2>1. now' = now + 1 /\ plug' = plug
    BY <1>13 DEF TimePasses, Tick
  <2>2. ASSUME NEW u \in Tenant, NEW x \in Offered(plug[u]), plug[u].alarm # NoInstant,
               plug[u].alarm <= now \/ plug[u].alarm <= x.at
        PROVE  plug[u].alarm <= now + 1 \/ plug[u].alarm <= x.at
    <3>1. plug[u].alarm \in Nat
      BY <1>4, <2>2 DEF Plugin, Following
    <3>2. QED
      BY <1>1, <2>2, <3>1
  <2>3. QED
    BY <2>1, <2>2 DEF AlarmInv, Attends, Offered
<1>14. CASE SweepMoves \/ SweepEnds \/ SchedulerFault \/ UNCHANGED pvars
  <2>1. now' = now /\ plug' = plug
    BY <1>14 DEF SweepMoves, SweepEnds, SchedulerFault, pvars, vars, SelectMissed, SweepStale,
                 SelectDue, WriteOff, EndTick, FaultStep, WriteOffFails, Restart
  <2>2. QED
    BY <1>2, <2>1
<1>15. ASSUME NEW c \in claims, ClaimEnds(c) PROVE Goal
  BY <1>2, <1>15 DEF ClaimEnds, CommitClaim
<1>16. ASSUME NEW u \in asked, WakeTenant(u) \/ WakeFails(u) PROVE Goal
  <2>1. u \in Tenant
    BY DEF PluginTypeOK, TypeOK
  <2>2. QED
    BY <1>2, <1>5, <1>16, <2>1 DEF WakeTenant, WakeFails, Wake
<1>17. ASSUME NEW u \in Tenant, NEW q, Attends(q), Lose(u, q), now' = now PROVE Goal
  BY <1>3, <1>17 DEF Lose
<1>18. ASSUME NEW u \in Tenant, Reread(u), now' = now PROVE Goal
  BY <1>3, <1>18 DEF Reread
<1>19. CASE MachineFault
  <2>1. PICK u \in Tenant : \/ Crash(u) \/ Rebuild(u) \/ AnswerLost(u) \/ ReportLost(u)
                            \/ \E why \in Why : GetFails(u, why)
    BY <1>19 DEF MachineFault
  <2>2. now' = now
    BY <2>1 DEF Crash, Rebuild, AnswerLost, ReportLost, GetFails, Faulty
  <2>3. ASSUME Crash(u) \/ Rebuild(u) PROVE Goal
    BY <1>17, <2>2, <2>3, AttendsToNothing DEF Crash, Rebuild
  <2>4. ASSUME AnswerLost(u) PROVE Goal
    BY <1>2, <2>2, <2>4 DEF AnswerLost
  <2>5. ASSUME ReportLost(u) PROVE Goal
    <3>1. "now" \in Machine
      BY DEF Machine
    <3>2. QED
      BY <1>6, <2>2, <2>5, <3>1 DEF ReportLost
  <2>6. ASSUME NEW why \in Why, GetFails(u, why) PROVE Goal
    BY <1>18, <2>2, <2>6, ReadingTyped
  <2>7. QED
    BY <2>1, <2>3, <2>4, <2>5, <2>6
<1>20. CASE MachineStep
  <2>1. PICK u \in Tenant :
          \/ Visit(u) \/ Reap(u) \/ OldGoes(u)
          \/ Fire(u) \/ AlarmTakes(u) \/ AlarmReads(u) \/ ToolLists(u)
          \/ \E why \in Why : Serve(u, why)
          \/ \E i \in DOMAIN plug[u].replies : Apply(u, i)
          \/ \E m \in Machine :
               \/ ClaimOpens(u, m) \/ ClaimIsRefused(u, m) \/ ClaimAborts(u, m)
               \/ Refused(u, m) \/ TurnBegins(u, m)
               \/ \E status \in Reports : TurnEnds(u, m, status)
    BY <1>20 DEF MachineStep
  <2>2. ASSUME Visit(u) PROVE Goal
    BY <1>5, <2>2 DEF Visit, vars
  <2>3. ASSUME Reap(u) PROVE Goal
    BY <1>17, <2>3, AttendsToNothing DEF Reap, vars
  <2>4. ASSUME OldGoes(u) PROVE Goal
    BY <1>2, <2>4 DEF OldGoes, vars
  <2>5. ASSUME \/ AlarmTakes(u) \/ AlarmReads(u) \/ \E why \in Why : Serve(u, why)
               \/ \E i \in DOMAIN plug[u].replies : Apply(u, i)
        PROVE  Goal
    <3>1. Reread(u)
      BY <2>5, ReadingTyped
    <3>2. now' = now
      BY <2>5 DEF AlarmTakes, AlarmReads, Serve, Apply, vars
    <3>3. QED
      BY <1>18, <3>1, <3>2
  <2>6. ASSUME ToolLists(u) PROVE Goal
    BY <1>11, <2>6 DEF ToolLists, vars
  <2>7. ASSUME NEW m \in Machine, ClaimOpens(u, m) \/ ClaimIsRefused(u, m) \/ ClaimAborts(u, m)
                                  \/ TurnBegins(u, m)
        PROVE  Goal
    BY <1>2, <2>7 DEF ClaimOpens, OpenClaim, ClaimIsRefused, ClaimAborts, TurnBegins, vars
  <2>8. QED
    BY <1>7, <1>8, <1>9, <2>1, <2>2, <2>3, <2>4, <2>5, <2>6, <2>7
<1>21. QED
  BY <1>12, <1>13, <1>14, <1>15, <1>16, <1>19, <1>20 DEF PluginNext, BetweenSweeps

(***************************************************************************)
(* One timer is enough: an overdue occurrence of the list is never behind  *)
(* a timer that has yet to ring, unless a read is about to arm it again.   *)
(***************************************************************************)
THEOREM TheTimerCoversTheList == PluginSpec => []NothingListedIsOverslept
<1>1. PluginInit => AlarmInv
  BY AttendsToNothing DEF PluginInit, AlarmInv
<1>2. PluginTypeOK /\ AlarmInv => NothingListedIsOverslept
  <2> SUFFICES ASSUME PluginTypeOK, AlarmInv, NEW u \in Tenant,
                      NEW x \in Offered(plug[u]), x.at < now,
                      plug[u].asks = {}, plug[u].replies = <<>>
               PROVE  Ringing(plug[u])
    BY DEF NothingListedIsOverslept
  <2>1. plug[u].alarm # NoInstant /\ (plug[u].alarm <= now \/ plug[u].alarm <= x.at)
    BY DEF AlarmInv, Attends
  <2>2. plug[u] \in Plugin /\ now \in Nat
    BY InstantsAreNaturals DEF PluginTypeOK, TypeOK
  <2>3. plug[u].alarm \in Nat /\ x.at \in Nat
    BY <2>1, <2>2 DEF Plugin, Following, Offered, Listed
  <2>4. QED
    BY <2>1, <2>2, <2>3 DEF Ringing
<1>3. QED
  BY <1>1, <1>2, PluginTypeCorrect, AlarmPreserved, PTL DEF PluginSpec

-----------------------------------------------------------------------------
(***************************************************************************)
(* Claims and turns.  A record stays as long as its task, and stays open   *)
(* while a turn may still be under way, unless that turn's end is reported.*)
(***************************************************************************)
KeepsRuns ==
  /\ deleted \subseteq deleted'
  /\ \A r \in runs : r.task \in deleted' \/ \E q \in runs' : q.task = r.task /\ q.at = r.at

KeepsOpen ==
  \A r \in runs : r.status = "running" /\ now <= r.claimedAt + RunTimeout =>
    r.task \in deleted' \/ r \in runs'

ClaimsFresh == \A c \in claims' : c \in claims \/ c.since = now

Finishes ==
  \E u \in Tenant, m \in Machine, status \in Reports :
    /\ At(u, m, "turn") /\ After(u, m)
    /\ \E r \in OpenRuns(job[u][m].key) : FinishRun(r, status)

\* A job stays what it was, or is no longer one of a granted claim.
Calm ==
  /\ now' = now /\ ran' = ran
  /\ \A u \in Tenant, m \in Machine :
       job'[u][m] # job[u][m] =>
         /\ ~Begun(u, m)'
         /\ job'[u][m].pc \in {"claiming", "opened"} => job'[u][m].since = now

LEMMA GrowthKeeps == ASSUME deleted' = deleted, runs \subseteq runs' PROVE KeepsRuns /\ KeepsOpen
BY DEF KeepsRuns, KeepsOpen

LEMMA DeletionKeeps == ASSUME NEW t \in Task, DeleteTask(t) PROVE KeepsRuns /\ KeepsOpen
BY DEF DeleteTask, Remove, KeepsRuns, KeepsOpen

LEMMA TenantKeeps ==
  ASSUME NEW t \in Task, BrowserReads(t) \/ BrowserWrites(t) \/ ToolWrites(t)
  PROVE  /\ KeepsRuns /\ KeepsOpen /\ UNCHANGED <<now, claims, job, ran>>
<1>1. UNCHANGED <<now, claims, job, ran>>
  BY DEF BrowserReads, BrowserWrites, ToolWrites, Writes, PostTask, ReadForEdit,
         ReadForToggle, DeleteTask, InsertTask, WritePatch, handler, sweep
<1>2. CASE DeleteTask(t)
  BY <1>1, <1>2, DeletionKeeps
<1>3. CASE ~DeleteTask(t)
  <2>1. runs' = runs /\ deleted' = deleted
    BY <1>3 DEF BrowserReads, BrowserWrites, ToolWrites, Writes, PostTask, ReadForEdit,
                ReadForToggle, InsertTask, WritePatch, table
  <2>2. QED
    BY <1>1, <2>1, GrowthKeeps
<1>4. QED
  BY <1>2, <1>3

LEMMA ClosingKeeps ==
  ASSUME TypeOK, NEW closing \in SUBSET runs, NEW status,
         runs' = (runs \ closing) \cup {Closed(r, status) : r \in closing}, deleted' = deleted
  PROVE  KeepsRuns
<1>1. ASSUME NEW r \in runs PROVE \E q \in runs' : q.task = r.task /\ q.at = r.at
  <2>1. Closed(r, status).task = r.task /\ Closed(r, status).at = r.at
    BY DEF TypeOK, Run, Closed
  <2>2. CASE r \in closing
    BY <2>1, <2>2
  <2>3. CASE r \notin closing
    BY <2>3
  <2>4. QED
    BY <2>2, <2>3
<1>2. QED
  BY <1>1 DEF KeepsRuns

LEMMA SweepKeeps ==
  ASSUME PluginTypeOK, SweepMoves \/ SweepEnds \/ SchedulerFault
  PROVE  KeepsRuns /\ KeepsOpen /\ ClaimsFresh /\ UNCHANGED <<now, job, ran>>
<1>1. ClaimsFresh /\ UNCHANGED <<now, job, ran>>
  BY DEF SweepMoves, SweepEnds, SchedulerFault, SelectMissed, SweepStale, SelectDue, WriteOff,
         EndTick, FaultStep, WriteOffFails, Restart, handler, ClaimsFresh
<1>2. CASE SweepStale
  <2> DEFINE stale == {r \in runs : r.status = "running" /\ r.claimedAt < now - RunDeadline}
  <2>1. runs' = (runs \ stale) \cup {Closed(r, "lost") : r \in stale} /\ deleted' = deleted
    BY <1>2 DEF SweepStale
  <2>2. TypeOK
    BY DEF PluginTypeOK
  <2>3. KeepsRuns
    BY <2>1, <2>2, ClosingKeeps
  <2>4. ASSUME NEW r \in runs, now <= r.claimedAt + RunTimeout PROVE r \notin stale
    <3>1. r.claimedAt \in Nat /\ now \in Nat /\ RunTimeout \in Nat /\ RunDeadline \in Nat
          /\ RunTimeout < RunDeadline
      BY <2>2, InstantsAreNaturals, SchedulerAssumption, PluginAssumption DEF TypeOK, Run
    <3>2. QED
      BY <2>4, <3>1
  <2>5. KeepsOpen
    BY <2>1, <2>4 DEF KeepsOpen
  <2>6. QED
    BY <1>1, <2>3, <2>5
<1>3. CASE ~SweepStale
  <2>1. deleted' = deleted /\ runs \subseteq runs'
    BY <1>3 DEF SweepMoves, SweepEnds, SchedulerFault, SelectMissed, SelectDue, WriteOff,
                EndTick, FaultStep, WriteOffFails, Restart, table
  <2>2. QED
    BY <1>1, <2>1, GrowthKeeps
<1>4. QED
  BY <1>2, <1>3

LEMMA ClaimKeeps ==
  ASSUME NEW c \in claims, ClaimEnds(c)
  PROVE  KeepsRuns /\ KeepsOpen /\ ClaimsFresh /\ now' = now /\ ran' = ran
<1>1. deleted' = deleted /\ runs \subseteq runs'
  BY DEF ClaimEnds, CommitClaim
<1>2. ClaimsFresh /\ now' = now /\ ran' = ran
  BY DEF ClaimEnds, CommitClaim, ClaimsFresh
<1>3. QED
  BY <1>1, <1>2, GrowthKeeps

LEMMA JobSettles ==
  ASSUME JobsTyped, NEW u \in Tenant, NEW m \in Machine, NEW j \in Job,
         job' = [job EXCEPT ![u][m] = j], j.pc \notin {"granted", "turn"},
         j.pc \in {"claiming", "opened"} => j.since = now, now' = now, ran' = ran
  PROVE  Calm
<1>1. job'[u][m] = j
  BY DEF JobsTyped
<1>2. ASSUME NEW v \in Tenant, NEW n \in Machine, job'[v][n] # job[v][n] PROVE v = u /\ n = m
  BY <1>2 DEF JobsTyped
<1>3. QED
  BY <1>1, <1>2 DEF Calm, Begun

LEMMA JobEnds ==
  ASSUME JobsTyped, NEW u \in Tenant, NEW m \in Machine, job' = [job EXCEPT ![u][m] = NoJob],
         now' = now, ran' = ran
  PROVE  Calm
<1>1. NoJob.pc = "none"
  BY DEF NoJob
<1>2. QED
  BY <1>1, NoJobType, JobSettles

LEMMA JobMovesOn ==
  ASSUME JobsTyped, NEW u \in Tenant, NEW m \in Machine,
         NEW pc \in {"opened", "refused", "reading"}, Moves(u, m, pc),
         pc = "opened" => job[u][m].since = now, now' = now, ran' = ran
  PROVE  Calm
<1> DEFINE j == [job[u][m] EXCEPT !.pc = pc]
<1>1. j \in Job /\ j.pc = pc /\ j.since = job[u][m].since
  BY DEF JobsTyped, Job
<1>2. job' = [job EXCEPT ![u][m] = j]
  BY DEF Moves
<1>3. QED
  <2> HIDE DEF j
  <2>1. QED
    BY <1>1, <1>2, JobSettles

LEMMA JobsStay == ASSUME UNCHANGED <<now, job, ran>> PROVE Calm
BY DEF Calm

LEMMA AfterCalms ==
  ASSUME JobsTyped, NEW u \in Tenant, NEW m \in Machine, After(u, m), now' = now
  PROVE  Calm
<1>1. CASE m = "now"
  BY <1>1, JobMovesOn DEF After
<1>2. CASE m # "now"
  BY <1>2, JobEnds DEF After
<1>3. QED
  BY <1>1, <1>2

\* What a machine's step may do to the scheduler's tables.
Spares == KeepsRuns /\ (KeepsOpen \/ Finishes) /\ ClaimsFresh

LEMMA MachinesSpare ==
  ASSUME deleted' = deleted, runs' = runs, \A c \in claims' : c \in claims \/ c.since = now
  PROVE  Spares
BY GrowthKeeps DEF Spares, ClaimsFresh

LEMMA TurnEndsCalmly ==
  ASSUME PluginTypeOK, NEW u \in Tenant, NEW m \in Machine, NEW status \in Reports,
         TurnEnds(u, m, status)
  PROVE  Spares /\ Calm
<1>1. JobsTyped /\ After(u, m) /\ At(u, m, "turn")
  BY DEF PluginTypeOK, JobsTyped, TurnEnds
<1>2. CASE UNCHANGED vars
  BY <1>1, <1>2, AfterCalms, MachinesSpare DEF vars, table, handler
<1>3. ASSUME NEW r \in OpenRuns(job[u][m].key), FinishRun(r, status) PROVE Spares /\ Calm
  <2>1. Finishes
    BY <1>1, <1>3 DEF Finishes
  <2>2. TypeOK /\ {r} \in SUBSET runs
    BY DEF PluginTypeOK, OpenRuns
  <2>3. now' = now /\ claims' = claims /\ deleted' = deleted
        /\ runs' = (runs \ {r}) \cup {Closed(q, status) : q \in {r}}
    BY <1>3 DEF FinishRun, handler
  <2>4. KeepsRuns
    BY <2>2, <2>3, ClosingKeeps
  <2>5. Calm
    BY <1>1, <2>3, AfterCalms
  <2>6. QED
    BY <2>1, <2>3, <2>4, <2>5 DEF Spares, ClaimsFresh
<1>4. QED
  BY <1>2, <1>3 DEF TurnEnds

LEMMA MachineFaultSpares ==
  ASSUME PluginTypeOK, NEW u \in Tenant,
         \/ Crash(u) \/ Rebuild(u) \/ AnswerLost(u) \/ ReportLost(u)
         \/ \E why \in Why : GetFails(u, why)
  PROVE  Spares /\ (Calm \/ Rebuild(u))
<1>1. JobsTyped /\ "now" \in Machine
  BY DEF PluginTypeOK, JobsTyped, Machine
<1>2. Faulty
  BY DEF Crash, Rebuild, AnswerLost, ReportLost, GetFails
<1>3. Spares /\ now' = now
  BY <1>2, MachinesSpare DEF Faulty, table, handler
<1>4. CASE Crash(u) \/ AnswerLost(u)
  BY <1>1, <1>3, <1>4, JobEnds DEF Crash, Lose, AnswerLost
<1>5. CASE ReportLost(u)
  BY <1>1, <1>3, <1>5, AfterCalms DEF ReportLost
<1>6. ASSUME NEW why \in Why, GetFails(u, why) PROVE Calm
  BY <1>1, <1>3, <1>6, JobEnds, JobsStay DEF GetFails, Back
<1>7. QED
  BY <1>3, <1>4, <1>5, <1>6

LEMMA MachineStepSpares ==
  ASSUME PluginTypeOK, JobsAreFresh, MachineStep
  PROVE  Spares /\ (Calm \/ \E u \in Tenant, m \in Machine : TurnBegins(u, m))
<1>1. JobsTyped /\ "now" \in Machine /\ "old" \in Machine
  BY DEF PluginTypeOK, JobsTyped, Machine
<1> DEFINE Goal == Spares /\ (Calm \/ \E u \in Tenant, m \in Machine : TurnBegins(u, m))
<1>2. PICK u \in Tenant :
        \/ Visit(u) \/ Reap(u) \/ OldGoes(u)
        \/ Fire(u) \/ AlarmTakes(u) \/ AlarmReads(u) \/ ToolLists(u)
        \/ \E why \in Why : Serve(u, why)
        \/ \E i \in DOMAIN plug[u].replies : Apply(u, i)
        \/ \E m \in Machine :
             \/ ClaimOpens(u, m) \/ ClaimIsRefused(u, m) \/ ClaimAborts(u, m)
             \/ Refused(u, m) \/ TurnBegins(u, m)
             \/ \E status \in Reports : TurnEnds(u, m, status)
  BY DEF MachineStep
<1>3. ASSUME UNCHANGED vars PROVE Spares /\ now' = now
  BY <1>3, MachinesSpare DEF vars, table, handler
<1>4. ASSUME Visit(u) \/ AlarmTakes(u) \/ AlarmReads(u) \/ ToolLists(u)
             \/ \E why \in Why : Serve(u, why)
      PROVE  Goal
  <2>1. UNCHANGED vars /\ job' = job /\ ran' = ran
    BY <1>4 DEF Visit, AlarmTakes, AlarmReads, ToolLists, Serve
  <2>2. QED
    BY <1>3, <2>1, JobsStay
<1>5. ASSUME Reap(u) \/ OldGoes(u) PROVE Goal
  <2>1. UNCHANGED vars /\ ran' = ran
        /\ \E m \in Machine : job' = [job EXCEPT ![u][m] = NoJob]
    BY <1>1, <1>5 DEF Reap, OldGoes, Lose
  <2>2. QED
    BY <1>1, <1>3, <2>1, JobEnds
<1>6. ASSUME NEW i \in DOMAIN plug[u].replies, Apply(u, i) PROVE Goal
  <2>1. UNCHANGED vars /\ ran' = ran /\ \E why : Back(u, why)
    BY <1>6 DEF Apply
  <2>2. job' = job \/ job' = [job EXCEPT ![u]["now"] = NoJob]
    BY <2>1 DEF Back
  <2>3. QED
    BY <1>1, <1>3, <2>1, <2>2, JobEnds, JobsStay
<1>7. ASSUME Fire(u) PROVE Goal
  <2>1. UNCHANGED vars /\ ran' = ran
    BY <1>7 DEF Fire
  <2> DEFINE j == [pc |-> "claiming", key |-> Head(plug[u].queue), since |-> now]
  <2>2. job' = job \/ job' = [job EXCEPT ![u]["now"] = j]
    BY <1>7 DEF Fire
  <2>3. j \in Job
    <3>1. plug[u].queue \in Seq(Key) /\ plug[u].queue # <<>> /\ now \in Instant
      BY <1>7 DEF Fire, PluginTypeOK, TypeOK, Plugin
    <3>2. Head(plug[u].queue) \in Key
      BY <3>1
    <3>3. QED
      BY <3>1, <3>2 DEF Job
  <2>4. j.pc = "claiming" /\ j.since = now
    OBVIOUS
  <2>5. QED
    <3> HIDE DEF j
    <3>1. CASE job' = job
      BY <1>3, <2>1, <3>1, JobsStay
    <3>2. CASE job' = [job EXCEPT ![u]["now"] = j]
      <4>1. now' = now
        BY <1>3, <2>1
      <4>2. Calm
        BY <1>1, <2>1, <2>3, <2>4, <3>2, <4>1, JobSettles
      <4>3. QED
        BY <1>3, <2>1, <4>2
    <3>3. QED
      BY <2>2, <3>1, <3>2
<1>8. ASSUME NEW m \in Machine, ClaimOpens(u, m) PROVE Goal
  <2> DEFINE c == [task |-> job[u][m].key[1], at |-> job[u][m].key[2], since |-> now]
  <2>1. UNCHANGED <<now, table, ran>> /\ claims' = claims \cup {c} /\ Moves(u, m, "opened")
    BY <1>8 DEF ClaimOpens, OpenClaim
  <2>2. Spares
    BY <2>1, MachinesSpare DEF table
  <2>3. job[u][m].since = now
    BY <1>8 DEF ClaimOpens, At, JobsAreFresh, Asks
  <2>4. QED
    BY <1>1, <2>1, <2>2, <2>3, JobMovesOn
<1>9. ASSUME NEW m \in Machine, ClaimIsRefused(u, m) \/ ClaimAborts(u, m) PROVE Goal
  <2>1. UNCHANGED vars /\ ran' = ran /\ Moves(u, m, "refused")
    BY <1>9 DEF ClaimIsRefused, ClaimAborts
  <2>2. QED
    BY <1>1, <1>3, <2>1, JobMovesOn
<1>10. ASSUME NEW m \in Machine, Refused(u, m) PROVE Goal
  <2>1. UNCHANGED vars /\ ran' = ran /\ job' = [job EXCEPT ![u][m] = NoJob]
    BY <1>10 DEF Refused
  <2>2. QED
    BY <1>1, <1>3, <2>1, JobEnds
<1>11. ASSUME NEW m \in Machine, TurnBegins(u, m) PROVE Goal
  <2>1. UNCHANGED vars
    BY <1>11 DEF TurnBegins
  <2>2. QED
    BY <1>3, <1>11, <2>1
<1>12. ASSUME NEW m \in Machine, NEW status \in Reports, TurnEnds(u, m, status) PROVE Goal
  BY <1>12, TurnEndsCalmly
<1>13. QED
  BY <1>2, <1>4, <1>5, <1>6, <1>7, <1>8, <1>9, <1>10, <1>11, <1>12

\* What the next state records of a job, as it is now.
StaysRecorded(j) ==
  \/ j.key[1] \in deleted'
  \/ \E r \in runs' : /\ r.task = j.key[1] /\ r.at = j.key[2]
                      /\ r.status = "running" /\ r.claimedAt = j.since

LEMMA OpenStaysRecorded ==
  ASSUME KeepsRuns, NEW j, Recorded(j),
         \/ KeepsOpen /\ now <= j.since + RunTimeout
         \/ \E r \in runs : \E status :
              /\ ~(r.task = j.key[1] /\ r.at = j.key[2])
              /\ runs' = (runs \ {r}) \cup {Closed(r, status)}
  PROVE  StaysRecorded(j)
<1>1. CASE j.key[1] \in deleted
  BY <1>1 DEF KeepsRuns, StaysRecorded
<1>2. CASE j.key[1] \notin deleted
  <2>1. PICK r \in runs : /\ r.task = j.key[1] /\ r.at = j.key[2]
                          /\ r.status = "running" /\ r.claimedAt = j.since
    BY <1>2 DEF Recorded, OpenRuns
  <2>2. r.task \in deleted' \/ r \in runs'
    BY <2>1 DEF KeepsOpen
  <2>3. QED
    BY <2>1, <2>2 DEF StaysRecorded
<1>3. QED
  BY <1>1, <1>2

LEMMA RanStaysRecorded ==
  ASSUME KeepsRuns, RanAreRecorded, NEW k \in ran
  PROVE  k[1] \in deleted' \/ \E r \in runs' : r.task = k[1] /\ r.at = k[2]
BY DEF KeepsRuns, RanAreRecorded, HasRun

\* A job that was granted is still within its time.
LEMMA BegunInTime ==
  ASSUME PluginTypeOK, TurnInv, NEW u \in Tenant, NEW m \in Machine, Begun(u, m)
  PROVE  now <= job[u][m].since + RunTimeout
<1>1. CASE At(u, m, "turn")
  BY <1>1 DEF TurnInv, TurnsAreShort
<1>2. CASE ~At(u, m, "turn")
  <2>1. job[u][m].since = now
    BY <1>2 DEF TurnInv, JobsAreFresh, Begun, At, Asks
  <2>2. now \in Nat /\ RunTimeout \in Nat
    BY InstantsAreNaturals, PluginAssumption DEF PluginTypeOK, TypeOK
  <2>3. QED
    BY <2>1, <2>2
<1>3. QED
  BY <1>1, <1>2

LEMMA CalmKeepsTurns ==
  ASSUME PluginTypeOK, TurnInv, Spares, Calm
  PROVE  TurnInv'
<1>1. now' = now /\ ran' = ran
  BY DEF Calm
<1>2. ASSUME NEW u \in Tenant, NEW m \in Machine, Begun(u, m)'
      PROVE  job'[u][m] = job[u][m] /\ Begun(u, m)
  BY <1>2 DEF Calm, Begun
<1>3. ClaimsAreFresh'
  BY <1>1 DEF Spares, ClaimsFresh, TurnInv, ClaimsAreFresh
<1>4. JobsAreFresh'
  BY <1>1 DEF Calm, TurnInv, JobsAreFresh, Asks, Begun
<1>5. TurnsAreShort'
  BY <1>1, <1>2 DEF TurnInv, TurnsAreShort, At, Begun
<1>6. TurnsAreRan'
  BY <1>1, <1>2 DEF TurnInv, TurnsAreRan, At, Begun
<1>7. RanAreRecorded'
  BY <1>1, RanStaysRecorded DEF Spares, TurnInv, RanAreRecorded, HasRun
<1>8. OneJobEach'
  BY <1>2 DEF TurnInv, OneJobEach
<1>9. ASSUME NEW u \in Tenant, NEW m \in Machine, Begun(u, m)'
      PROVE  StaysRecorded(job[u][m])
  <2>1. Begun(u, m) /\ Recorded(job[u][m]) /\ job'[u][m] = job[u][m]
    BY <1>2, <1>9 DEF TurnInv, JobsAreRecorded
  <2>2. now <= job[u][m].since + RunTimeout
    BY <2>1, BegunInTime
  <2>3. CASE KeepsOpen
    BY <2>1, <2>2, <2>3, OpenStaysRecorded DEF Spares
  <2>4. CASE Finishes
    <3>1. PICK v \in Tenant, n \in Machine, status \in Reports :
            /\ At(v, n, "turn") /\ After(v, n)
            /\ \E r \in OpenRuns(job[v][n].key) : FinishRun(r, status)
      BY <2>4 DEF Finishes
    <3>2. PICK r \in OpenRuns(job[v][n].key) : FinishRun(r, status)
      BY <3>1
    <3>3. Begun(v, n) /\ ~Begun(v, n)'
      <4>1. CASE n = "now"
        <5>1. job'[v][n].pc = "reading"
          BY <3>1, <4>1 DEF After, Moves, PluginTypeOK, Job
        <5>2. QED
          BY <3>1, <5>1 DEF Begun, At
      <4>2. CASE n # "now"
        <5>1. job'[v][n] = NoJob
          BY <3>1, <4>2 DEF After, PluginTypeOK
        <5>2. QED
          BY <3>1, <5>1 DEF Begun, At, NoJob
      <4>3. QED
        BY <4>1, <4>2
    <3>4. job[u][m].key # job[v][n].key
      BY <1>9, <2>1, <3>3 DEF TurnInv, OneJobEach
    <3>5. job[u][m].key \in Task \X Instant /\ job[v][n].key \in Task \X Instant
      BY DEF PluginTypeOK, Job, Key
    <3>6. ~(r.task = job[u][m].key[1] /\ r.at = job[u][m].key[2])
      BY <3>4, <3>5 DEF OpenRuns
    <3>7. r \in runs /\ runs' = (runs \ {r}) \cup {Closed(r, status)}
      BY <3>2 DEF OpenRuns, FinishRun
    <3>8. QED
      BY <2>1, <3>6, <3>7, OpenStaysRecorded DEF Spares
  <2>5. QED
    BY <2>3, <2>4 DEF Spares
<1>10. JobsAreRecorded'
  <2>1. ASSUME NEW u \in Tenant, NEW m \in Machine, Begun(u, m)' PROVE Recorded(job[u][m])'
    <3>1. StaysRecorded(job[u][m]) /\ job'[u][m] = job[u][m]
      BY <1>2, <1>9, <2>1
    <3>2. QED
      BY <3>1 DEF StaysRecorded, Recorded, OpenRuns
  <2>2. QED
    BY <2>1 DEF JobsAreRecorded
<1>11. QED
  BY <1>3, <1>4, <1>5, <1>6, <1>7, <1>8, <1>10 DEF TurnInv

\* The clock passes only claims that are answered and turns within their time.
LEMMA TimeKeepsTurns == ASSUME PluginTypeOK, TurnInv, TimePasses PROVE TurnInv'
<1>1. /\ now' = now + 1 /\ claims' = {} /\ UNCHANGED <<job, ran, runs, deleted>>
      /\ \A u \in Tenant : ~Prompt(u)
  BY DEF TimePasses, Tick, table, handler
<1>2. \A u \in Tenant, m \in Machine : ~Asks(u, m) /\ ~TimedOut(job[u][m])
  BY <1>1 DEF Prompt, Asks
<1>3. ClaimsAreFresh' /\ JobsAreFresh'
  BY <1>1, <1>2 DEF ClaimsAreFresh, JobsAreFresh, Asks
<1>4. ASSUME NEW u \in Tenant, NEW m \in Machine, At(u, m, "turn")
      PROVE  job[u][m].since <= now + 1 /\ now + 1 <= job[u][m].since + RunTimeout
  <2>1. ~(job[u][m].since + RunTimeout <= now) /\ job[u][m].since <= now
    BY <1>2, <1>4 DEF TimedOut, At, TurnInv, TurnsAreShort
  <2>2. job[u][m].since \in Nat /\ now \in Nat /\ RunTimeout \in Nat
    BY InstantsAreNaturals, PluginAssumption DEF PluginTypeOK, TypeOK, Job
  <2>3. QED
    BY <2>1, <2>2
<1>5. TurnsAreShort'
  BY <1>1, <1>4 DEF TurnsAreShort, At
<1>6. JobsAreRecorded' /\ TurnsAreRan' /\ RanAreRecorded' /\ OneJobEach'
  BY <1>1 DEF TurnInv, JobsAreRecorded, Recorded, OpenRuns, TurnsAreRan, RanAreRecorded, HasRun,
              OneJobEach, Begun, At
<1>7. QED
  BY <1>3, <1>5, <1>6 DEF TurnInv

\* The machine that is replaced takes its job with it.
LEMMA RebuildKeepsTurns ==
  ASSUME PluginTypeOK, TurnInv, NEW u \in Tenant, Rebuild(u)
  PROVE  TurnInv'
<1>1. /\ UNCHANGED <<now, claims, ran, runs, deleted>>
      /\ job' = [job EXCEPT ![u] = [now |-> NoJob, old |-> job[u]["now"]]]
  BY DEF Rebuild, Faulty, Lose, table, handler
<1>2. /\ job'[u]["now"] = NoJob /\ job'[u]["old"] = job[u]["now"]
      /\ \A v \in Tenant \ {u}, n \in Machine : job'[v][n] = job[v][n]
  BY <1>1 DEF PluginTypeOK
<1>3. NoJob.pc = "none" /\ Machine = {"now", "old"} /\ "now" # "old"
  BY DEF NoJob, Machine
<1>4. ASSUME NEW v \in Tenant, NEW n \in Machine, job'[v][n].pc # "none"
      PROVE  \/ v = u /\ n = "old" /\ job'[v][n] = job[u]["now"]
             \/ v # u /\ job'[v][n] = job[v][n]
  BY <1>2, <1>3, <1>4
<1>5. ClaimsAreFresh' /\ RanAreRecorded'
  BY <1>1 DEF TurnInv, ClaimsAreFresh, RanAreRecorded, HasRun
<1>6. JobsAreFresh' /\ TurnsAreShort' /\ TurnsAreRan'
  BY <1>1, <1>3, <1>4 DEF TurnInv, JobsAreFresh, TurnsAreShort, TurnsAreRan, Asks, At
<1>7. JobsAreRecorded'
  BY <1>1, <1>3, <1>4 DEF TurnInv, JobsAreRecorded, Recorded, OpenRuns, Begun
<1>8. OneJobEach'
  BY <1>3, <1>4 DEF TurnInv, OneJobEach, Begun
<1>9. QED
  BY <1>5, <1>6, <1>7, <1>8 DEF TurnInv

\* A turn begins in the instant its claim was granted.
LEMMA BeginningKeepsTurns ==
  ASSUME PluginTypeOK, TurnInv, NEW u \in Tenant, NEW m \in Machine, TurnBegins(u, m)
  PROVE  TurnInv'
<1> DEFINE j == job[u][m]
<1>1. /\ UNCHANGED <<now, claims, runs, deleted>>
      /\ ran' = ran \cup {j.key} /\ j.pc = "granted" /\ j.since = now
      /\ job' = [job EXCEPT ![u][m].pc = "turn", ![u][m].since = now]
  BY DEF TurnBegins, vars, table, handler, At, TurnInv, JobsAreFresh, Asks
<1>2. /\ job'[u][m].pc = "turn" /\ job'[u][m].since = now /\ job'[u][m].key = j.key
      /\ \A v \in Tenant, n \in Machine : v # u \/ n # m => job'[v][n] = job[v][n]
  BY <1>1 DEF PluginTypeOK, Job
<1>3. ClaimsAreFresh' /\ JobsAreFresh'
  <2>1. ASSUME NEW v \in Tenant, NEW n \in Machine, Asks(v, n)' PROVE job'[v][n].since = now
    <3>1. v # u \/ n # m
      BY <1>2, <2>1 DEF Asks
    <3>2. job'[v][n] = job[v][n] /\ Asks(v, n)
      BY <1>2, <2>1, <3>1 DEF Asks
    <3>3. QED
      BY <3>2 DEF TurnInv, JobsAreFresh
  <2>2. QED
    BY <1>1, <2>1 DEF TurnInv, ClaimsAreFresh, JobsAreFresh
<1>4. TurnsAreShort'
  <2>1. now <= now /\ now <= now + RunTimeout
    BY InstantsAreNaturals, PluginAssumption DEF PluginTypeOK, TypeOK
  <2>2. QED
    BY <1>1, <1>2, <2>1 DEF TurnInv, TurnsAreShort, At
<1>5. \A v \in Tenant, n \in Machine : Begun(v, n)' => Begun(v, n) /\ job'[v][n].key = job[v][n].key
                                       /\ job'[v][n].since = job[v][n].since
  BY <1>1, <1>2 DEF Begun
<1>6. JobsAreRecorded' /\ OneJobEach'
  <2>1. ASSUME NEW v \in Tenant, NEW n \in Machine, Begun(v, n)' PROVE Recorded(job[v][n])'
    <3>1. Recorded(job[v][n])
      BY <1>5, <2>1 DEF TurnInv, JobsAreRecorded
    <3>2. job'[v][n].key = job[v][n].key /\ job'[v][n].since = job[v][n].since
      BY <1>5, <2>1
    <3>3. runs' = runs /\ deleted' = deleted
      BY <1>1
    <3>4. QED
      BY <3>1, <3>2, <3>3 DEF Recorded, OpenRuns
  <2>2. OneJobEach'
    BY <1>5 DEF TurnInv, OneJobEach
  <2>3. QED
    BY <2>1, <2>2 DEF JobsAreRecorded
<1>7. TurnsAreRan'
  <2>1. ASSUME NEW v \in Tenant, NEW n \in Machine, At(v, n, "granted")'
        PROVE  job[v][n].key \notin ran' /\ job'[v][n].key = job[v][n].key
    <3>1. (v # u \/ n # m) /\ At(v, n, "granted")
      BY <1>2, <2>1 DEF At
    <3>2. job[v][n].key # j.key
      BY <1>1, <3>1 DEF TurnInv, OneJobEach, Begun, At
    <3>3. QED
      BY <1>1, <1>2, <3>1, <3>2 DEF TurnInv, TurnsAreRan
  <2>2. ASSUME NEW v \in Tenant, NEW n \in Machine, At(v, n, "turn")'
        PROVE  job'[v][n].key \in ran'
    <3>1. CASE v = u /\ n = m
      BY <1>1, <1>2, <3>1
    <3>2. CASE v # u \/ n # m
      <4>1. job'[v][n] = job[v][n] /\ At(v, n, "turn")
        BY <1>2, <2>2, <3>2 DEF At
      <4>2. job[v][n].key \in ran
        BY <4>1 DEF TurnInv, TurnsAreRan
      <4>3. ran \subseteq ran'
        BY <1>1
      <4>4. QED
        BY <4>1, <4>2, <4>3
    <3>3. QED
      BY <3>1, <3>2
  <2>3. QED
    BY <2>1, <2>2 DEF TurnsAreRan
<1>8. RanAreRecorded'
  <2>1. Recorded(j)
    BY <1>1 DEF TurnInv, JobsAreRecorded, Begun
  <2>2. j.key[1] \in deleted \/ HasRun(j.key[1], j.key[2])
    BY <2>1 DEF Recorded, OpenRuns, HasRun
  <2>3. QED
    BY <1>1, <2>2 DEF TurnInv, RanAreRecorded, HasRun
<1>9. QED
  BY <1>3, <1>4, <1>6, <1>7, <1>8 DEF TurnInv

\* A claim is granted to one job, for an occurrence without a record.
LEMMA GrantKeepsTurns ==
  ASSUME IInv, PluginTypeOK, TurnInv, NEW c \in claims, ClaimEnds(c), Granted(c),
         NEW um \in Opened(c), Moves(um[1], um[2], "granted")
  PROVE  TurnInv'
<1> DEFINE u == um[1]
           m == um[2]
           r == [task |-> c.task, at |-> c.at, by |-> "claim", claimedAt |-> c.since,
                 status |-> "running"]
<1>1. /\ u \in Tenant /\ m \in Machine /\ job[u][m].pc = "opened"
      /\ job[u][m].key = <<c.task, c.at>>
  BY DEF Opened, At
<1>2. /\ c.task \notin deleted /\ ~HasRun(c.task, c.at) /\ c.since = now /\ job[u][m].since = now
  BY <1>1 DEF IInv, ClaimsHoldRows, IdsDrawnOnce, Granted, TurnInv, ClaimsAreFresh, JobsAreFresh,
              Asks
<1>3. /\ UNCHANGED <<now, ran, deleted>> /\ claims' = claims \ {c} /\ runs' = runs \cup {r}
  BY DEF ClaimEnds, CommitClaim
<1>4. /\ job'[u][m].pc = "granted" /\ job'[u][m].since = now /\ job'[u][m].key = <<c.task, c.at>>
      /\ \A v \in Tenant, n \in Machine : v # u \/ n # m => job'[v][n] = job[v][n]
  BY <1>1, <1>2 DEF Moves, PluginTypeOK, Job
<1>5. ASSUME NEW v \in Tenant, NEW n \in Machine, Begun(v, n), job[v][n].key = <<c.task, c.at>>
      PROVE  FALSE
  <2>1. Recorded(job[v][n])
    BY <1>5 DEF TurnInv, JobsAreRecorded
  <2>2. QED
    BY <1>2, <1>5, <2>1 DEF Recorded, OpenRuns, HasRun
<1>6. <<c.task, c.at>> \notin ran
  BY <1>2 DEF TurnInv, RanAreRecorded
<1>7. ClaimsAreFresh' /\ JobsAreFresh'
  BY <1>3, <1>4 DEF TurnInv, ClaimsAreFresh, JobsAreFresh, Asks
<1>8. TurnsAreShort' /\ TurnsAreRan'
  BY <1>3, <1>4, <1>6 DEF TurnInv, TurnsAreShort, TurnsAreRan, At
<1>9. RanAreRecorded'
  BY <1>3 DEF TurnInv, RanAreRecorded, HasRun
<1>10. OneJobEach'
  BY <1>4, <1>5 DEF TurnInv, OneJobEach, Begun
<1>11. JobsAreRecorded'
  <2>1. ASSUME NEW v \in Tenant, NEW n \in Machine, Begun(v, n)' PROVE Recorded(job[v][n])'
    <3>1. CASE v = u /\ n = m
      <4>1. r \in runs' /\ r.task = c.task /\ r.at = c.at /\ r.status = "running"
            /\ r.claimedAt = now
        BY <1>2, <1>3
      <4>2. QED
        <5> HIDE DEF r
        <5>1. QED
          BY <1>4, <3>1, <4>1 DEF Recorded, OpenRuns
    <3>2. CASE ~(v = u /\ n = m)
      <4>1. Recorded(job[v][n]) /\ job'[v][n] = job[v][n]
        BY <1>4, <2>1, <3>2 DEF TurnInv, JobsAreRecorded, Begun
      <4>2. QED
        BY <1>3, <4>1 DEF Recorded, OpenRuns
    <3>3. QED
      BY <3>1, <3>2
  <2>2. QED
    BY <2>1 DEF JobsAreRecorded
<1>12. QED
  BY <1>7, <1>8, <1>9, <1>10, <1>11 DEF TurnInv

LEMMA TurnPreserved ==
  IInv /\ PluginTypeOK /\ TurnInv /\ [PluginNext]_pvars => TurnInv'
<1> SUFFICES ASSUME IInv, PluginTypeOK, TurnInv, [PluginNext]_pvars PROVE TurnInv'
  OBVIOUS
<1>1. JobsTyped
  BY DEF PluginTypeOK, JobsTyped
<1>2. CASE TimePasses
  BY <1>2, TimeKeepsTurns
<1>3. CASE MachineStep
  BY <1>3, MachineStepSpares, CalmKeepsTurns, BeginningKeepsTurns DEF TurnInv
<1>4. CASE MachineFault
  <2>1. PICK u \in Tenant : \/ Crash(u) \/ Rebuild(u) \/ AnswerLost(u) \/ ReportLost(u)
                            \/ \E why \in Why : GetFails(u, why)
    BY <1>4 DEF MachineFault
  <2>2. QED
    BY <2>1, MachineFaultSpares, CalmKeepsTurns, RebuildKeepsTurns
<1>5. ASSUME NEW c \in claims, ClaimEnds(c) PROVE TurnInv'
  <2>1. KeepsRuns /\ KeepsOpen /\ ClaimsFresh /\ now' = now /\ ran' = ran
    BY <1>5, ClaimKeeps
  <2>2. CASE job' = job
    BY <2>1, <2>2, JobsStay, CalmKeepsTurns DEF Spares
  <2>3. CASE job' # job
    <3>1. PICK um \in Opened(c) :
            Moves(um[1], um[2], IF Granted(c) THEN "granted" ELSE "refused")
      BY <1>5, <2>3 DEF ClaimEnds
    <3>2. CASE Granted(c)
      BY <1>5, <3>1, <3>2, GrantKeepsTurns
    <3>3. CASE ~Granted(c)
      <4>1. um[1] \in Tenant /\ um[2] \in Machine /\ Moves(um[1], um[2], "refused")
        BY <3>1, <3>3 DEF Opened
      <4>2. Calm
        BY <1>1, <2>1, <4>1, JobMovesOn
      <4>3. QED
        BY <2>1, <4>2, CalmKeepsTurns DEF Spares
    <3>4. QED
      BY <3>2, <3>3
  <2>4. QED
    BY <2>2, <2>3
<1>6. ASSUME NEW t \in Task, BrowserReads(t) \/ BrowserWrites(t) \/ ToolWrites(t) PROVE TurnInv'
  BY <1>6, TenantKeeps, JobsStay, CalmKeepsTurns DEF Spares, ClaimsFresh
<1>7. CASE SweepMoves \/ SweepEnds \/ SchedulerFault
  BY <1>7, SweepKeeps, JobsStay, CalmKeepsTurns DEF Spares
<1>8. ASSUME NEW u \in asked, WakeTenant(u) \/ WakeFails(u) PROVE TurnInv'
  <2>1. UNCHANGED <<now, table, handler, job, ran>>
    BY <1>8 DEF WakeTenant, WakeFails, Wake
  <2>2. Spares
    BY <2>1, MachinesSpare DEF table, handler
  <2>3. QED
    BY <2>1, <2>2, JobsStay, CalmKeepsTurns
<1>9. CASE UNCHANGED pvars
  <2>1. UNCHANGED <<now, table, handler, job, ran>>
    BY <1>9 DEF pvars, vars
  <2>2. Spares
    BY <2>1, MachinesSpare DEF table, handler
  <2>3. QED
    BY <2>1, <2>2, JobsStay, CalmKeepsTurns
<1>10. QED
  BY <1>2, <1>3, <1>4, <1>5, <1>6, <1>7, <1>8, <1>9 DEF PluginNext, BetweenSweeps

-----------------------------------------------------------------------------
LEMMA PluginInvariant == PluginSpec => [](IInv /\ PluginTypeOK /\ TurnInv)
<1>1. PluginInit => IInv /\ TurnInv
  <2>1. PluginInit => IInv
    BY InitTypeOK DEF PluginInit, Init, IInv, OneRecordPerOccurrence, RecordsHaveTasks,
                      IdsDrawnOnce, ClaimsHoldRows, SelectedWereMissed
  <2>2. ASSUME PluginInit PROVE TurnInv
    <3>1. /\ claims = {} /\ ran = {}
          /\ \A u \in Tenant, m \in Machine : job[u][m].pc = "none"
      BY <2>2 DEF PluginInit, Init, NoJob
    <3>2. QED
      BY <3>1 DEF TurnInv, ClaimsAreFresh, JobsAreFresh, TurnsAreShort, JobsAreRecorded,
                  TurnsAreRan, RanAreRecorded, OneJobEach, Begun, Asks, At
  <2>3. QED
    BY <2>1, <2>2
<1>2. IInv /\ PluginTypeOK /\ [PluginNext]_pvars => IInv'
  BY SchedulerSteps, SchedulerKept
<1>3. QED
  BY <1>1, <1>2, PluginTypeInit, PluginTypePreserved, TurnPreserved, PTL DEF PluginSpec

(***************************************************************************)
(* The plugin's claims and reports leave the scheduler's ledger as sound   *)
(* as it is on its own: one record per occurrence, none without its task.  *)
(***************************************************************************)
THEOREM TheLedgerStaysSound == PluginSpec => [](OneRecordPerOccurrence /\ RecordsHaveTasks)
<1>1. IInv => OneRecordPerOccurrence /\ RecordsHaveTasks
  BY DEF IInv
<1>2. QED
  BY <1>1, PluginInvariant, PTL

(***************************************************************************)
(* The record of a turn a machine is watching is open, unless its task is  *)
(* gone: the plugin gives up before the scheduler would.                   *)
(***************************************************************************)
THEOREM WatchedTurnsAreOpen == PluginSpec => []LiveTurnsAreOpen
<1>1. IInv /\ TurnInv => LiveTurnsAreOpen
  BY DEF IInv, IdsDrawnOnce, TurnInv, JobsAreRecorded, Recorded, Begun, At, LiveTurnsAreOpen
<1>2. QED
  BY <1>1, PluginInvariant, PTL

(***************************************************************************)
(* No occurrence has its turn begun twice, by whatever machine, at         *)
(* whatever time and after whatever edit, rebuild or lost answer.          *)
(***************************************************************************)
THEOREM NothingRunsTwice == PluginSpec => OneTurnPerOccurrence
<1>1. TurnInv /\ [PluginNext]_pvars =>
        [\A u \in Tenant, m \in Machine :
           At(u, m, "granted") /\ job'[u][m].pc = "turn" => job[u][m].key \notin ran]_pvars
  BY DEF TurnInv, TurnsAreRan
<1>2. QED
  BY <1>1, PluginInvariant, PTL DEF PluginSpec, OneTurnPerOccurrence
=============================================================================
