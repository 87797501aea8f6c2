# Verification project for HamsterHQ

HamsterHQ is a multi-tenant cloud that gives every account one sandbox, a
machine with an agent in it. The gateway signs people in, makes and removes
their machines and relays their browsers to them over a tunnel each machine
dials; the scheduler keeps what should run later and wakes machines for it; a
plugin inside each machine claims and runs it.

This directory holds TLA+ modules translated from the source (paths below are
under `src/`), TLC configurations for small instances, and proofs for TLAPS.
`PROJECT.json` maps every definition to the lines it models.

    tlc -workers 2 -config sandboxes.cfg MCSandboxes.tla
    tlapm SandboxesProofs.tla

## Inventory

| Component | State | Operations | Hard behaviour | What makes it correct |
|---|---|---|---|---|
| Schedule rules `scheduler/src/rules.js` | none | normalize, nextOccurrence | boundaries: horizon, intervals, an exhausted cron | an occurrence is in the future when accepted, and what follows one is later |
| Scheduler service `scheduler/src/{server,clock,db}.js` | tables `scheduled_tasks`, `scheduled_runs` | POST, PATCH, DELETE of tasks; claim; finish; a sweep (missed, stale, due) on a timer | handlers that read and write in two statements, a claim that holds a row lock, a sweep that acts on rows it selected earlier, restarts | an occurrence is granted or written off once; records die with tasks; nothing stays due; every claim is closed |
| Scheduled-tasks plugin `packages/dsh-scheduled-tasks` | task list and its age, claimed set, one alarm, one serial queue | refresh, arm, fire, run, report | a stale list, edits it is not told of, runs longer than the margins of the server | what is due while the machine is up is claimed |
| Sandbox manager `gateway/src/sandboxes.js` | table `sandboxes`; in memory `byUser`, `tokenBySandbox`, `creating` | ensure, create, release, forget, reapIdle, adopt | one await after another: database and runtime answer later or fail, other requests run in between; crash and adoption | one machine per tenant, none lost, everybody answered, nothing destroyed that another request built |
| Request routing `gateway/src/server.js` | none of its own | tunnelFor, wake, restart, suspend, relay | waiting through a timeout and acting on what was true before | as above |
| Account erasure `gateway/src/erase.js` | rows, by cascade | release, destroy volume, delete the account | a request of the account at the same time | nothing is left running |
| Tunnel `gateway/src/tunnel-server.js`, `packages/{tunnel-protocol,dsh-gateway-tunnel}` | streams by id on both ends, generation, activity, messages held for a socket | http and ws frames, timeouts, redial | both ends time out and close on their own; a new generation while the old one closes | a browser gets one verdict and nothing after it; nothing runs for nobody; nobody waits for nothing |
| Sessions `gateway/src/{tokens,auth,revoke}.js` | `refresh_tokens`; signed access tokens | issue, rotate, log out, revoke | rotation in two statements against revocation; replays in the grace period | revoked means no later token; a burst of requests leaves with one token |
| Sign-in `gateway/src/{sign-in,verification,invites,accounts,model-keys,send-limit}.js` | `challenges`, `invites`, `accounts`, `model_keys`; windows in memory | request a code, answer it, admit | checks and uses in different statements; a crash after the invite is spent | an invite admits one; guesses are bounded; a key serves one account |
| Subscriptions `gateway/src/stats.js`, `sandbox/agent` (Rust), the bar and the tree in `packages/{dsh-sandbox-host,dsh-artifact-panel}` | listeners by sandbox id, changes gathered, timers, reads in flight | report, coalesce, tell, read again; dial in, publish, reopen | news is dropped, not repeated; readings and answers overtake one another; machines are replaced | a page that shows something old is about to hear, unless news was dropped where the code may drop it |
| Second factor of the console `admin/{second-factor,totp,challenge,auth,server}.js` | one row; secret in progress, spent codes, challenges and counters in memory | enrol, prove, remint, disable, sign in with a code or a recovery code | a row read before an await and written back after it, without a lock, by sign-ins and by several requests to the console; a restart forgets the memory | nothing is in force that no code proved; an app's code is good once; guesses are bounded |
| The rest of the console `admin/` | the same tables as the gateway | operator's edits | suspensions and deletions are actions of `Sessions` | |
| Secrets, settings, plans `gateway/src/{secrets,settings,entitlements,plans}.js` | one table each | one statement each | the count in `Secrets.set` | not modelled |
| Egress, envd, terminal, panel routes | sockets, signed tickets | relays | I/O | not modelled |
| Pages, profile, mail, audit | one-statement rows | forms, SMTP, an append-only log | I/O | not modelled |
| Other plugins and page clients | none others decide on | presentation | | not modelled |

How they meet: the browser calls the gateway; the gateway relays
`/sandbox/schedule` calls, and the plugin's, to the scheduler with the owner's
name; the scheduler asks the gateway to wake a tenant's machine; the machine
dials the gateway with the token its creation drew; erasing an account deletes
its row, and the database cascades to machines, tokens, tasks and runs.

The hazards this exposes the code to are listed with their lines in
`PROJECT.json`, with the properties that would catch them. Some have none, or one
for half of them: there the code accepts what can happen, the model has it, the
property that comes nearest names it as its exception, and it is reported under
Findings.

## Modules

| Module | What it is |
|---|---|
| `Rules` | rule arithmetic as operators |
| `RulesProofs` | what follows an instant is later; what is accepted lies ahead |
| `RunLedger` | abstract: an occurrence is entered once, closed once, forgotten with its task |
| `Scheduler` | the service: tables, handlers, sweep, faults; extends `Rules` |
| `MCScheduler` | small instances of it |
| `SchedulerProofs` | its inductive invariant, refinement of `RunLedger`, the write-off guard, the budget |
| `Sandboxes` | the sandbox manager, the requests through it, accounts, crash and adoption |
| `MCSandboxes` | symmetry for its instances |
| `SandboxesProofs` | its inductive invariant and what follows |
| `Streams` | abstract: what a browser may see of a request or a socket |
| `Tunnel` | both ends of the tunnel, the browsers, the local backend; implements `Streams` |
| `TunnelProofs` | its inductive invariant, refinement of `Streams` |
| `Sessions` | accounts and refresh tokens, statement by statement |
| `SignIn` | codes, invites, admission and the key pool; extends `Sessions` |
| `MCSignIn` | symmetry for its instances |
| `SignInProofs` | the inductive invariant of both |
| `ScheduledTasks` | the plugin in each machine; extends `Scheduler` with it and with the wake call |
| `MCTasks` | a small instance of it |
| `TasksProofs` | the invariants of timer and turns; extends `SchedulerProofs` |
| `SecondFactor` | the operator's second factor: console requests, sign-ins, restarts |
| `MCSecondFactor` | symmetry for its instance |
| `SecondFactorProofs` | its inductive invariant |
| `News` | the two event streams of a page, from the reporter and the tunnel registry to the tree and the bar |
| `NewsProofs` | its inductive invariant |

Two modules compose what the code composes: `ScheduledTasks` runs the plugin
against the scheduler's own actions (its claim is `OpenClaim` and `CommitClaim`,
its report `FinishRun`, its wakes the sweep's), and `SignIn` runs the form over
the tokens and accounts of `Sessions`.

### Scheduler and the code

`live` and `row` are `scheduled_tasks`, `runs` is `scheduled_runs` with its
unique key on (task, occurrence) as a guard of whoever inserts, `now` is the
database clock. A handler that selects and then updates is two actions with
what it carries between them kept in `posts` or `patches` (`ReadForToggle`,
`ReadForEdit`, then `WritePatch`; `PostTask`, then `InsertTask`). A claim is one
transaction: `OpenClaim` takes the row lock and reads the budget, `CommitClaim`
inserts the run and advances the series, and every statement that needs the
same row waits (`Locked`). `sweepMissed` is `SelectMissed` and one `WriteOff`
per selected row, each its own transaction, then `SweepStale`, `SelectDue`,
`Wake`, `EndTick`, in the order of the tick. `WriteOffFails` rolls one back;
`Restart` drops all requests and transactions in flight.

Abstracted: titles, prompts and time zones; a cron expression is the set of
instants it matches. GET routes write nothing and are not actions.

### Sandboxes and the code

A box is a sandbox id with the token and the handle drawn beside it. `held` is
`byUser`, `tokens` the keys of `tokenBySandbox`, `making[u]` the promise in
`creating` and where it has got to, `table` the rows, `dropping` the releases and
forgets past the synchronous half of `#erase`. `machine` and `tunnel` are the
runtime's and the tunnel server's view. Every `await` is a boundary: between two
of them any other action may run.

- `EnsureHeld`, `EnsureShared`, `EnsureCreates` are the three ways out of
  `ensure()`; `Settle` is its promise settling for everybody that shares it.
- `MachineStarts`, `InsertWins`, `InsertLoses`, `Discard`, `FindWinner` and
  their failures follow `#create` line by line.
- `Erase`, `DropRow`, `DropMachine` are `release()` and `forget()`. A release
  with no record returns at once, even with a creation in flight.
- `GiveUp`, `Answers`, `Forget`, `Again` are `tunnelFor` after its first wait.
- `Crash`, `Boot`, `AdoptRow`, `RemoveOrphan`, `Listen` are the process and
  `adopt()`, which works from rows and handles read before either changes. A
  failed listing is an empty one (`BootBlindly`), as in the code.
- `quiet` abstracts the later of `lastUsedAt` and the tunnel's `lastActiveAt`
  to fresh, ageing and past the TTL.
- `access` holds departed tenants whose browser still has an access token,
  which is believed on its signature alone.
- `stranded` is history: machines a failed call left running.

External and modelled by what the gateway sees of it: the runtime (start,
remove, list, each of which may fail; a machine may die), and the sandbox
(dials, reports, closes). Left out: `restartBackend`, entitlements and version
stamps, which the registry decides nothing on; a `runtime.create` that finishes
after both a crash of the gateway and the listing of the next boot.

### Tunnel and the code

A generation is one dialled WebSocket with an end on each side (`box`, `gate`)
that close separately, and a queue each way (`down`, `up`); frames under way to a
closed end are lost. `reg` is `httpStreams` and `wsStreams`, `mapped` what the
plugin's `LocalBridge` holds, `current` the entry of `TunnelServer.tunnels`. `told`
is what a browser has seen. A browser's upgrade is two actions, because
`openWebSocket` is awaited and the socket is accepted afterwards: `pending` is
what the downlink pushed in between. `Timeout` and `OpenTimeout` drop a stream
without telling the sandbox, as the code does. `agents` is the plugin's set of
working agents, `busy` what the gateway believes. Bodies and uplink data are left
out: neither end decides anything on them.

### Sessions, SignIn and the code

One SQL statement is one step. `Present`, `Store`, `Replay` are `spendRefresh`: the
UPDATE that marks a token, the INSERT of its successor, and the answer inside the
grace period; `ReadAccount` is what `authenticate` asks after. `SetDisabled` and
`Suspended`, `Erase` and its cascade are the console's and the deletion's
statements, with `OperatorDies` between any two. In `SignIn` a form in the middle
is `try[s].pc`: `Answer` reads the row and judges, `Wrong` increments, `Right`,
`Redeem`, `Admit`, `Consume`, `Claim`, `ClaimWrites`, `Issue` follow, and `Dies` ends
it anywhere. A row `SKIP LOCKED` passes over is one another claim is holding
(`Locked`). Time is left out: a cooldown, a grace period or an expiry may end at
any moment. Access tokens are left out: they are checked by signature. `ended` is
history: the tokens a revocation found, with or without a row, all of its account
but the replacements whose INSERT was under way (`InFlight`).

### ScheduledTasks and the code

`plug[u]` is the plugin of the machine of `u`: its list and when it was read,
`claimed`, its one alarm, its queue, reads of the list under way (`asks`) and
answers not applied yet (`replies`, applied in any order). `job[u]["now"]` is
`fire()`, and `"old"` that of a machine that was replaced and has not gone. `Armed`
is `arm()`: one timer, for the earliest of what is listed and not claimed or, with
nothing on offer, the heartbeat, and never further ahead than a timer can be.

Time is counted in units of `RUN_TIMEOUT_MS`, long beside a request: the clock
moves when nothing prompt is pending (`Prompt`) and a sweep has gone by since a
row, the clock or a machine's presence changed (`swept`). The miss margin rounds
to zero. One POST is under way at a time, `MaxExtras` bounds PATCH requests and
calls of the tool, and only the sweep itself runs during a sweep; `sched_one` and
`sched_two` check what may run beside it. `excused` is history: the reasons for
which a plugin that is up lets an occurrence pass, which are the weak spots of the
design, each at a line of the code.

### SecondFactor and the code

`row` is the enrolment in the settings table, everything else the console
process's memory, which `Restart` clears. Nothing in `second-factor.js` or
`console.js` holds a lock, so any number of requests to the console, the desks,
may be in the middle of a write beside one another and beside sign-ins.
`console[d]` is one of them: what it read, what it minted and where it has got to.
`Activate`, `Store`, `Stored` are the code judged and the codes minted, the write,
and what follows the await; `Remint`, `Reminted` a read and the write of a whole
value made from it; `Forget`, `Forgotten` a disable before and after its await.
`WriteFails` ends any of them, before its write or after it landed. A sign-in is
`request[r]`: it has read the row, and `RecoveryCode`, `SpendRecovery`,
`RecoveryAdmits` are its three steps with a recovery code. An UPDATE touches no row
that is gone (`Updated`). A code of the app is a ticket, a secret and a step.
`proven` and `on` are history, written where a code is accepted and where the row
is: the secrets a code proved, and whether the last activation or disable to
reach the row was an activation. The body of a sign-in is read between its
address check and its challenge, which the model runs as one. Left out: what the
console shows (`unread`, `console.js:64-81`), which decides nothing here, and a
sign-in whose UPDATE fails, which is one that stops there.

### News and the code

A behaviour follows one subscription of one page, chosen by `follows`: the two
share the stream, the machine and the gateway's process and nothing else. `stream`
is `serveStream` with the browser's `EventSource`, `at` the sandbox id its listener
is registered under, `sent` the events on their way. For the tree: `held` is the
reporter's gathered list, `taken` the report under way, `coalescing` the timers of
`receiveReport`, `read` the listings in flight with what the tree knew when it
asked. For the bar: `tunnel` and `dialled` are what the gateway knows, `checks` the
questions `notAnswering` has asked the machine, `reopening` the bar's own timer.
`lost` is history: where news the tree still misses was dropped. The gateway's
token bucket is a fault (`ReportDropped`): the reporter alone sends less than it
allows. How often the reporter speaks is left out, so the watchers it is told of
are too.

## Runs

| Run | Instance | Shows |
|---|---|---|
| `sched_one` | one interval task, one PATCH in flight, one fault, 3 instants | types; a stale write-off moves no series that moved on; nothing stays due; claims are closed |
| `sched_two` | a one-shot and an interval of one tenant, one run a day, 4 instants, no PATCH | one record per occurrence; records have tasks; the budget overshoots by less than the tenant's tasks; refines `RunLedger` |
| `sched_reenable` | one one-shot task | violation, see findings |
| `sandboxes` | one tenant, two requests of both kinds, two boxes, two faults | types; no machine is lost; no forget hits a successor |
| `sandboxes_live` | one tenant, two requests that wait for the dial-in, one box, two faults, fair | everybody is answered; the departed lose their machine; dead records go |
| `sandboxes_two` | two requests, one fault | violation, see findings |
| `tunnel` | a request, a socket, an agent, two generations, three inputs | types; one verdict each (`Streams`); pushes in order; nothing runs for nobody, nobody waits for nothing, open sockets have a tunnel; a redial is not undone; agents' activity is known |
| `sessions` | one account, two requests, two sign-ins, three tokens, console and deletion | a revocation is for good, in the middle of a rotation too; one successor |
| `sign_in` | two addresses, two forms, one invite, two keys, two codes, five answers | types; guesses, invites and keys |
| `tasks` | one cron task due at 1, 2 and 7, clock to 8, one PATCH or tool call, one fault | types; one turn per occurrence; nothing listed is overslept; live turns are open; misses are excused |
| `console` | two secrets, two batches of one code, one challenge, two sign-ins, two desks, three time steps, restarts | types; what is in force was proven; an app's codes are good once; guesses per challenge |
| `news` | two changes, two machines, two dial-ins, two reads, two faults, fair | types; wrong pages are about to hear; pages catch up |

Why the bounds are enough to be interesting. Scheduler: a unit of time is one
miss margin (`MissAfter = 0`, and the comparison is strict), so an occurrence is
due, missed and, if claimed, past its run deadline within the clock's range.
One PATCH in flight is enough to put back an occurrence that was claimed
meanwhile, and two tasks are what the budget race needs. Sandboxes: all state
is per tenant except the boxes, so one tenant with two requests has every
interleaving of a creation, a release, a forget and another creation; two boxes
are the machine and its successor; two faults let a machine die and a call about
it fail. Where a third box is wanted the host has no room (`NoRoom`), which the
code also meets. Wider instances (two tenants with one request, for the
inductive invariant) were checked while developing and agree; the proofs
cover all sizes. Liveness needs the requests to share, so `sandboxes_live` has
both and pays with one box: a second creation takes the identity the first gave
back, and no creation meets another's row, which `sandboxes` checks for safety. With
two boxes the same three properties hold without a fault (389,065 states, too
long for a run) and `EveryRequestIsAnswered` with one (1,802,859 states).

Tunnel: a stream belongs to one generation, so two of them are an old and a new
one, and a request with a socket is each kind once; three inputs are two streams
and a push, or a stream with two pushes beyond the cap of one. Sessions: two
requests are a burst, three tokens a sign-in, its successor and another sign-in.
SignIn: two forms are the overlap the bound of `GuessesBounded` speaks of, and two
addresses with two keys the pool's. Tasks: the cron has a consecutive pair, for a
turn that runs into the next occurrence, and a gap longer than the stale limit
that still fits one alarm. Console: two secrets and two batches are the one in
force and the one that replaces it, two desks are two requests of the same kind
or of two kinds that overlap; the steps 0, 1 and 2 are the whole life of a code
that is one step ahead when it is used, which is as long as it must be remembered.
With one step more, where codes are forgotten on time, the run holds as well
(5,050,707 states) and takes too long; `CodesAreSpentOnce` covers every number.
News: two changes let a read be overtaken, two machines pin a listener to the old
one.

Deadlock is off in every run: clocks, inputs and faults are bounded, so each
instance may come to rest.

### Fairness

Scheduler: time passes, the sweep's `setInterval` keeps firing, and PostgreSQL
ends transactions. Strong fairness of `WriteOff` is the queue on a row lock: a
sweep that waits for claims of one row is not overtaken for ever. Nothing is
assumed of tenants or of sandboxes, so claims may never come and never report.

Sandboxes: each call to the runtime or the database is answered or fails by
itself, whatever becomes of others, a creation's and a release's alike; the
process is restarted, timers fire, access tokens expire. `Reap` has strong
fairness because each sweep looks at every record: a machine that is past its
TTL again and again is seen at some of those times. Nothing makes tenants ask,
machines dial in or agents stop, so `DepartedLoseTheirMachine` assumes the agent
of the departed tenant goes quiet in the end (`Silent`).

News: connections are made, timers run out, what was sent arrives, a machine
answers the gateway's question and the reporter keeps going round its loop.
Nothing makes a backend dial in, a person come back from the recovery page or a
directory change. `PagesCatchUp` therefore speaks of a backend that stays up or
stays down and of a tree whose news is not dropped.

The other specifications state no fairness; their properties are safety.

## Findings

- `sched_reenable`: a PATCH that only sets `enabled` computes the occurrence of
  a one-shot task from `nextOccurrence`, which is null for every one-shot. A
  one-shot edited while disabled and then enabled never fires
  (`scheduler/src/server.js:248`).
- `sandboxes_two`: a release forgets its record before its machine is gone, and a
  request in between builds a second machine on the same volume
  (`gateway/src/sandboxes.js:504`).

Seen while reading and modelling, without a run.

Sandboxes and scheduler:
- `ensure` stamps the record of a dead machine as used and never asks it, so
  calls that only ensure (the wake, the panel) keep it out of the idle sweep's
  reach (`sandboxes.js:247`): `DeadRecordsGo` fails for them, which is why
  `sandboxes_live` has the requests that wait.
- An `adopt()` whose listing fails takes every row for dead (`sandboxes.js:577`).
- A machine whose INSERT fails on the foreign key of an erased account stays (it
  is `stranded` in the model).
- The daily budget counts runs that were written off.

The scheduled-tasks plugin (each is a reason in `Excused`):
- A heartbeat and a refresh after the panel's writes are promised
  (`index.js:193-197`, `docs/scheduled-tasks.md:130-132`). What the panel writes
  never reaches the plugin, and the heartbeat exists only while nothing is offered.
- An older answer to a read of the list may replace a newer one.
- A claim that was refused stays in the claimed set (`index.js:212`), so a PATCH
  that puts an occurrence back is not fired, and the occurrence after it waits
  for another read.
- A turn past its timeout is left running beside the next (`index.js:153`, `:372`),
  against "Runs are serialized".
- An edited one-shot in an old list still runs at its old instant, since a claim
  is not compared with `next_run_at`. The wake of a resident machine does nothing.

Sign-in, sessions and the console:
- An address erased and registered again gets no model key: the claim meets its
  own UNIQUE row (`model-keys.js:99`).
- "Spent on the first correct use" fails for two right answers under way at once.
- A code that was stored but not mailed starts the cooldown. An invite spent
  before a failed admission is lost (`sign-in.js:206`). The number of machines is
  compared with the ceiling before the admission (`sign-in.js:194`).
- A deletion by address may reach an account that registered meanwhile
  (`erase.js:57`).
- A replacement that is inserted after the DELETE of a revocation can be spent
  (`tokens.js:154`), so `revokeAll` does not resolve "once none of them can be spent"
  (`tokens.js:181`). `EndedStaysOut` is about the tokens there are.
- Recovery codes, "each good once" (`second-factor.js:31-33`), may be restored by a
  value written back from an older read (`second-factor.js:192`). So may a batch that
  a remint replaced, and, after a disable and another activation, the secret that
  was in force before. `EnrolmentIsProven` admits any that was proven.
- Two activations that overlap, from two tabs: the one proven first may land last,
  and its phone is the one in force (`second-factor.js:244`).
- A remint that overlaps a disable updates no row, and still shows codes, which
  open nothing (`second-factor.js:264`). An activation that overlaps a disable may
  land after it.
- "A restart also ends every session" (`challenge.js:65`): they are signed and
  survive. What a restart forgets are challenges, counters and spent codes.

Tunnel and subscriptions:
- `wsfail` forgets a stream whose socket is open (`tunnel-server.js:213`): the
  exception in `OpenSocketsHaveATunnel`.
- The panel is said to be safe because the sandbox sweeps its directories and
  reports `stale` for what inotify missed (`dsh-artifact-panel/src/watch.js:17`);
  the agent has no such sweep. `serve.rs` speaks of a message a minute and waits
  ten seconds.
- `serveStream` says a subscription is never pinned to a machine that was replaced
  (`stats.js:374-378`). The workspace's is: nothing attaches it again until the
  connection breaks. It also tells of nothing that changed while it was detached.
- A frame that sends the page to recovery may arrive after the backend came back
  (`stats.js:483`).

Elsewhere:
- `Secrets.set` counts and inserts in one statement so that two requests cannot
  both pass the ceiling (`secrets.js:151-154`). Under READ COMMITTED each of two
  statements counts without the other's row, so they can.

## What is proved

All proofs are for arbitrary constants under the named assumptions of the
modules. They say that bounds and times are natural numbers, that `None` is no
value, and this much more:

| Assumption | Beyond types | Because |
|---|---|---|
| `HorizonAssumption`, `PluginAssumption` | times that are waited are positive; `RunTimeout < RunDeadline` | the constants of the code: a turn is cut off after 30 minutes, a run is closed after 60 |
| `IdsAssumption` | `Task` is finite and not empty | ids are UUIDs; the budget counts them |
| `SandboxesAssumption` | a request is not named as a background release is | names are the model's own |
| `SignInAssumption` | forms under way are finitely many; accounts that exist at the start are at most `MaxTokens`; an attempt is allowed | guesses and first sign-ins are counted; `MAX_ATTEMPTS` is 5 |
| `SecondFactorAssumption` | requests under way are finitely many; an attempt is allowed | tries are counted |
| `NewsAssumption` | a first machine | the tenant has one |
| `TunnelAssumption` | a stream is a request or a socket, not both | ids are drawn for one |

All other sets may be empty or infinite, and all bounds any number.

**Rules.** `NextOccurrenceIsLater`: the occurrence after an instant lies strictly
after it, for each kind, by bounds of integer division for intervals and by
the least element of a non-empty set of instants for cron. `AcceptedIsFuture`: what
`normalize` accepts has a first occurrence, later than now.

**Scheduler.** `TypeCorrect`; `AtMostOnce` (one record per occurrence);
`NoOrphanRecords`; `WriteOffGuarded`; `Refinement` (it implements `RunLedger`).
One record per occurrence follows from the
unique key each writer meets, but that records have tasks does not: a claim
inserts its run without looking at the task again. So the invariant `IInv` of
`SchedulerProofs` adds that every open claim holds the row of a live task and is
the only one on it (`ClaimsHoldRows`); that ids are drawn once, so no request
inserts a row for an id that was deleted and the ledger hears of no forgotten
task (`IdsDrawnOnce`); and that what the sweep selected was past the margin, and
still is as time only grows (`SelectedWereMissed`), which is what the write-off
guard rests on. The refinement maps the runs, without their times, to
the ledger and deleted ids to the forgotten ones; each action is an `Enter`, a
`Close`, a `Forget` or a stutter.

**Sandboxes.** `TypeCorrect`; `NoMachineIsLost`: whatever interleaves, a serving
gateway knows every running machine, or a call about it failed;
`CascadeStrandsNothing`; `ForgetIsScoped`. That machines are known is not
inductive alone. `SandboxesProofs!IInv` adds:

- a creation's machine is its own, with no row, record or release, until its row
  is written, and past the lost INSERT it no longer runs or is stranded
  (`MakingIsPrivate`, `MakingsDiffer`). Without it, the end of one creation could
  take away the only knowledge of another's machine;
- rows differ, and a row of a running machine is backed by a record, a release or
  the adoption still to come (`RowsDiffer`, `RowsAreBacked`), since deleting an
  account removes rows without looking at the registry;
- while adopting, rows not read yet are untouched, and every running machine is
  known or on the list (`AdoptingIsFirst`, `StraysAreListed`): this carries what a
  process that is down cannot promise over to the one that serves;
- nothing is made, dropped or served by a process that is not there
  (`DownIsBlank`, `OnlyServingMakes`, `OnlyServingServes`), calls name a tenant
  and a machine, and a forgetting request waits for the one forget with its
  name (`CallsAreNamed`, `ForgetsAreAwaited`).

**The budget.** `BudgetIsNearlyKept`: runs paid for in a day exceed the limit by
less than the number of ids. A claim reads the budget before it has its run, so
what is bounded is both together: the runs of the day and the tasks on which a
granted claim is open are fewer than limit plus ids (`WithinBudget`). A claim
that opens read fewer runs than the limit, and there is one open claim per row
at most; one that commits gives up its place for the run it writes.

**Tunnel.** `NewestStaysInService`, `NoWorkIsForgotten`, `NoSocketIsStranded`,
`SomethingIsComing`, `BusyIsToldAgain`, `EventsComeInOrder`, and `RefinesStreams`:
it implements `Streams`. The invariant relates what the two ends believe through
the frames between them, for any number of generations and streams:

- ends open and close in the order of the dials, and nothing is under way to an
  end that is gone (`WireInv`, `QueueInv`);
- a stream the gateway knows is on an open generation, one the sandbox works for
  is on its newest, and a stream that nobody registered is unknown to both
  (`StreamInv`, `BoxInv`);
- a frame going up tells of a request or socket of the sandbox that has got that
  far (`UpInv`); a frame that starts a stream is under way once, before any that
  ends it and before the sandbox has it, and the end only after the gateway forgot
  it (`DownInv`, `EndInv`);
- what the sandbox works for is wanted, or the frame that ends it is under way
  (`WorkInv`), and a waiting browser has its start, its local work or its answer
  somewhere on the wire (`AnswerInv`): the two halves of "nobody waits for nothing,
  nothing works for nobody";
- the last word about activity under way, or the belief if there is none, is true
  (`BusyInv`);
- messages on the wire rise, and what was sent is what the browser has, what is
  held for it, and what is under way, with nothing missing until the buffer was
  overrun (`MessageInv`, `EventInv`).

**Sessions and SignIn.** `RevocationIsFinal` (`EndedStaysOut`), `RotationHasOneHeir`
(`OneSuccessor`), `CodesAreGuessedRarely`, `RegistrationIsGranted`, `KeysAreAccountedFor`.
A revocation deletes rows while rotations insert them. That a token it found has
no row again, and lets nobody in, rests on `RotationsGoOn` (what a rotation between
its statements will insert is not among those that are ended), `TokensHaveRoots`
and `LateFindNothing`;
that a token has one heir on `SpentHaveOneNext` and `OneFresh`: with or without
its row, a sign-in has one token that was never spent. For the form,
`GuessesAreCounted` bounds what is counted and what is being counted together
with the wrong answers whose count is lost, `AdmittedAreVouched` carries an
invite from its spending to the account it admits, `ClaimsAreTheirOwn` a pool key
from its claim to the account that gets it.

**SecondFactor.** `OnlyProvenEnrolments`, `ChallengesAreWornOut`, `CodesAreSpentOnce`.
What is in force was proven and its codes were minted for its secret. With
writes that overlap in any number that is not inductive: it needs that whatever a
sign-in or a desk has read or minted and will write is as good
(`SignInsReadSound`, `DesksWriteSound`), which stays so because a code proves a secret
and a batch is minted once and for all. Which of several proven secrets ends in
force is not promised, and not by the code either. An app code that was accepted
and may still be offered is remembered (`AcceptedAreKnown`); and wrong codes for a
challenge plus the requests that hold it open stay within what its counter admits
(`TriesAreCounted`).

**News.** `WrongPagesAreTold` (`PagesAreBeingTold`): a tree or a bar that shows what
is not so has a frame, a report, a read or a timer ahead of it. The tree's half
follows a change through the reporter, the frames and the page's reads
(`TreeIsBeingTold`). The bar's needs `BarInv`: off its stream it never shows
"running", attached and waiting it has something to wait for, and a good word
on its way about a backend that is gone has a bad one behind it or a question to
the machine under way.

**ScheduledTasks.** `TheTimerCoversTheList` (`NothingListedIsOverslept`),
`NothingRunsTwice` (`OneTurnPerOccurrence`), `WatchedTurnsAreOpen`
(`LiveTurnsAreOpen`), `PluginTypeCorrect`, and `TheLedgerStaysSound`: with the plugin's
claims and reports in place of arbitrary ones the scheduler's own invariant
holds. The timer: while no read of the list is under way it is set for nothing
later than anything on offer, or it is ringing (`AlarmInv`). That no occurrence
has two turns, even on a machine and the one that replaced it, is not
`AtMostOnce` alone: the plugin must begin a turn only on an answer that is about
a record of its own. `TurnInv` says so: claims are answered in the instant they
were made, a granted job has its record, claimed when the job began, unless the
task was deleted, no two jobs have one occurrence, and every turn that was begun
left a record or a deleted task behind. A turn is cut off before the run's
deadline, so the sweep closes nothing that still runs.

**Only model-checked.**

- Liveness under fairness (`NothingStaysDue`, `ClaimsAreClosed`,
  `EveryRequestIsAnswered`, `DepartedLoseTheirMachine`, `DeadRecordsGo`,
  `PagesCatchUp`) is out of the prover's reach, as is ENABLED.
- `MissesAreExcused` is safety and could be proved: it needs to say, at every
  tick of the clock, why an occurrence that is due and not excused is still
  going to be fired in time. It rests on the `tasks` instance.
- Induction over data is not used: no definition of these modules is recursive.

## What is not modelled, and the plan

Not modelled, and why:

- **Secrets, settings, entitlements, plans.** One statement each. The one race is
  the count in `Secrets.set`, above: it needs no model to be seen.
- **`send-limit.js`.** Two sliding windows in memory, updated in one synchronous
  step each. `SignIn` takes their verdict as a choice.
- **Minting and discarding invites, the count of machines, exempting the first
  admin, signing in to the console without a second factor.** One statement, or
  a check that decides on no state of `SignIn`; named in the component's note.
- **Restarting a tenant's backend** (`server.js`), and the probes behind it: a
  call to the machine whose effects are a hang-up and a dial-in, which `Tunnel`
  and `News` have as steps of their own at any time.
- **Egress, envd, terminal, panel routes.** Bytes in and out and tickets signed
  and checked without state. What an agent's activity does to a machine's
  lifetime is in `Tunnel` and `Sandboxes`.
- **Pages, profile, mail, audit.** Forms, SMTP and an append-only log.
- **`console-shell.js`, `policy-page.js`, `page-chrome.js`, `login-page.js`, the
  icons, styles and dialogs, and the page halves of plugins** other than the tree
  and the status bar: markup, wording and layout. They are most of the lines of
  the repository, so the share of lines that is modelled stays small.
- **The reporter's pacing** and the names and sizes in its reports: `News` lets a
  report leave at any time and the panel reads again whatever it names.
- **Scripts, probes and deployment files** (`scripts/`, `verify/`, `dev/`, `web/`):
  they check or build the program and are no part of it.

What is left, in this order:

1. An abstract registry of one machine per tenant, which `Sandboxes` implements
   while no call fails, stated as a refinement and proved from its `IInv`.
2. `MissesAreExcused`, with the invariant it needs checked on `tasks` first.
