----------------------------- MODULE Sandboxes -----------------------------
(***************************************************************************)
(* The sandbox manager of the gateway (gateway/src/sandboxes.js) and the   *)
(* requests that go through it (tunnelFor, the wake endpoint, releases,    *)
(* suspension and erasure in gateway/src/server.js and erase.js).          *)
(*                                                                         *)
(* One gateway process, which can crash and adopt what it finds.  The      *)
(* runtime and the database are called and answer later: what runs in      *)
(* between is another action, and any call may fail.  A box stands for the *)
(* sandbox id, its token and its handle, which are drawn together.         *)
(***************************************************************************)
EXTENDS Integers, FiniteSets

CONSTANTS
  Tenant,       \* account addresses
  Box,          \* sandbox identities.  Bound: how many machines the host has room for
  Request,      \* requests in flight at once
  Kinds,        \* "tunnel": wait for the dial-in (tunnelFor); "ensure": only
                \* need the machine (the wake endpoint, the panel, the terminal)
  None,         \* undefined
  MaxFaults     \* bound: crashes, dead machines and failed calls

ASSUME SandboxesAssumption ==
  /\ None \notin Box \cup Tenant
  /\ Kinds \subseteq {"tunnel", "ensure"}
  /\ Request \cap {"release", "erase"} = {}
  /\ MaxFaults \in Nat

VARIABLES
  up,           \* the process: down, adopting, or up
  boot,         \* what adopt() read: rows left, handles left, handles in a row
  table,        \* the table sandboxes, keyed by tenant
  held,         \* byUser
  tokens,       \* tokenBySandbox
  making,       \* creating: each tenant's creation in flight
  dropping,     \* releases and forgets under way, past #erase's synchronous half
  req,          \* requests
  machine,      \* the machines that run, with the owner the runtime has for each
  tunnel,       \* each machine's live tunnel, and whether it reports work
  quiet,        \* how long the machine a tenant's record names has been unused (the
                \* later of lastUsedAt and its tunnel's lastActiveAt); 2 is past its TTL
  suspended, erasing, erased,   \* accounts
  access,       \* tenants suspended or erased whose browser holds an access token yet
  stranded,     \* history: machines left running by a call that failed, and not
                \* recorded or removed since
  faults        \* faults so far

registry == <<table, held, tokens>>
world    == <<machine, tunnel>>
accounts == <<suspended, erasing, erased, access>>
vars     == <<up, boot, registry, making, dropping, req, world, quiet, accounts,
              stranded, faults>>

Boxes   == Box \cup {None}
Making  == [box : Boxes, step : {"none", "starting", "inserting", "discarding", "looking"}]
Drop    == [tenant : Tenant, box : Box, step : {"row", "machine"},
            by : {"release", "erase"} \cup Request]
Phase   == {"idle", "admitted", "sharing", "waiting", "probing", "forgetting"}
Call    == [phase : Phase, kind : {"tunnel", "ensure"}, tenant : Tenant \cup {None},
            box : Boxes, again : BOOLEAN]

Idle       == [phase |-> "idle", kind |-> "ensure", tenant |-> None, box |-> None, again |-> FALSE]
NotMaking  == [box |-> None, step |-> "none"]
NothingRead == [rows |-> [u \in Tenant |-> None], handles |-> {}, known |-> {}]

TypeOK ==
  /\ up \in {"down", "adopting", "up"}
  /\ boot \in [rows : [Tenant -> Boxes], handles : SUBSET Box, known : SUBSET Box]
  /\ table \in [Tenant -> Boxes]
  /\ held \in [Tenant -> Boxes]
  /\ tokens \subseteq Box
  /\ making \in [Tenant -> Making]
  /\ dropping \subseteq Drop
  /\ req \in [Request -> Call]
  /\ machine \in [Box -> Tenant \cup {None}]
  /\ tunnel \in [Box -> {"none", "idle", "busy"}]
  /\ quiet \in [Tenant -> 0 .. 2]
  /\ {suspended, erasing, erased, access} \subseteq SUBSET Tenant
  /\ stranded \subseteq Box
  /\ faults \in Nat

Init ==
  /\ up = "down" /\ boot = NothingRead
  /\ table = [u \in Tenant |-> None] /\ held = table /\ tokens = {}
  /\ making = [u \in Tenant |-> NotMaking] /\ dropping = {}
  /\ req = [r \in Request |-> Idle]
  /\ machine = [b \in Box |-> None]
  /\ tunnel = [b \in Box |-> "none"]
  /\ quiet = [u \in Tenant |-> 0]
  /\ suspended = {} /\ erasing = {} /\ erased = {} /\ access = {}
  /\ stranded = {} /\ faults = 0

Running     == {b \in Box : machine[b] # None}
Connected   == {b \in Box : tunnel[b] # "none"}
Recorded(b) == \E u \in Tenant : table[u] = b
Held(b)     == \E u \in Tenant : held[u] = b
Made(b)     == \E u \in Tenant : making[u].box = b
Dropped(b)  == \E d \in dropping : d.box = b
Unused(b)   == /\ b \notin Running \cup tokens \cup stranded \cup boot.known
               /\ ~(Recorded(b) \/ Held(b) \/ Made(b) \/ Dropped(b))
               /\ \A r \in Request : req[r].box # b

(***************************************************************************)
(* The runtime takes a machine away, and its socket closes.                *)
(***************************************************************************)
Gone(b) ==
  /\ machine' = [machine EXCEPT ![b] = None]
  /\ tunnel' = [tunnel EXCEPT ![b] = "none"]

(***************************************************************************)
(* A fault is one more of at most MaxFaults.                               *)
(***************************************************************************)
Fault == faults < MaxFaults /\ faults' = faults + 1

-----------------------------------------------------------------------------
(***************************************************************************)
(* ensure().                                                               *)
(***************************************************************************)

(***************************************************************************)
(* A browser's access token is believed on its signature alone; otherwise  *)
(* the account is read.  The scheduler's wake always reads it.             *)
(***************************************************************************)
Admitted(u) == u \in access \/ u \notin suspended \cup erased

Ask(r, u, kind) ==
  /\ up = "up"
  /\ req[r].phase = "idle"
  /\ Admitted(u)
  /\ req' = [req EXCEPT ![r] = [Idle EXCEPT !.phase = "admitted", !.kind = kind, !.tenant = u]]
  /\ UNCHANGED <<up, boot, registry, making, dropping, world, quiet, accounts, stranded, faults>>

(***************************************************************************)
(* What a request does once it has a machine: be answered, or wait for its *)
(* dial-in.                                                                *)
(***************************************************************************)
Given(call, b) ==
  IF call.kind = "ensure" \/ b \in Connected THEN Idle
  ELSE [call EXCEPT !.phase = "waiting", !.box = b]

EnsureHeld(r) ==
  LET u == req[r].tenant IN
  /\ req[r].phase = "admitted"
  /\ held[u] # None
  /\ quiet' = [quiet EXCEPT ![u] = 0]
  /\ req' = [req EXCEPT ![r] = Given(@, held[u])]
  /\ UNCHANGED <<up, boot, registry, making, dropping, world, accounts, stranded, faults>>

EnsureShared(r) ==
  LET u == req[r].tenant IN
  /\ req[r].phase = "admitted"
  /\ held[u] = None
  /\ making[u] # NotMaking
  /\ req' = [req EXCEPT ![r].phase = "sharing"]
  /\ UNCHANGED <<up, boot, registry, making, dropping, world, quiet, accounts, stranded, faults>>

EnsureCreates(r, b) ==
  LET u == req[r].tenant IN
  /\ req[r].phase = "admitted"
  /\ held[u] = None
  /\ making[u] = NotMaking
  /\ Unused(b)
  /\ making' = [making EXCEPT ![u] = [box |-> b, step |-> "starting"]]
  /\ tokens' = tokens \cup {b}
  /\ req' = [req EXCEPT ![r].phase = "sharing"]
  /\ UNCHANGED <<up, boot, table, held, dropping, world, quiet, accounts, stranded, faults>>

(***************************************************************************)
(* With no room left runtime.create throws before there is a machine.      *)
(***************************************************************************)
NoRoom(r) ==
  /\ req[r].phase = "admitted"
  /\ held[req[r].tenant] = None
  /\ making[req[r].tenant] = NotMaking
  /\ \A b \in Box : ~Unused(b)
  /\ req' = [req EXCEPT ![r] = Idle]
  /\ UNCHANGED <<up, boot, registry, making, dropping, world, quiet, accounts, stranded, faults>>

-----------------------------------------------------------------------------
(***************************************************************************)
(* #create.                                                                *)
(***************************************************************************)
Step(u, step) == making[u].step = step
Shares(r, u)  == req[r].phase = "sharing" /\ req[r].tenant = u

SettleOne(u, b) ==   \* mutant: only one of those who share the creation hears of it
  /\ making' = [making EXCEPT ![u] = NotMaking]
  /\ \E r \in Request :
       /\ Shares(r, u) \/ \A q \in Request : ~Shares(q, u)
       /\ req' = [req EXCEPT ![r] = IF ~Shares(r, u) THEN @ ELSE IF b = None THEN Idle ELSE Given(@, b)]

(***************************************************************************)
(* The creation's promise settles: everybody sharing it goes on with the   *)
(* machine b, or is answered with the error where b is None.               *)
(***************************************************************************)
Settle(u, b) ==
  /\ making' = [making EXCEPT ![u] = NotMaking]
  /\ req' = [r \in Request |-> IF ~Shares(r, u) THEN req[r]
                               ELSE IF b = None THEN Idle ELSE Given(req[r], b)]

Remember(u, b, stale) ==
  /\ held' = [held EXCEPT ![u] = b]
  /\ tokens' = tokens \cup {b}
  /\ quiet' = [quiet EXCEPT ![u] = IF stale THEN 2 ELSE 0]
  /\ stranded' = stranded \ {b}

MachineStarts(u) ==
  /\ Step(u, "starting")
  /\ machine' = [machine EXCEPT ![making[u].box] = u]
  /\ making' = [making EXCEPT ![u].step = "inserting"]
  /\ UNCHANGED <<up, boot, registry, dropping, req, tunnel, quiet, accounts, stranded, faults>>

(***************************************************************************)
(* runtime.create throws, with or without a machine left behind.  The      *)
(* token stays registered.                                                 *)
(***************************************************************************)
StartFails(u, left) ==
  /\ Step(u, "starting")
  /\ Fault
  /\ IF left THEN /\ machine' = [machine EXCEPT ![making[u].box] = u]
                 /\ stranded' = stranded \cup {making[u].box}
             ELSE UNCHANGED <<machine, stranded>>
  /\ Settle(u, None)
  /\ UNCHANGED <<up, boot, registry, dropping, tunnel, quiet, accounts>>

(***************************************************************************)
(* The INSERT: the primary key decides who won.                            *)
(***************************************************************************)
InsertWins(u) ==
  LET b == making[u].box IN
  /\ Step(u, "inserting")
  /\ u \notin erased
  /\ table[u] = None
  /\ table' = [table EXCEPT ![u] = b]
  /\ Remember(u, b, FALSE)
  /\ Settle(u, b)
  /\ UNCHANGED <<up, boot, dropping, world, accounts, faults>>

InsertLosesQuietly(u) ==   \* mutant: the loser's machine is left to run
  /\ Step(u, "inserting")
  /\ table[u] # None
  /\ tokens' = tokens \ {making[u].box}
  /\ making' = [making EXCEPT ![u].step = "looking"]
  /\ UNCHANGED <<up, boot, table, held, dropping, req, world, quiet, accounts, stranded, faults>>

InsertLoses(u) ==
  /\ Step(u, "inserting")
  /\ table[u] # None
  /\ tokens' = tokens \ {making[u].box}
  /\ making' = [making EXCEPT ![u].step = "discarding"]
  /\ UNCHANGED <<up, boot, table, held, dropping, req, world, quiet, accounts, stranded, faults>>

(***************************************************************************)
(* The INSERT throws: the account's row is gone, or the database failed.   *)
(* Nothing takes the machine back.                                         *)
(***************************************************************************)
InsertFails(u) ==
  /\ Step(u, "inserting")
  /\ IF u \in erased THEN UNCHANGED faults ELSE Fault
  /\ stranded' = stranded \cup ({making[u].box} \cap Running)
  /\ Settle(u, None)
  /\ UNCHANGED <<up, boot, registry, dropping, world, quiet, accounts>>

Discard(u) ==
  /\ Step(u, "discarding")
  /\ Gone(making[u].box)
  /\ making' = [making EXCEPT ![u].step = "looking"]
  /\ UNCHANGED <<up, boot, registry, dropping, req, quiet, accounts, stranded, faults>>

DiscardFails(u) ==
  /\ Step(u, "discarding")
  /\ Fault
  /\ stranded' = stranded \cup ({making[u].box} \cap Running)
  /\ making' = [making EXCEPT ![u].step = "looking"]
  /\ UNCHANGED <<up, boot, registry, dropping, req, world, quiet, accounts>>

FindWinner(u, stale) ==
  /\ Step(u, "looking")
  /\ IF table[u] = None
     THEN /\ Settle(u, None)
          /\ UNCHANGED <<held, tokens, quiet, stranded>>
     ELSE /\ stale => \A r \in Request : ~(Shares(r, u) /\ req[r].kind = "tunnel")
          /\ Remember(u, table[u], stale)
          /\ Settle(u, table[u])
  /\ UNCHANGED <<up, boot, table, dropping, world, accounts, faults>>

-----------------------------------------------------------------------------
(***************************************************************************)
(* release() and forget(): the maps change at once, the row and then the   *)
(* machine go later.                                                       *)
(***************************************************************************)
Erase(u, by) ==
  /\ held' = [held EXCEPT ![u] = None]
  /\ quiet' = [quiet EXCEPT ![u] = 0]
  /\ tokens' = tokens \ {held[u]}
  /\ dropping' = dropping \cup {[tenant |-> u, box |-> held[u], step |-> "row", by |-> by]}

ReleaseAnyway(u, by) == Erase(u, by)   \* mutant: without the early return

(***************************************************************************)
(* release() with no record does nothing, a creation in flight or not.     *)
(***************************************************************************)
ReleaseOf(u, by) ==
  IF held[u] = None THEN UNCHANGED <<held, tokens, dropping, quiet>> ELSE Erase(u, by)

(***************************************************************************)
(* When a forget ends the request that asked for it goes on, to ensure a   *)
(* second time; if the DELETE threw, so does the request.                  *)
(***************************************************************************)
Again(call) == [call EXCEPT !.phase = "admitted", !.box = None, !.again = TRUE]

Continue(d, deleted) ==
  req' = [r \in Request |-> IF r # d.by THEN req[r]
                           ELSE IF deleted THEN Again(req[r]) ELSE Idle]

DropRow(d) ==
  /\ d \in dropping /\ d.step = "row"
  /\ dropping' = (dropping \ {d}) \cup {[d EXCEPT !.step = "machine"]}
  /\ table' = [table EXCEPT ![d.tenant] = IF @ = d.box THEN None ELSE @]
  /\ UNCHANGED <<up, boot, held, tokens, making, req, world, quiet, accounts, stranded, faults>>

DropRowFails(d) ==
  /\ d \in dropping /\ d.step = "row"
  /\ Fault
  /\ dropping' = dropping \ {d}
  /\ stranded' = stranded \cup ({d.box} \cap Running)
  /\ Continue(d, FALSE)
  /\ UNCHANGED <<up, boot, registry, making, world, quiet, accounts>>

DropMachine(d) ==
  /\ d \in dropping /\ d.step = "machine"
  /\ dropping' = dropping \ {d}
  /\ Gone(d.box)
  /\ stranded' = stranded \ {d.box}
  /\ Continue(d, TRUE)
  /\ UNCHANGED <<up, boot, registry, making, quiet, accounts, faults>>

DropMachineFails(d) ==
  /\ d \in dropping /\ d.step = "machine"
  /\ Fault
  /\ dropping' = dropping \ {d}
  /\ stranded' = stranded \cup ({d.box} \cap Running)
  /\ Continue(d, TRUE)
  /\ UNCHANGED <<up, boot, registry, making, world, quiet, accounts>>

(***************************************************************************)
(* Signing out, restarting and rebuilding all release.                     *)
(***************************************************************************)
Release(u) ==
  /\ up = "up"
  /\ Admitted(u)
  /\ held[u] # None
  /\ ReleaseOf(u, "release")
  /\ UNCHANGED <<up, boot, table, making, req, world, accounts, stranded, faults>>

ReapUnlessConnected(u) ==   \* mutant: a tunnel protects a machine whether or not it works
  /\ up # "down"
  /\ held[u] # None
  /\ tunnel[held[u]] = "none"
  /\ quiet[u] = 2
  /\ ReleaseOf(u, "release")
  /\ UNCHANGED <<up, boot, table, making, req, world, accounts, stranded, faults>>

(***************************************************************************)
(* reapIdle: a machine that reports work is never taken; any other goes    *)
(* once its tenant is quiet.                                               *)
(***************************************************************************)
Reap(u) ==
  /\ up # "down"
  /\ held[u] # None
  /\ tunnel[held[u]] # "busy"
  /\ quiet[u] = 2
  /\ ReleaseOf(u, "release")
  /\ UNCHANGED <<up, boot, table, making, req, world, accounts, stranded, faults>>

-----------------------------------------------------------------------------
(***************************************************************************)
(* tunnelFor: wait for the dial-in, ask the machine, rebuild once.         *)
(***************************************************************************)
GiveUp(r) ==
  /\ req[r].phase = "waiting"
  /\ req' = [req EXCEPT ![r] = IF @.again THEN Idle ELSE [@ EXCEPT !.phase = "probing"]]
  /\ UNCHANGED <<up, boot, registry, making, dropping, world, quiet, accounts, stranded, faults>>

Answers(r) ==
  /\ req[r].phase = "probing"
  /\ req[r].box \in Running
  /\ req' = [req EXCEPT ![r] = Idle]
  /\ UNCHANGED <<up, boot, registry, making, dropping, world, quiet, accounts, stranded, faults>>

ForgetUnscoped(r) ==   \* mutant: forgets whatever is recorded
  LET u == req[r].tenant IN
  /\ req[r].phase = "probing"
  /\ IF req[r].box \in Running THEN Fault ELSE UNCHANGED faults
  /\ IF held[u] # None
     THEN /\ Erase(u, r)
          /\ req' = [req EXCEPT ![r].phase = "forgetting"]
     ELSE /\ req' = [req EXCEPT ![r] = Again(@)]
          /\ UNCHANGED <<held, tokens, dropping, quiet>>
  /\ UNCHANGED <<up, boot, table, making, world, accounts, stranded>>

ForgetNothing(r) ==   \* mutant: ensures again and keeps the record
  /\ req[r].phase = "probing"
  /\ IF req[r].box \in Running THEN Fault ELSE UNCHANGED faults
  /\ req' = [req EXCEPT ![r] = Again(@)]
  /\ UNCHANGED <<up, boot, registry, making, dropping, world, quiet, accounts, stranded>>

(***************************************************************************)
(* The machine is gone, or cannot be asked.  forget() is scoped to the     *)
(* machine this request waited on.                                         *)
(***************************************************************************)
Forget(r) ==
  LET u == req[r].tenant IN
  /\ req[r].phase = "probing"
  /\ IF req[r].box \in Running THEN Fault ELSE UNCHANGED faults
  /\ IF held[u] = req[r].box
     THEN /\ Erase(u, r)
          /\ req' = [req EXCEPT ![r].phase = "forgetting"]
     ELSE /\ req' = [req EXCEPT ![r] = Again(@)]
          /\ UNCHANGED <<held, tokens, dropping, quiet>>
  /\ UNCHANGED <<up, boot, table, making, world, accounts, stranded>>

-----------------------------------------------------------------------------
(***************************************************************************)
(* The sandbox's side: it dials in with its token (again, if its socket    *)
(* broke unseen), reports, and goes.  Every frame stamps the tunnel, which *)
(* defers the reaper if it is the one the record names.                    *)
(***************************************************************************)
Stamp(b) == quiet' = [u \in Tenant |-> IF held[u] = b THEN 0 ELSE quiet[u]]

DialIn(b) ==
  /\ up = "up"
  /\ b \in Running \cap tokens
  /\ Stamp(b)
  /\ tunnel' = [tunnel EXCEPT ![b] = "idle"]
  /\ req' = [r \in Request |-> IF req[r].phase = "waiting" /\ req[r].box = b THEN Idle ELSE req[r]]
  /\ UNCHANGED <<up, boot, registry, making, dropping, machine, accounts, stranded, faults>>

TunnelCloses(b) ==
  /\ b \in Connected
  /\ tunnel' = [tunnel EXCEPT ![b] = "none"]
  /\ UNCHANGED <<up, boot, registry, making, dropping, req, machine, quiet, accounts, stranded, faults>>

(***************************************************************************)
(* A frame arrives; an activity frame says whether work goes on.           *)
(***************************************************************************)
Reports(b, work) ==
  /\ b \in Connected
  /\ tunnel' = [tunnel EXCEPT ![b] = work]
  /\ Stamp(b)
  /\ UNCHANGED <<up, boot, registry, making, dropping, req, machine, accounts, stranded, faults>>

MachineDies(b) ==
  /\ b \in Running
  /\ Fault
  /\ Gone(b)
  /\ stranded' = stranded \ {b}
  /\ UNCHANGED <<up, boot, registry, making, dropping, req, quiet, accounts>>

Age(u) ==
  /\ held[u] # None
  /\ quiet[u] < 2
  /\ quiet' = [quiet EXCEPT ![u] = @ + 1]
  /\ UNCHANGED <<up, boot, registry, making, dropping, req, world, accounts, stranded, faults>>

-----------------------------------------------------------------------------
(***************************************************************************)
(* Accounts.  Suspension is told to a gateway that is up; erasure releases *)
(* first and deletes the account, and by cascade the row, last.            *)
(***************************************************************************)
Suspend(u, browsing) ==
  /\ u \notin suspended \cup erasing \cup erased
  /\ suspended' = suspended \cup {u}
  /\ access' = IF browsing THEN access \cup {u} ELSE access
  /\ IF up = "up" THEN ReleaseOf(u, "release") ELSE UNCHANGED <<held, tokens, dropping, quiet>>
  /\ UNCHANGED <<up, boot, table, making, req, world, erasing, erased, stranded, faults>>

EraseAccount(u, browsing) ==
  /\ up = "up"
  /\ u \notin erasing \cup erased
  /\ erasing' = erasing \cup {u}
  /\ access' = IF browsing /\ u \notin suspended THEN access \cup {u} ELSE access
  /\ ReleaseOf(u, "erase")
  /\ UNCHANGED <<up, boot, table, making, req, world, suspended, erased, stranded, faults>>

DeleteAccount(u) ==
  /\ up = "up"
  /\ u \in erasing
  /\ \A d \in dropping : ~(d.tenant = u /\ d.by = "erase")
  /\ erasing' = erasing \ {u}
  /\ erased' = erased \cup {u}
  /\ table' = [table EXCEPT ![u] = None]
  /\ UNCHANGED <<up, boot, held, tokens, making, dropping, req, world, quiet, suspended, access,
                 stranded, faults>>

AccessExpires(u) ==
  /\ u \in access
  /\ access' = access \ {u}
  /\ UNCHANGED <<up, boot, registry, making, dropping, req, world, quiet, suspended, erasing, erased,
                 stranded, faults>>

-----------------------------------------------------------------------------
(***************************************************************************)
(* The process dies with everything it held in memory, and adopts at boot. *)
(***************************************************************************)
Crash ==
  /\ up # "down"
  /\ Fault
  /\ up' = "down"
  /\ boot' = NothingRead
  /\ held' = [u \in Tenant |-> None] /\ tokens' = {}
  /\ making' = [u \in Tenant |-> NotMaking] /\ dropping' = {}
  /\ req' = [r \in Request |-> Idle]
  /\ quiet' = [u \in Tenant |-> 0]
  /\ tunnel' = [b \in Box |-> "none"] /\ erasing' = {}
  /\ UNCHANGED <<table, machine, suspended, erased, access, stranded>>

(***************************************************************************)
(* adopt reads the table and lists the machines; a listing that fails is   *)
(* an empty one.                                                           *)
(***************************************************************************)
BootWith(handles) ==
  /\ up = "down"
  /\ up' = "adopting"
  /\ boot' = [rows |-> table, handles |-> handles, known |-> {table[u] : u \in Tenant} \ {None}]
  /\ UNCHANGED <<registry, making, dropping, req, world, quiet, accounts>>

Boot        == BootWith(Running) /\ UNCHANGED <<stranded, faults>>
BootBlindly == BootWith({}) /\ Fault /\ stranded' = stranded \cup {b \in Running : ~Recorded(b)}

AdoptRow(u, stale) ==
  LET b == boot.rows[u] IN
  /\ up = "adopting"
  /\ b # None
  /\ boot' = [boot EXCEPT !.rows[u] = None]
  /\ IF b \in boot.handles
     THEN Remember(u, b, stale) /\ UNCHANGED table
     ELSE /\ table' = [table EXCEPT ![u] = None]
          /\ stranded' = stranded \cup ({b} \cap Running)
          /\ UNCHANGED <<held, tokens, quiet>>
  /\ UNCHANGED <<up, making, dropping, req, world, accounts, faults>>

AllRowsRead == \A u \in Tenant : boot.rows[u] = None

RemoveOrphan(b) ==
  /\ up = "adopting" /\ AllRowsRead
  /\ b \in boot.handles \ boot.known
  /\ boot' = [boot EXCEPT !.handles = @ \ {b}]
  /\ Gone(b)
  /\ stranded' = stranded \ {b}
  /\ UNCHANGED <<up, registry, making, dropping, req, quiet, accounts, faults>>

RemoveOrphanFails(b) ==
  /\ up = "adopting" /\ AllRowsRead
  /\ b \in boot.handles \ boot.known
  /\ Fault
  /\ boot' = [boot EXCEPT !.handles = @ \ {b}]
  /\ stranded' = stranded \cup ({b} \cap Running)
  /\ UNCHANGED <<up, registry, making, dropping, req, world, quiet, accounts>>

Listen ==
  /\ up = "adopting" /\ AllRowsRead
  /\ boot.handles \subseteq boot.known
  /\ up' = "up"
  /\ boot' = NothingRead
  /\ UNCHANGED <<registry, making, dropping, req, world, quiet, accounts, stranded, faults>>

-----------------------------------------------------------------------------
Creation(u) ==
  \/ MachineStarts(u) \/ InsertWins(u) \/ InsertLoses(u) \/ InsertFails(u)
  \/ Discard(u) \/ \E stale \in BOOLEAN : FindWinner(u, stale)

Serving(r) ==
  \/ EnsureHeld(r) \/ EnsureShared(r) \/ NoRoom(r) \/ \E b \in Box : EnsureCreates(r, b)
  \/ GiveUp(r) \/ Answers(r) \/ Forget(r)

Dropping(b) == \E d \in dropping : d.box = b /\ (DropRow(d) \/ DropMachine(d))

Adopting ==
  \/ Boot \/ Listen
  \/ \E u \in Tenant, stale \in BOOLEAN : AdoptRow(u, stale)
  \/ \E b \in Box : RemoveOrphan(b)

Outside ==
  \/ \E r \in Request, u \in Tenant, kind \in Kinds : Ask(r, u, kind)
  \/ \E u \in Tenant : Release(u)
  \/ \E u \in Tenant, browsing \in BOOLEAN : Suspend(u, browsing) \/ EraseAccount(u, browsing)
  \/ \E b \in Box : DialIn(b) \/ TunnelCloses(b)
  \/ \E b \in Box, work \in {"idle", "busy"} : Reports(b, work)

Clocks == \E u \in Tenant : Reap(u) \/ Age(u) \/ AccessExpires(u) \/ DeleteAccount(u)

Failing ==
  \/ Crash \/ BootBlindly
  \/ \E u \in Tenant, left \in BOOLEAN : StartFails(u, left)
  \/ \E u \in Tenant : DiscardFails(u)
  \/ \E d \in dropping : DropRowFails(d) \/ DropMachineFails(d)
  \/ \E b \in Box : MachineDies(b) \/ RemoveOrphanFails(b)

Next ==
  \/ \E u \in Tenant : Creation(u)
  \/ \E r \in Request : Serving(r)
  \/ \E b \in Box : Dropping(b)
  \/ Adopting \/ Outside \/ Clocks \/ Failing

Spec == Init /\ [][Next]_vars

(***************************************************************************)
(* The runtime and the database answer or fail each call by itself,        *)
(* whatever other calls do; the process is restarted, timers fire, tokens  *)
(* expire.  Nothing makes tenants ask, machines dial in or agents stop     *)
(* working.                                                                *)
(***************************************************************************)
FairSpec ==
  /\ Spec
  /\ \A u \in Tenant : WF_vars(Creation(u)) /\ WF_vars(Age(u)) /\ SF_vars(Reap(u))
  /\ \A u \in Tenant : WF_vars(AccessExpires(u)) /\ WF_vars(DeleteAccount(u))
  /\ \A r \in Request : WF_vars(Serving(r))
  /\ \A b \in Box : WF_vars(Dropping(b))
  /\ WF_vars(Adopting)

-----------------------------------------------------------------------------
(***************************************************************************)
(* Properties.                                                             *)
(***************************************************************************)

(***************************************************************************)
(* Whatever requests, creations, releases, the reaper, crashes and         *)
(* adoptions interleave, while the gateway serves, a machine that runs is  *)
(* one somebody will take away: it has a row, a record, a creation that is *)
(* not over or a release under way.  Only a call that failed leaves one    *)
(* nobody knows.                                                           *)
(***************************************************************************)
Known(b) == Recorded(b) \/ Held(b) \/ Made(b) \/ Dropped(b) \/ b \in stranded

MachinesAreAccountedFor == up = "up" => \A b \in Running : Known(b)

(***************************************************************************)
(* Requests time out together.  None of them destroys a running machine,   *)
(* such as the one another of them has just built, unless that machine did *)
(* not answer when it was asked (tunnelFor, "scoped to the sandbox this    *)
(* call waited on").                                                       *)
(***************************************************************************)
ForgetSparesSuccessors ==
  [][\A d \in dropping' \ dropping :
       d.by \in Request /\ d.step = "row" /\ d.box \in Running => faults' # faults]_vars

(***************************************************************************)
(* Every request is answered, however creations, forgets and releases cut  *)
(* across it: nobody waits for ever on a creation another request began.   *)
(***************************************************************************)
EveryRequestIsAnswered == \A r \in Request : req[r].phase # "idle" ~> req[r].phase = "idle"

(***************************************************************************)
(* Suspending or erasing an account ends with no machine running for it,   *)
(* one being built at that moment included, once its agent says nothing    *)
(* more; those a failed call left behind excepted (server.js, "nothing     *)
(* reaches a sandbox that outlives this by a few minutes, and the idle     *)
(* sweep collects it").                                                    *)
(***************************************************************************)
Silent(u) ==
  /\ held[u] # None => quiet[u] # 0
  /\ \A b \in Box : machine[b] = u => tunnel[b] # "busy"

DepartedLoseTheirMachine ==
  \A u \in Tenant :
    <>[]Silent(u) =>
      (u \in suspended \cup erased ~> \A b \in Running : machine[b] = u => b \in stranded)

(***************************************************************************)
(* A record of a machine that died does not stay: forget()'s comment says  *)
(* the tenant would otherwise wait "until the idle sweep eventually        *)
(* reclaimed it".                                                          *)
(***************************************************************************)
DeadRecordsGo ==
  \A u \in Tenant, b \in Box : held[u] = b /\ b \notin Running ~> held[u] # b

(***************************************************************************)
(* db.js: a tenant never has two machines "mounting one volume twice: two  *)
(* backends writing one settings file and one session log".                *)
(***************************************************************************)
OneMachinePerTenant ==
  \A b, c \in Running \ stranded : machine[b] = machine[c] => b = c
=============================================================================
