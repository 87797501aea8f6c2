-------------------------- MODULE SandboxesProofs --------------------------
(***************************************************************************)
(* What holds of the sandbox manager for every number of tenants, machines *)
(* and requests.  The inductive invariant adds to the properties what each *)
(* creation, row, release and adoption under way may rely on.              *)
(***************************************************************************)
EXTENDS Sandboxes, TLAPS

DownIsBlank == up = "down" => dropping = {} /\ \A u \in Tenant : held[u] = None

OnlyServingMakes == up # "up" => \A u \in Tenant : making[u] = NotMaking

(***************************************************************************)
(* A creation's machine is its own until its row is written.               *)
(***************************************************************************)
MakingIsPrivate ==
  \A u \in Tenant :
    LET b == making[u].box IN
    making[u] # NotMaking =>
      /\ b \in Box /\ making[u].step # "none"
      /\ held[u] = None
      /\ ~Recorded(b) /\ ~Held(b) /\ ~Dropped(b)
      /\ making[u].step = "starting" => b \notin Running
      /\ making[u].step = "looking" /\ b \in Running => b \in stranded

MakingsDiffer == \A u, v \in Tenant : making[u] # NotMaking /\ making[u].box = making[v].box => u = v

RowsDiffer == \A u, v \in Tenant : table[u] # None /\ table[u] = table[v] => u = v

(***************************************************************************)
(* A row of a running machine is backed by more than itself: the account's *)
(* deletion, which cascades to the row, strands nothing.                   *)
(***************************************************************************)
RowsAreBacked ==
  \A u \in Tenant :
    up # "down" /\ table[u] \in Running =>
      \/ held[u] = table[u]
      \/ Dropped(table[u])
      \/ table[u] \in stranded
      \/ up = "adopting" /\ boot.rows[u] = table[u]

AdoptingIsFirst ==
  \A u \in Tenant :
    up = "adopting" /\ boot.rows[u] # None =>
      /\ table[u] = boot.rows[u]
      /\ held[u] = None
      /\ \A d \in dropping : d.tenant # u

StraysAreListed ==
  up = "adopting" => \A b \in Running : Known(b) \/ b \in boot.handles \ boot.known

(***************************************************************************)
(* A request past ensure() names a tenant and a machine; one that forgets  *)
(* waits for the one forget that carries its name.                         *)
(***************************************************************************)
CallsAreNamed ==
  \A r \in Request :
    /\ req[r].phase # "idle" => req[r].tenant \in Tenant
    /\ req[r].phase \in {"waiting", "probing", "forgetting"} => req[r].box \in Box

OnlyServingServes == up # "up" => \A r \in Request : req[r].phase = "idle"

ForgetsAreAwaited ==
  /\ \A d \in dropping : d.by \in Request => req[d.by].phase = "forgetting"
  /\ \A d, e \in dropping : d.by \in Request /\ d.by = e.by => d = e

Registered ==
  /\ DownIsBlank
  /\ OnlyServingMakes
  /\ MakingIsPrivate
  /\ MakingsDiffer
  /\ RowsDiffer
  /\ RowsAreBacked
  /\ AdoptingIsFirst
  /\ StraysAreListed
  /\ MachinesAreAccountedFor

IInv ==
  /\ TypeOK
  /\ Registered
  /\ CallsAreNamed
  /\ OnlyServingServes
  /\ ForgetsAreAwaited

-----------------------------------------------------------------------------
(***************************************************************************)
(* Every record a step writes has its type.                                *)
(***************************************************************************)
LEMMA RecordTypes ==
  /\ Idle \in Call
  /\ NotMaking \in Making
  /\ NothingRead \in [rows : [Tenant -> Boxes], handles : SUBSET Box, known : SUBSET Box]
  /\ \A c \in Call, p \in Phase : [c EXCEPT !.phase = p] \in Call
  /\ \A c \in Call, b \in Box : Given(c, b) \in Call
  /\ \A c \in Call : Again(c) \in Call
  /\ \A m \in Making : \A step \in {"inserting", "discarding", "looking"} :
       [m EXCEPT !.step = step] \in Making
BY DEF Idle, Call, Phase, Boxes, NotMaking, Making, NothingRead, Given, Again

(***************************************************************************)
(* A record that is dropped names a tenant and a machine.                  *)
(***************************************************************************)
LEMMA EraseTypes ==
  ASSUME TypeOK, NEW u \in Tenant, held[u] # None,
         NEW by \in {"release", "erase"} \cup Request, Erase(u, by)
  PROVE  /\ held' \in [Tenant -> Boxes]
         /\ quiet' \in [Tenant -> 0 .. 2]
         /\ tokens' \subseteq Box
         /\ dropping' \subseteq Drop
<1>1. held[u] \in Box
  BY DEF TypeOK, Boxes
<1>2. [tenant |-> u, box |-> held[u], step |-> "row", by |-> by] \in Drop
  BY <1>1 DEF Drop
<1> QED
  BY <1>1, <1>2 DEF TypeOK, Erase, Boxes

LEMMA ReleaseOfTypes ==
  ASSUME TypeOK, NEW u \in Tenant,
         NEW by \in {"release", "erase"} \cup Request, ReleaseOf(u, by)
  PROVE  /\ held' \in [Tenant -> Boxes]
         /\ quiet' \in [Tenant -> 0 .. 2]
         /\ tokens' \subseteq Box
         /\ dropping' \subseteq Drop
<1>1. CASE held[u] = None
  BY <1>1 DEF TypeOK, ReleaseOf
<1>2. CASE held[u] # None
  BY <1>2, EraseTypes DEF ReleaseOf
<1> QED
  BY <1>1, <1>2

LEMMA ServingTypes ==
  ASSUME IInv, NEW r \in Request, Serving(r)
  PROVE  TypeOK'
<1> USE DEF TypeOK, registry, world, accounts
<1>0. TypeOK /\ CallsAreNamed /\ req[r] \in Call
  BY DEF IInv
<1>1. CASE EnsureHeld(r)
  BY <1>0, <1>1, RecordTypes DEF EnsureHeld, CallsAreNamed, Boxes
<1>2. CASE EnsureShared(r)
  <2>1. [req[r] EXCEPT !.phase = "sharing"] \in Call
    BY <1>0, RecordTypes DEF Phase
  <2> QED
    BY <1>0, <1>2, <2>1 DEF EnsureShared
<1>3. CASE NoRoom(r)
  BY <1>0, <1>3, RecordTypes DEF NoRoom
<1>4. ASSUME NEW b \in Box, EnsureCreates(r, b)
      PROVE  TypeOK'
  <2>1. [req[r] EXCEPT !.phase = "sharing"] \in Call
    BY <1>0, RecordTypes DEF Phase
  <2>2. [box |-> b, step |-> "starting"] \in Making
    BY DEF Making, Boxes
  <2> QED
    BY <1>0, <1>4, <2>1, <2>2 DEF EnsureCreates
<1>5. CASE GiveUp(r)
  <2>1. [req[r] EXCEPT !.phase = "probing"] \in Call /\ Idle \in Call
    BY <1>0, RecordTypes DEF Phase
  <2> QED
    BY <1>0, <1>5, <2>1 DEF GiveUp
<1>6. CASE Answers(r)
  BY <1>0, <1>6, RecordTypes DEF Answers
<1>7. CASE Forget(r)
  <2> DEFINE u == req[r].tenant
  <2>1. u \in Tenant /\ req[r].box \in Box
    BY <1>0, <1>7 DEF Forget, CallsAreNamed
  <2>2. faults' \in Nat
    BY <1>0, <1>7 DEF Forget, Fault
  <2>3. [req[r] EXCEPT !.phase = "forgetting"] \in Call /\ Again(req[r]) \in Call
    BY <1>0, RecordTypes DEF Phase
  <2>4. CASE held[u] = req[r].box
    <3>1. held[u] # None
      BY <2>1, <2>4, SandboxesAssumption
    <3> QED
      BY <1>0, <1>7, <2>1, <2>2, <2>3, <2>4, <3>1, EraseTypes DEF Forget
  <2>5. CASE held[u] # req[r].box
    BY <1>0, <1>7, <2>2, <2>3, <2>5 DEF Forget
  <2> QED
    BY <2>4, <2>5
<1> QED
  BY <1>1, <1>2, <1>3, <1>4, <1>5, <1>6, <1>7 DEF Serving

LEMMA RememberTypes ==
  ASSUME TypeOK, NEW u \in Tenant, NEW b \in Box, NEW stale \in BOOLEAN, Remember(u, b, stale)
  PROVE  /\ held' \in [Tenant -> Boxes]
         /\ quiet' \in [Tenant -> 0 .. 2]
         /\ tokens' \subseteq Box
         /\ stranded' \subseteq Box
BY DEF TypeOK, Remember, Boxes

LEMMA SettleTypes ==
  ASSUME TypeOK, NEW u \in Tenant, NEW b \in Boxes, Settle(u, b)
  PROVE  making' \in [Tenant -> Making] /\ req' \in [Request -> Call]
<1>1. \A r \in Request : b # None => Given(req[r], b) \in Call
  BY RecordTypes DEF TypeOK, Boxes
<1> QED
  BY <1>1, RecordTypes DEF TypeOK, Settle

LEMMA CreationTypes ==
  ASSUME IInv, NEW u \in Tenant,
         Creation(u) \/ DiscardFails(u) \/ \E left \in BOOLEAN : StartFails(u, left)
  PROVE  TypeOK'
<1> USE DEF TypeOK, registry, world, accounts
<1> DEFINE b == making[u].box
<1>0. TypeOK /\ making[u] \in Making /\ None \in Boxes
  BY DEF IInv, Boxes
<1>1. making[u].step # "none" => b \in Box
  BY DEF IInv, Registered, MakingIsPrivate, NotMaking
<1>2. \A step \in {"inserting", "discarding", "looking"} : [making[u] EXCEPT !.step = step] \in Making
  BY <1>0, RecordTypes
<1>3. CASE MachineStarts(u)
  BY <1>0, <1>1, <1>2, <1>3 DEF MachineStarts, Step
<1>4. CASE InsertWins(u)
  <2>1. b \in Box /\ b \in Boxes
    BY <1>1, <1>4 DEF InsertWins, Step, Boxes
  <2> QED
    BY <1>0, <1>4, <2>1, RememberTypes, SettleTypes DEF InsertWins
<1>5. CASE InsertLoses(u)
  BY <1>0, <1>2, <1>5 DEF InsertLoses
<1>6. CASE InsertFails(u)
  <2>1. faults' \in Nat
    BY <1>0, <1>6 DEF InsertFails, Fault
  <2> QED
    BY <1>0, <1>1, <1>6, <2>1, SettleTypes DEF InsertFails, Step
<1>7. CASE Discard(u)
  BY <1>0, <1>1, <1>2, <1>7 DEF Discard, Gone, Step
<1>8. CASE DiscardFails(u)
  <2>1. faults' \in Nat
    BY <1>0, <1>8 DEF DiscardFails, Fault
  <2> QED
    BY <1>0, <1>1, <1>2, <1>8, <2>1 DEF DiscardFails, Step
<1>9. ASSUME NEW stale \in BOOLEAN, FindWinner(u, stale)
      PROVE  TypeOK'
  <2>1. CASE table[u] = None
    BY <1>0, <1>9, <2>1, SettleTypes DEF FindWinner
  <2>2. CASE table[u] # None
    <3>1. table[u] \in Box /\ table[u] \in Boxes
      BY <1>0, <2>2 DEF Boxes
    <3> QED
      BY <1>0, <1>9, <2>2, <3>1, RememberTypes, SettleTypes DEF FindWinner
  <2> QED
    BY <2>1, <2>2
<1>10. ASSUME NEW left \in BOOLEAN, StartFails(u, left)
       PROVE  TypeOK'
  <2>1. faults' \in Nat
    BY <1>0, <1>10 DEF StartFails, Fault
  <2> QED
    BY <1>0, <1>1, <1>10, <2>1, SettleTypes DEF StartFails, Step
<1> QED
  BY <1>3, <1>4, <1>5, <1>6, <1>7, <1>8, <1>9, <1>10 DEF Creation

LEMMA DroppingTypes ==
  ASSUME IInv, NEW d \in dropping,
         DropRow(d) \/ DropRowFails(d) \/ DropMachine(d) \/ DropMachineFails(d)
  PROVE  TypeOK'
<1> USE DEF TypeOK, registry, world, accounts
<1>0. TypeOK /\ d \in Drop
  BY DEF IInv
<1>1. ASSUME NEW deleted \in BOOLEAN, Continue(d, deleted)
      PROVE  req' \in [Request -> Call]
  BY <1>0, <1>1, RecordTypes DEF Continue
<1>2. d.box \in Box /\ [d EXCEPT !.step = "machine"] \in Drop
  BY <1>0 DEF Drop
<1>3. CASE DropRow(d)
  BY <1>0, <1>2, <1>3 DEF DropRow, Boxes
<1>4. CASE DropRowFails(d)
  <2>1. faults' \in Nat /\ stranded' \subseteq Box
    BY <1>0, <1>2, <1>4 DEF DropRowFails, Fault
  <2> QED
    BY <1>0, <1>1, <1>4, <2>1 DEF DropRowFails
<1>5. CASE DropMachine(d)
  BY <1>0, <1>1, <1>2, <1>5 DEF DropMachine, Gone
<1>6. CASE DropMachineFails(d)
  <2>1. faults' \in Nat /\ stranded' \subseteq Box
    BY <1>0, <1>2, <1>6 DEF DropMachineFails, Fault
  <2> QED
    BY <1>0, <1>1, <1>6, <2>1 DEF DropMachineFails
<1> QED
  BY <1>3, <1>4, <1>5, <1>6

LEMMA OutsideTypes ==
  ASSUME IInv, Outside \/ Clocks \/ \E b \in Box : MachineDies(b)
  PROVE  TypeOK'
<1> USE DEF TypeOK, registry, world, accounts
<1>0. TypeOK
  BY DEF IInv
<1>1. ASSUME NEW r \in Request, NEW u \in Tenant, NEW kind \in Kinds, Ask(r, u, kind)
      PROVE  TypeOK'
  <2>1. [Idle EXCEPT !.phase = "admitted", !.kind = kind, !.tenant = u] \in Call
    BY SandboxesAssumption DEF Idle, Call, Phase, Boxes
  <2> QED
    BY <1>0, <1>1, <2>1 DEF Ask
<1>2. ASSUME NEW u \in Tenant, Release(u) \/ Reap(u)
      PROVE  TypeOK'
  BY <1>0, <1>2, ReleaseOfTypes DEF Release, Reap
<1>3. ASSUME NEW u \in Tenant, NEW browsing \in BOOLEAN, Suspend(u, browsing)
      PROVE  TypeOK'
  <2>1. /\ held' \in [Tenant -> Boxes] /\ quiet' \in [Tenant -> 0 .. 2]
        /\ tokens' \subseteq Box /\ dropping' \subseteq Drop
    BY <1>0, <1>3, ReleaseOfTypes DEF Suspend
  <2>2. {suspended, erasing, erased, access}' \subseteq SUBSET Tenant
    BY <1>0, <1>3 DEF Suspend
  <2>3. UNCHANGED <<up, boot, table, making, req, machine, tunnel, stranded, faults>>
    BY <1>3 DEF Suspend
  <2> QED
    BY <1>0, <2>1, <2>2, <2>3
<1>4. ASSUME NEW u \in Tenant, NEW browsing \in BOOLEAN, EraseAccount(u, browsing)
      PROVE  TypeOK'
  <2>1. /\ held' \in [Tenant -> Boxes] /\ quiet' \in [Tenant -> 0 .. 2]
        /\ tokens' \subseteq Box /\ dropping' \subseteq Drop
    BY <1>0, <1>4, ReleaseOfTypes DEF EraseAccount
  <2>2. {suspended, erasing, erased, access}' \subseteq SUBSET Tenant
    BY <1>0, <1>4 DEF EraseAccount
  <2>3. UNCHANGED <<up, boot, table, making, req, machine, tunnel, stranded, faults>>
    BY <1>4 DEF EraseAccount
  <2> QED
    BY <1>0, <2>1, <2>2, <2>3
<1>5. ASSUME NEW b \in Box, DialIn(b)
      PROVE  TypeOK'
  BY <1>0, <1>5, RecordTypes DEF DialIn, Stamp
<1>6. ASSUME NEW b \in Box, TunnelCloses(b)
      PROVE  TypeOK'
  BY <1>0, <1>6 DEF TunnelCloses
<1>7. ASSUME NEW b \in Box, NEW work \in {"idle", "busy"}, Reports(b, work)
      PROVE  TypeOK'
  BY <1>0, <1>7 DEF Reports, Stamp
<1>8. ASSUME NEW b \in Box, MachineDies(b)
      PROVE  TypeOK'
  BY <1>0, <1>8 DEF MachineDies, Gone, Fault
<1>9. ASSUME NEW u \in Tenant, Age(u) \/ AccessExpires(u)
      PROVE  TypeOK'
  BY <1>0, <1>9 DEF Age, AccessExpires
<1>10. ASSUME NEW u \in Tenant, DeleteAccount(u)
       PROVE  TypeOK'
  BY <1>0, <1>10 DEF DeleteAccount, Boxes
<1> QED
  BY <1>1, <1>2, <1>3, <1>4, <1>5, <1>6, <1>7, <1>8, <1>9, <1>10 DEF Outside, Clocks

LEMMA RestartTypes ==
  ASSUME IInv, Crash \/ BootBlindly \/ Adopting \/ \E b \in Box : RemoveOrphanFails(b)
  PROVE  TypeOK'
<1> USE DEF TypeOK, registry, world, accounts
<1>0. TypeOK
  BY DEF IInv
<1>1. CASE Crash
  BY <1>0, <1>1, RecordTypes DEF Crash, Fault, Boxes
<1>2. ASSUME NEW handles \in SUBSET Box, BootWith(handles)
      PROVE  /\ up' \in {"down", "adopting", "up"}
             /\ boot' \in [rows : [Tenant -> Boxes], handles : SUBSET Box, known : SUBSET Box]
  BY <1>0, <1>2 DEF BootWith, Boxes
<1>3. CASE Boot
  BY <1>0, <1>2, <1>3 DEF Boot, BootWith, Running
<1>4. CASE BootBlindly
  BY <1>0, <1>2, <1>4 DEF BootBlindly, BootWith, Running, Fault
<1>5. ASSUME NEW u \in Tenant, NEW stale \in BOOLEAN, AdoptRow(u, stale)
      PROVE  TypeOK'
  <2>1. boot.rows[u] \in Box
    BY <1>0, <1>5 DEF AdoptRow, Boxes
  <2>2. boot' \in [rows : [Tenant -> Boxes], handles : SUBSET Box, known : SUBSET Box]
    <3>1. [boot.rows EXCEPT ![u] = None] \in [Tenant -> Boxes]
      BY <1>0 DEF Boxes
    <3>2. boot' = [rows |-> [boot.rows EXCEPT ![u] = None], handles |-> boot.handles, known |-> boot.known]
      BY <1>0, <1>5 DEF AdoptRow
    <3> QED
      BY <1>0, <3>1, <3>2
  <2>3. CASE boot.rows[u] \in boot.handles
    <3>1. Remember(u, boot.rows[u], stale)
          /\ UNCHANGED <<up, table, making, dropping, req, machine, tunnel, suspended, erasing,
                         erased, access, faults>>
      BY <1>5, <2>3 DEF AdoptRow
    <3> QED
      BY <1>0, <2>1, <2>2, <3>1, RememberTypes
  <2>4. CASE boot.rows[u] \notin boot.handles
    BY <1>0, <1>5, <2>1, <2>2, <2>4 DEF AdoptRow, Boxes
  <2> QED
    BY <2>3, <2>4
<1>6. ASSUME NEW b \in Box, RemoveOrphan(b)
      PROVE  TypeOK'
  BY <1>0, <1>6 DEF RemoveOrphan, Gone
<1>7. ASSUME NEW b \in Box, RemoveOrphanFails(b)
      PROVE  TypeOK'
  BY <1>0, <1>7 DEF RemoveOrphanFails, Fault
<1>8. CASE Listen
  BY <1>0, <1>8, RecordTypes DEF Listen
<1> QED
  BY <1>1, <1>3, <1>4, <1>5, <1>6, <1>7, <1>8 DEF Adopting

LEMMA TypeOKPreserved == IInv /\ [Next]_vars => TypeOK'
<1> SUFFICES ASSUME IInv, [Next]_vars PROVE TypeOK'
  OBVIOUS
<1>1. CASE UNCHANGED vars
  BY <1>1 DEF IInv, TypeOK, vars, registry, world, accounts
<1>2. CASE Next
  BY <1>2, ServingTypes, CreationTypes, DroppingTypes, OutsideTypes, RestartTypes
     DEF Next, Dropping, Failing
<1> QED
  BY <1>1, <1>2

-----------------------------------------------------------------------------
(***************************************************************************)
(* Requests and the forgets they wait for.                                 *)
(***************************************************************************)
LEMMA CallFacts ==
  /\ Idle.phase = "idle"
  /\ \A c \in Call, p \in Phase : LET d == [c EXCEPT !.phase = p] IN
       d.phase = p /\ d.tenant = c.tenant /\ d.box = c.box
  /\ \A c \in Call, b \in Box : LET d == Given(c, b) IN
       d = Idle \/ (d.phase = "waiting" /\ d.tenant = c.tenant /\ d.box = b)
  /\ \A c \in Call : Again(c).phase = "admitted" /\ Again(c).tenant = c.tenant
BY DEF Idle, Call, Given, Again

LEMMA CallsPreserved == IInv /\ [Next]_vars => CallsAreNamed' /\ ForgetsAreAwaited'
<1> SUFFICES ASSUME IInv, [Next]_vars PROVE CallsAreNamed' /\ ForgetsAreAwaited'
  OBVIOUS
<1> USE DEF CallsAreNamed, ForgetsAreAwaited
<1>0. /\ TypeOK /\ CallsAreNamed /\ ForgetsAreAwaited
      /\ req \in [Request -> Call] /\ dropping \subseteq Drop
  BY DEF IInv, TypeOK
<1>1. CASE UNCHANGED <<req, dropping>>
  BY <1>0, <1>1
<1>2. ASSUME NEW u \in Tenant, NEW by \in {"release", "erase"}, ReleaseOf(u, by), UNCHANGED req
      PROVE  CallsAreNamed' /\ ForgetsAreAwaited'
  BY <1>0, <1>2, SandboxesAssumption DEF ReleaseOf, Erase
<1>3. ASSUME NEW u \in Tenant, NEW b \in Boxes, Settle(u, b), UNCHANGED dropping
      PROVE  CallsAreNamed' /\ ForgetsAreAwaited'
  <2>1. \A r \in Request :
          \/ req'[r] = req[r] \/ req'[r] = Idle
          \/ Shares(r, u) /\ b \in Box /\ req'[r] = Given(req[r], b)
    BY <1>3 DEF Settle, Boxes
  <2>2. \A r \in Request : Shares(r, u) => \A d \in dropping : d.by # r
    BY <1>0 DEF Shares
  <2>3. \A r \in Request :
          \/ req'[r] = req[r] \/ req'[r].phase = "idle"
          \/ /\ Shares(r, u)
             /\ req'[r].phase = "waiting" /\ req'[r].tenant = req[r].tenant /\ req'[r].box \in Box
    BY <1>0, <2>1, CallFacts
  <2>4. CallsAreNamed'
    BY <1>0, <2>3 DEF Shares
  <2>5. \A r \in Request : ~Shares(r, u) => req'[r] = req[r]
    BY <1>3 DEF Settle
  <2>6. ForgetsAreAwaited'
    BY <1>0, <1>3, <2>2, <2>5
  <2> QED
    BY <2>4, <2>6
<1>4. ASSUME NEW d \in dropping, NEW deleted \in BOOLEAN, Continue(d, deleted), dropping' = dropping \ {d}
      PROVE  CallsAreNamed' /\ ForgetsAreAwaited'
  <2>1. \A r \in Request :
          \/ r # d.by /\ req'[r] = req[r]
          \/ r = d.by /\ (req'[r] = Idle \/ req'[r] = Again(req[r]))
    BY <1>4 DEF Continue
  <2> QED
    BY <1>0, <1>4, <2>1, CallFacts
<1>5. ASSUME NEW r \in Request, Forget(r)
      PROVE  CallsAreNamed' /\ ForgetsAreAwaited'
  <2> DEFINE new == [tenant |-> req[r].tenant, box |-> held[req[r].tenant], step |-> "row", by |-> r]
  <2>1. req[r] \in Call /\ req[r].phase = "probing" /\ \A d \in dropping : d.by # r
    BY <1>0, <1>5 DEF Forget
  <2>2. CASE held[req[r].tenant] = req[r].box
    <3>1. dropping' = dropping \cup {new}
      BY <1>5, <2>2 DEF Forget, Erase
    <3>2. req'[r] = [req[r] EXCEPT !.phase = "forgetting"] /\ \A q \in Request \ {r} : req'[q] = req[q]
      BY <1>0, <1>5, <2>2 DEF Forget
    <3>3. req'[r].phase = "forgetting" /\ req'[r].tenant \in Tenant /\ req'[r].box \in Box
      BY <1>0, <2>1, <3>2, CallFacts DEF Phase
    <3>4. CallsAreNamed'
      BY <1>0, <3>2, <3>3
    <3>5. new.by = r
      OBVIOUS
    <3>6. ForgetsAreAwaited'
      BY <1>0, <2>1, <3>1, <3>2, <3>3, <3>5
    <3> QED
      BY <3>4, <3>6
  <2>3. CASE held[req[r].tenant] # req[r].box
    <3>1. UNCHANGED dropping
      BY <1>5, <2>3 DEF Forget
    <3>2. req'[r] = Again(req[r]) /\ \A q \in Request \ {r} : req'[q] = req[q]
      BY <1>0, <1>5, <2>3 DEF Forget
    <3> QED
      BY <1>0, <2>1, <3>1, <3>2, CallFacts
  <2> QED
    BY <2>2, <2>3
<1>6. ASSUME NEW d \in dropping, DropRow(d)
      PROVE  CallsAreNamed' /\ ForgetsAreAwaited'
  <2>1. d \in Drop /\ [d EXCEPT !.step = "machine"].by = d.by
    BY <1>0 DEF Drop
  <2> QED
    BY <1>0, <1>6, <2>1 DEF DropRow
<1>7. ASSUME NEW r \in Request, Serving(r)
      PROVE  CallsAreNamed' /\ ForgetsAreAwaited'
  <2>1. CASE EnsureHeld(r)
    <3>1. held[req[r].tenant] \in Box
      BY <1>0, <2>1 DEF EnsureHeld, TypeOK, Boxes
    <3> QED
      BY <1>0, <2>1, <3>1, CallFacts DEF EnsureHeld
  <2>2. CASE EnsureShared(r) \/ \E b \in Box : EnsureCreates(r, b)
    <3>1. req'[r] = [req[r] EXCEPT !.phase = "sharing"] /\ \A q \in Request \ {r} : req'[q] = req[q]
      BY <1>0, <2>2 DEF EnsureShared, EnsureCreates
    <3>2. req[r].phase = "admitted" /\ UNCHANGED dropping
      BY <2>2 DEF EnsureShared, EnsureCreates
    <3>3. req'[r].phase = "sharing" /\ req'[r].tenant \in Tenant
      BY <1>0, <3>1, <3>2, CallFacts DEF Phase
    <3> QED
      BY <1>0, <3>1, <3>2, <3>3
  <2>3. CASE NoRoom(r) \/ Answers(r)
    BY <1>0, <2>3, CallFacts DEF NoRoom, Answers
  <2>4. CASE GiveUp(r)
    <3>1. /\ req'[r] = [req[r] EXCEPT !.phase = "probing"] \/ req'[r] = Idle
          /\ \A q \in Request \ {r} : req'[q] = req[q]
          /\ req[r].phase = "waiting" /\ UNCHANGED dropping
      BY <1>0, <2>4 DEF GiveUp
    <3>2. \/ req'[r].phase = "probing" /\ req'[r].tenant = req[r].tenant /\ req'[r].box = req[r].box
          \/ req'[r].phase = "idle"
      <4> DEFINE d == [req[r] EXCEPT !.phase = "probing"]
      <4>1. req[r] \in Call /\ "probing" \in Phase
        BY <1>0 DEF Phase
      <4>2. d.phase = "probing" /\ d.tenant = req[r].tenant /\ d.box = req[r].box
        BY <4>1, CallFacts
      <4> QED
        BY <3>1, <4>2, CallFacts
    <3>3. \A d \in dropping : d.by # r
      BY <1>0, <3>1
    <3>4. CallsAreNamed'
      BY <1>0, <3>1, <3>2
    <3>5. ForgetsAreAwaited'
      BY <1>0, <3>1, <3>3
    <3> QED
      BY <3>4, <3>5
  <2> HIDE DEF CallsAreNamed, ForgetsAreAwaited
  <2> QED
    BY <1>5, <1>7, <2>1, <2>2, <2>3, <2>4 DEF Serving
<1>8. ASSUME NEW u \in Tenant, Creation(u) \/ DiscardFails(u) \/ \E left \in BOOLEAN : StartFails(u, left)
      PROVE  CallsAreNamed' /\ ForgetsAreAwaited'
  <2>1. None \in Boxes /\ table[u] \in Boxes
    BY <1>0 DEF TypeOK, Boxes
  <2>2. CASE InsertWins(u)
    <3>1. making[u].box \in Boxes
      BY <1>0 DEF TypeOK, Making
    <3> QED
      BY <1>3, <2>2, <3>1 DEF InsertWins
  <2>3. CASE InsertFails(u) \/ \E left \in BOOLEAN : StartFails(u, left)
    BY <1>3, <2>1, <2>3 DEF InsertFails, StartFails
  <2>4. ASSUME NEW stale \in BOOLEAN, FindWinner(u, stale)
        PROVE  CallsAreNamed' /\ ForgetsAreAwaited'
    BY <1>3, <2>1, <2>4 DEF FindWinner
  <2>5. CASE MachineStarts(u) \/ InsertLoses(u) \/ Discard(u) \/ DiscardFails(u)
    BY <1>1, <2>5 DEF MachineStarts, InsertLoses, Discard, DiscardFails
  <2> QED
    BY <1>8, <2>2, <2>3, <2>4, <2>5 DEF Creation
<1>9. ASSUME NEW r \in Request, NEW u \in Tenant, NEW kind \in Kinds, Ask(r, u, kind)
      PROVE  CallsAreNamed' /\ ForgetsAreAwaited'
  <2>1. LET c == [Idle EXCEPT !.phase = "admitted", !.kind = kind, !.tenant = u]
        IN  c.phase = "admitted" /\ c.tenant = u
    BY DEF Idle
  <2> QED
    BY <1>0, <1>9, <2>1 DEF Ask
<1>10. ASSUME NEW u \in Tenant, NEW browsing \in BOOLEAN,
              Release(u) \/ Reap(u) \/ Suspend(u, browsing) \/ EraseAccount(u, browsing)
       PROVE  CallsAreNamed' /\ ForgetsAreAwaited'
  BY <1>1, <1>2, <1>10 DEF Release, Reap, Suspend, EraseAccount
<1>11. ASSUME NEW b \in Box, DialIn(b)
       PROVE  CallsAreNamed' /\ ForgetsAreAwaited'
  BY <1>0, <1>11, CallFacts DEF DialIn
<1>12. CASE Crash
  BY <1>12, CallFacts DEF Crash
<1>13. ASSUME NEW d \in dropping, DropRowFails(d) \/ DropMachine(d) \/ DropMachineFails(d)
       PROVE  CallsAreNamed' /\ ForgetsAreAwaited'
  BY <1>4, <1>13 DEF DropRowFails, DropMachine, DropMachineFails
<1>14. CASE UNCHANGED vars
  BY <1>1, <1>14 DEF vars
<1>15. CASE BootBlindly \/ Adopting \/ \E b \in Box : MachineDies(b) \/ RemoveOrphanFails(b)
  BY <1>1, <1>15 DEF BootBlindly, BootWith, Adopting, Boot, Listen, AdoptRow, RemoveOrphan, MachineDies,
     RemoveOrphanFails
<1>16. CASE \/ \E u \in Tenant : Age(u) \/ AccessExpires(u) \/ DeleteAccount(u)
            \/ \E b \in Box : TunnelCloses(b) \/ \E work \in {"idle", "busy"} : Reports(b, work)
  BY <1>1, <1>16 DEF Age, AccessExpires, DeleteAccount, TunnelCloses, Reports
<1> QED
  BY <1>6, <1>7, <1>8, <1>9, <1>10, <1>11, <1>12, <1>13, <1>14, <1>15, <1>16
     DEF Next, Dropping, Outside, Clocks, Failing

LEMMA ServingPreserved == IInv /\ [Next]_vars => OnlyServingServes'
<1> SUFFICES ASSUME IInv, [Next]_vars, up' # "up"
             PROVE  \A r \in Request : req'[r].phase = "idle"
  BY DEF OnlyServingServes
<1>0. TypeOK /\ OnlyServingServes /\ OnlyServingMakes /\ ForgetsAreAwaited
  BY DEF IInv, Registered
<1>1. CASE up = "up"
  <2>1. Crash
    BY <1>1 DEF Next, vars, Creation, MachineStarts, InsertWins, InsertLoses, InsertFails, Discard, FindWinner,
       Serving, EnsureHeld, EnsureShared, NoRoom, EnsureCreates, GiveUp, Answers, Forget, Dropping, DropRow,
       DropMachine, Adopting, Boot, BootWith, Listen, AdoptRow, RemoveOrphan, Outside, Ask, Release, Suspend,
       EraseAccount, DialIn, TunnelCloses, Reports, Clocks, Reap, Age, AccessExpires, DeleteAccount, Failing,
       BootBlindly, StartFails, DiscardFails, DropRowFails, DropMachineFails, MachineDies, RemoveOrphanFails
  <2> QED
    BY <2>1, CallFacts DEF Crash
<1>2. CASE up # "up"
  <2>1. \A r \in Request : req[r].phase = "idle"
    BY <1>0, <1>2 DEF OnlyServingServes
  <2>2. ASSUME NEW u \in Tenant, Creation(u) \/ DiscardFails(u) \/ \E left \in BOOLEAN : StartFails(u, left)
        PROVE  FALSE
    <3>1. making[u].step # "none"
      BY <2>2 DEF Creation, MachineStarts, InsertWins, InsertLoses, InsertFails, Discard, FindWinner, Step,
         DiscardFails, StartFails
    <3> QED
      BY <1>0, <1>2, <3>1 DEF OnlyServingMakes, NotMaking
  <2>3. ASSUME NEW r \in Request, Serving(r)
        PROVE  FALSE
    BY <2>1, <2>3 DEF Serving, EnsureHeld, EnsureShared, NoRoom, EnsureCreates, GiveUp, Answers, Forget
  <2>4. ASSUME NEW d \in dropping, NEW deleted \in BOOLEAN, Continue(d, deleted)
        PROVE  \A r \in Request : req'[r] = req[r]
    BY <1>0, <2>1, <2>4 DEF Continue, ForgetsAreAwaited
  <2>5. ASSUME NEW d \in dropping, DropRow(d) \/ DropRowFails(d) \/ DropMachine(d) \/ DropMachineFails(d)
        PROVE  \A r \in Request : req'[r] = req[r]
    BY <2>4, <2>5 DEF DropRow, DropRowFails, DropMachine, DropMachineFails
  <2>6. CASE Outside
    BY <1>2, <2>1, <2>6 DEF Outside, Ask, Release, Suspend, EraseAccount, DialIn, TunnelCloses, Reports
  <2>7. CASE Clocks \/ Adopting
    BY <2>1, <2>7 DEF Clocks, Reap, Age, AccessExpires, DeleteAccount, Adopting, Boot, BootWith, Listen, AdoptRow,
       RemoveOrphan
  <2>8. CASE Crash \/ BootBlindly \/ \E b \in Box : MachineDies(b) \/ RemoveOrphanFails(b)
    BY <2>1, <2>8, CallFacts DEF Crash, BootBlindly, BootWith, MachineDies, RemoveOrphanFails
  <2> QED
    BY <2>1, <2>2, <2>3, <2>5, <2>6, <2>7, <2>8 DEF Next, vars, Dropping, Failing
<1> QED
  BY <1>1, <1>2

-----------------------------------------------------------------------------
(***************************************************************************)
(* The registry.  A step that touches none of what it is about keeps it.   *)
(***************************************************************************)
core == <<up, boot, table, held, making, dropping, machine, stranded>>

LEMMA CoreFrame ==
  ASSUME IInv, UNCHANGED core
  PROVE  Registered'
BY DEF IInv, core, Registered, DownIsBlank, OnlyServingMakes, MakingIsPrivate, MakingsDiffer, RowsDiffer,
   RowsAreBacked, AdoptingIsFirst, StraysAreListed, MachinesAreAccountedFor, Known, Recorded, Held, Made,
   Dropped, Running

(***************************************************************************)
(* A record that goes into a release under way stays accounted for.        *)
(***************************************************************************)
LEMMA EraseKeepsRegistered ==
  ASSUME IInv, NEW u \in Tenant, held[u] # None, up # "down", NEW by, Erase(u, by),
         UNCHANGED <<up, boot, table, making, machine, stranded>>
  PROVE  Registered'
<1> USE DEF Erase
<1>0. /\ TypeOK /\ Registered
      /\ held \in [Tenant -> Boxes] /\ making \in [Tenant -> Making]
  BY DEF IInv, TypeOK
<1> DEFINE d == [tenant |-> u, box |-> held[u], step |-> "row", by |-> by]
<1>1. dropping' = dropping \cup {d} /\ d.box = held[u] /\ d.tenant = u
  OBVIOUS
<1>2. \A b : Dropped(b)' <=> Dropped(b) \/ b = held[u]
  BY <1>1 DEF Dropped
<1>3. \A v \in Tenant : held'[v] = IF v = u THEN None ELSE held[v]
  BY <1>0
<1>4. \A b \in Box : Held(b) => Held(b)' \/ b = held[u]
  BY <1>3 DEF Held
<1>5. \A b \in Box : Held(b)' => Held(b)
  BY <1>3, SandboxesAssumption DEF Held
<1>6. \A b \in Box : Known(b) => Known(b)'
  BY <1>2, <1>4 DEF Known, Recorded, Made
<1>7. DownIsBlank' /\ OnlyServingMakes' /\ MakingsDiffer' /\ RowsDiffer'
  BY <1>0 DEF Registered, DownIsBlank, OnlyServingMakes, MakingsDiffer, RowsDiffer
<1>8. MakingIsPrivate'
  <2> SUFFICES ASSUME NEW v \in Tenant, making[v] # NotMaking
               PROVE  LET b == making[v].box IN
                      /\ b \in Box /\ making[v].step # "none"
                      /\ held'[v] = None
                      /\ ~Recorded(b) /\ ~Held(b)' /\ ~Dropped(b)'
                      /\ making[v].step = "starting" => b \notin Running
                      /\ making[v].step = "looking" /\ b \in Running => b \in stranded
    BY DEF MakingIsPrivate, Recorded, Running
  <2>1. LET b == making[v].box IN
        /\ b \in Box /\ making[v].step # "none" /\ held[v] = None
        /\ ~Recorded(b) /\ ~Held(b) /\ ~Dropped(b)
        /\ making[v].step = "starting" => b \notin Running
        /\ making[v].step = "looking" /\ b \in Running => b \in stranded
    BY <1>0 DEF Registered, MakingIsPrivate
  <2>2. held[u] # making[v].box
    BY <2>1 DEF Held
  <2> QED
    BY <1>2, <1>3, <1>5, <2>1, <2>2
<1>9. RowsAreBacked'
  BY <1>0, <1>2, <1>3 DEF Registered, RowsAreBacked, Running
<1>10. AdoptingIsFirst'
  BY <1>0, <1>1, <1>3 DEF Registered, AdoptingIsFirst
<1>11. StraysAreListed' /\ MachinesAreAccountedFor'
  BY <1>0, <1>6 DEF Registered, StraysAreListed, MachinesAreAccountedFor, Running
<1> QED
  BY <1>7, <1>8, <1>9, <1>10, <1>11 DEF Registered

(***************************************************************************)
(* A creation goes on, or ends without a row: what it may change is        *)
(* whether its own machine runs, and only towards more stranded machines.  *)
(***************************************************************************)
LEMMA CreationKeepsRegistered ==
  ASSUME IInv, NEW u \in Tenant, making[u] # NotMaking,
         NEW m \in Making, making' = [making EXCEPT ![u] = m],
         m = NotMaking \/ (m.box = making[u].box /\ m.step \notin {"none", "starting"}),
         Running' \subseteq Running \cup {making[u].box},
         stranded \subseteq stranded',
         making[u].box \in Running' /\ m.step \in {"none", "looking"} => making[u].box \in stranded',
         UNCHANGED <<up, boot, table, held, dropping>>
  PROVE  Registered'
<1> DEFINE box == making[u].box
<1>0. /\ TypeOK /\ Registered
      /\ held \in [Tenant -> Boxes] /\ making \in [Tenant -> Making]
  BY DEF IInv, TypeOK
<1>1. up = "up" /\ up' = "up"
  BY <1>0 DEF Registered, OnlyServingMakes, TypeOK
<1>2. box \in Box /\ ~Recorded(box) /\ held[u] = None
  BY <1>0 DEF Registered, MakingIsPrivate
<1>3. \A v \in Tenant : making'[v] = IF v = u THEN m ELSE making[v]
  BY <1>0
<1>4. \A v \in Tenant : v # u /\ making[v] # NotMaking => making[v].box # box
  BY <1>0 DEF Registered, MakingsDiffer
<1>5. NotMaking.step = "none" /\ NotMaking.box = None
  BY DEF NotMaking
<1>6. DownIsBlank' /\ OnlyServingMakes' /\ RowsDiffer' /\ AdoptingIsFirst' /\ StraysAreListed'
  BY <1>0, <1>1 DEF Registered, DownIsBlank, OnlyServingMakes, RowsDiffer, AdoptingIsFirst, StraysAreListed
<1>7. MakingsDiffer'
  <2>1. \A v \in Tenant : making'[v] # NotMaking => making[v] # NotMaking /\ making'[v].box = making[v].box
    BY <1>3
  <2>2. \A v \in Tenant : making'[v] = NotMaking \/ making'[v].box = making[v].box
    BY <1>3
  <2>3. \A v \in Tenant : making[v] # NotMaking => making[v].box # None
    BY <1>0, SandboxesAssumption DEF Registered, MakingIsPrivate
  <2>4. MakingsDiffer
    BY <1>0 DEF Registered
  <2> QED
    BY <1>5, <2>1, <2>2, <2>3, <2>4 DEF MakingsDiffer
<1>8. MakingIsPrivate'
  <2> SUFFICES ASSUME NEW v \in Tenant, making'[v] # NotMaking
               PROVE  LET b == making'[v].box IN
                      /\ b \in Box /\ making'[v].step # "none"
                      /\ held[v] = None
                      /\ ~Recorded(b) /\ ~Held(b) /\ ~Dropped(b)
                      /\ making'[v].step = "starting" => b \notin Running'
                      /\ making'[v].step = "looking" /\ b \in Running' => b \in stranded'
    BY DEF MakingIsPrivate, Recorded, Held, Dropped
  <2>1. making[v] # NotMaking /\ making'[v].box = making[v].box
    BY <1>3
  <2>2. LET b == making[v].box IN
        /\ b \in Box /\ making[v].step # "none" /\ held[v] = None
        /\ ~Recorded(b) /\ ~Held(b) /\ ~Dropped(b)
        /\ making[v].step = "starting" => b \notin Running
        /\ making[v].step = "looking" /\ b \in Running => b \in stranded
    BY <1>0, <2>1 DEF Registered, MakingIsPrivate
  <2>3. CASE v = u
    BY <1>3, <2>1, <2>2, <2>3
  <2>4. CASE v # u
    BY <1>3, <1>4, <2>1, <2>2, <2>4
  <2> QED
    BY <2>3, <2>4
<1>9. RowsAreBacked'
  <2> SUFFICES ASSUME NEW v \in Tenant, table[v] \in Running'
               PROVE  held[v] = table[v] \/ Dropped(table[v]) \/ table[v] \in stranded'
    BY DEF RowsAreBacked, Dropped
  <2>1. table[v] \in Running
    BY <1>2 DEF Recorded
  <2> QED
    BY <1>0, <1>1, <2>1 DEF Registered, RowsAreBacked
<1>10. MachinesAreAccountedFor'
  <2> SUFFICES ASSUME NEW b \in Running'
               PROVE  Recorded(b) \/ Held(b) \/ Made(b)' \/ Dropped(b) \/ b \in stranded'
    BY DEF MachinesAreAccountedFor, Known, Recorded, Held, Dropped
  <2>1. CASE b = box
    BY <1>3, <1>5, <2>1 DEF Made
  <2>2. CASE b # box
    <3>1. Known(b)
      BY <1>0, <1>1, <2>2 DEF Registered, MachinesAreAccountedFor
    <3>2. Made(b) => Made(b)'
      BY <1>3, <2>2 DEF Made
    <3> QED
      BY <3>1, <3>2 DEF Known
  <2> QED
    BY <2>1, <2>2
<1> QED
  BY <1>6, <1>7, <1>8, <1>9, <1>10 DEF Registered

LEMMA EnsureCreatesRegistered ==
  ASSUME IInv, NEW r \in Request, NEW c \in Box, EnsureCreates(r, c)
  PROVE  Registered'
<1> DEFINE u == req[r].tenant
<1>0. /\ TypeOK /\ Registered
      /\ making \in [Tenant -> Making] /\ u \in Tenant
  BY DEF IInv, TypeOK, EnsureCreates, CallsAreNamed
<1>1. \A v \in Tenant : making'[v] = IF v = u THEN [box |-> c, step |-> "starting"] ELSE making[v]
  BY <1>0 DEF EnsureCreates
<1>2. /\ making[u] = NotMaking /\ held[u] = None /\ Unused(c)
      /\ UNCHANGED <<up, boot, table, held, dropping, machine, stranded>>
  BY DEF EnsureCreates, registry, world
<1>3. c \notin Running /\ ~Recorded(c) /\ ~Held(c) /\ ~Made(c) /\ ~Dropped(c)
  BY <1>2 DEF Unused
<1>4. [box |-> c, step |-> "starting"].box = c /\ [box |-> c, step |-> "starting"].step = "starting"
  OBVIOUS
<1>5. DownIsBlank' /\ RowsDiffer' /\ AdoptingIsFirst' /\ RowsAreBacked'
  BY <1>0, <1>2 DEF Registered, DownIsBlank, RowsDiffer, AdoptingIsFirst, RowsAreBacked, Running, Dropped
<1>6. OnlyServingMakes'
  BY <1>2 DEF EnsureCreates, IInv, OnlyServingServes, OnlyServingMakes
<1>7. MakingsDiffer'
  BY <1>0, <1>1, <1>3, <1>4 DEF Registered, MakingsDiffer, Made
<1>8. MakingIsPrivate'
  BY <1>0, <1>1, <1>2, <1>3, <1>4 DEF Registered, MakingIsPrivate, Recorded, Held, Dropped, Running
<1>9. \A b \in Box : Known(b) => Known(b)'
  BY <1>1, <1>2, SandboxesAssumption DEF Known, Recorded, Held, Dropped, Made, NotMaking
<1>10. StraysAreListed' /\ MachinesAreAccountedFor'
  BY <1>0, <1>2, <1>9 DEF Registered, StraysAreListed, MachinesAreAccountedFor, Running
<1> QED
  BY <1>5, <1>6, <1>7, <1>8, <1>10 DEF Registered

(***************************************************************************)
(* The winner's row and its record name the machine it has just made.      *)
(***************************************************************************)
LEMMA InsertWinsRegistered ==
  ASSUME IInv, NEW u \in Tenant, InsertWins(u)
  PROVE  Registered'
<1> DEFINE box == making[u].box
<1>0. /\ TypeOK /\ Registered
      /\ table \in [Tenant -> Boxes] /\ held \in [Tenant -> Boxes] /\ making \in [Tenant -> Making]
  BY DEF IInv, TypeOK
<1>1. making[u] # NotMaking /\ NotMaking.step = "none" /\ NotMaking.box = None
  BY DEF InsertWins, Step, NotMaking
<1>2. /\ table[u] = None
      /\ \A v \in Tenant : /\ table'[v] = IF v = u THEN box ELSE table[v]
                           /\ held'[v] = IF v = u THEN box ELSE held[v]
                           /\ making'[v] = IF v = u THEN NotMaking ELSE making[v]
      /\ stranded' = stranded \ {box}
      /\ UNCHANGED <<up, boot, dropping, machine>>
  BY <1>0 DEF InsertWins, Remember, Settle, world
<1>3. up = "up" /\ held[u] = None /\ box \in Box /\ box # None /\ ~Recorded(box) /\ ~Held(box) /\ ~Dropped(box)
  BY <1>0, <1>1, SandboxesAssumption DEF Registered, OnlyServingMakes, MakingIsPrivate
<1>4. \A v \in Tenant : v # u /\ making[v] # NotMaking => making[v].box # box
  BY <1>0, <1>1 DEF Registered, MakingsDiffer
<1>5. DownIsBlank' /\ OnlyServingMakes' /\ AdoptingIsFirst' /\ StraysAreListed'
  BY <1>2, <1>3 DEF DownIsBlank, OnlyServingMakes, AdoptingIsFirst, StraysAreListed
<1>6. MakingsDiffer'
  BY <1>0, <1>1, <1>2, SandboxesAssumption DEF Registered, MakingsDiffer, MakingIsPrivate
<1>7. RowsDiffer'
  BY <1>0, <1>2, <1>3 DEF Registered, RowsDiffer, Recorded
<1>8. MakingIsPrivate'
  <2>1. ASSUME NEW v \in Tenant, NEW b, making'[v] # NotMaking, b = making'[v].box
        PROVE  /\ b \in Box /\ making'[v].step # "none"
               /\ held'[v] = None
               /\ ~Recorded(b)' /\ ~Held(b)' /\ ~Dropped(b)'
               /\ making'[v].step = "starting" => b \notin Running'
               /\ making'[v].step = "looking" /\ b \in Running' => b \in stranded'
    <3>1. v # u /\ making'[v] = making[v] /\ b # box
      BY <1>2, <1>4, <2>1
    <3>2. /\ b \in Box /\ making[v].step # "none" /\ held[v] = None
          /\ ~Recorded(b) /\ ~Held(b) /\ ~Dropped(b)
          /\ making[v].step = "starting" => b \notin Running
          /\ making[v].step = "looking" /\ b \in Running => b \in stranded
      BY <1>0, <2>1, <3>1 DEF Registered, MakingIsPrivate
    <3>3. ~Recorded(b)' /\ ~Held(b)' /\ ~Dropped(b)' /\ Running' = Running
      BY <1>2, <3>1, <3>2 DEF Recorded, Held, Dropped, Running
    <3> QED
      BY <1>2, <3>1, <3>2, <3>3
  <2> QED
    BY <2>1 DEF MakingIsPrivate
<1>9. RowsAreBacked'
  BY <1>0, <1>2, <1>3 DEF Registered, RowsAreBacked, Running, Dropped, Recorded
<1>10. \A b \in Box : Known(b) => Known(b)'
  BY <1>2, <1>3, SandboxesAssumption DEF Known, Recorded, Held, Dropped, Made
<1>11. MachinesAreAccountedFor'
  BY <1>0, <1>2, <1>10 DEF Registered, MachinesAreAccountedFor, Running
<1> QED
  BY <1>5, <1>6, <1>7, <1>8, <1>9, <1>11 DEF Registered

(***************************************************************************)
(* The loser's record names the row it found.                              *)
(***************************************************************************)
LEMMA FindWinnerRegistered ==
  ASSUME IInv, NEW u \in Tenant, NEW stale \in BOOLEAN, FindWinner(u, stale), table[u] # None
  PROVE  Registered'
<1> DEFINE box == making[u].box
           won == table[u]
<1>0. /\ TypeOK /\ Registered
      /\ table \in [Tenant -> Boxes] /\ held \in [Tenant -> Boxes] /\ making \in [Tenant -> Making]
  BY DEF IInv, TypeOK
<1>1. making[u] # NotMaking /\ making[u].step = "looking" /\ NotMaking.step = "none" /\ NotMaking.box = None
  BY DEF FindWinner, Step, NotMaking
<1>2. /\ \A v \in Tenant : /\ held'[v] = IF v = u THEN won ELSE held[v]
                           /\ making'[v] = IF v = u THEN NotMaking ELSE making[v]
      /\ stranded' = stranded \ {won}
      /\ UNCHANGED <<up, boot, table, dropping, machine>>
  BY <1>0 DEF FindWinner, Remember, Settle, world
<1>3. /\ up = "up" /\ box \in Box /\ ~Recorded(box) /\ held[u] = None
      /\ won \in Box /\ won # box /\ won # None /\ Recorded(won)
      /\ box \in Running => box \in stranded
  BY <1>0, <1>1 DEF Registered, OnlyServingMakes, MakingIsPrivate, Recorded, Boxes
<1>5. DownIsBlank' /\ OnlyServingMakes' /\ AdoptingIsFirst' /\ StraysAreListed' /\ RowsDiffer'
  BY <1>0, <1>2, <1>3 DEF Registered, DownIsBlank, OnlyServingMakes, AdoptingIsFirst, StraysAreListed, RowsDiffer
<1>6. MakingsDiffer'
  BY <1>0, <1>1, <1>2, SandboxesAssumption DEF Registered, MakingsDiffer, MakingIsPrivate
<1>8. MakingIsPrivate'
  <2>1. ASSUME NEW v \in Tenant, NEW b, making'[v] # NotMaking, b = making'[v].box
        PROVE  /\ b \in Box /\ making'[v].step # "none"
               /\ held'[v] = None
               /\ ~Recorded(b)' /\ ~Held(b)' /\ ~Dropped(b)'
               /\ making'[v].step = "starting" => b \notin Running'
               /\ making'[v].step = "looking" /\ b \in Running' => b \in stranded'
    <3>1. v # u /\ making'[v] = making[v]
      BY <1>2, <2>1
    <3>2. /\ b \in Box /\ making[v].step # "none" /\ held[v] = None
          /\ ~Recorded(b) /\ ~Held(b) /\ ~Dropped(b)
          /\ making[v].step = "starting" => b \notin Running
          /\ making[v].step = "looking" /\ b \in Running => b \in stranded
      BY <1>0, <2>1, <3>1 DEF Registered, MakingIsPrivate
    <3>3. b # won
      BY <1>3, <3>2
    <3>4. ~Recorded(b)' /\ ~Held(b)' /\ ~Dropped(b)' /\ Running' = Running
      BY <1>2, <3>2, <3>3 DEF Recorded, Held, Dropped, Running
    <3> QED
      BY <1>2, <3>1, <3>2, <3>3, <3>4
  <2> QED
    BY <2>1 DEF MakingIsPrivate
<1>9. RowsAreBacked'
  BY <1>0, <1>2, <1>3 DEF Registered, RowsAreBacked, RowsDiffer, Running, Dropped
<1>10. \A b \in Running : Known(b) => Known(b)'
  <2> SUFFICES ASSUME NEW b \in Running, Known(b)
               PROVE  Recorded(b) \/ Held(b)' \/ Made(b)' \/ Dropped(b) \/ b \in stranded'
    BY <1>2 DEF Known, Recorded, Dropped
  <2>1. CASE b = box
    BY <1>2, <1>3, <2>1
  <2>2. CASE b # box
    <3>1. Made(b) => Made(b)'
      BY <1>2, <2>2 DEF Made
    <3>2. Held(b) => Held(b)'
      BY <1>2, <1>3, SandboxesAssumption DEF Held, Running
    <3> QED
      BY <1>2, <1>3, <3>1, <3>2 DEF Known
  <2> QED
    BY <2>1, <2>2
<1>11. MachinesAreAccountedFor'
  BY <1>0, <1>2, <1>10 DEF Registered, MachinesAreAccountedFor, Running
<1> QED
  BY <1>5, <1>6, <1>8, <1>9, <1>11 DEF Registered

(***************************************************************************)
(* A release under way: its row goes while it is still there to answer for *)
(* the machine.                                                            *)
(***************************************************************************)
LEMMA DropRowRegistered ==
  ASSUME IInv, NEW d \in dropping, DropRow(d)
  PROVE  Registered'
<1> DEFINE e == [d EXCEPT !.step = "machine"]
<1>0. /\ TypeOK /\ Registered /\ table \in [Tenant -> Boxes] /\ d \in Drop
      /\ e.box = d.box /\ e.tenant = d.tenant
  BY DEF IInv, TypeOK, Drop
<1>1. /\ dropping' = (dropping \ {d}) \cup {e}
      /\ \A v \in Tenant : table'[v] = table[v] \/ (table[v] = d.box /\ table'[v] = None)
      /\ UNCHANGED <<up, boot, held, making, machine, stranded>>
  BY <1>0 DEF DropRow, world
<1>2. \A b : Dropped(b)' <=> Dropped(b)
  BY <1>0, <1>1 DEF Dropped
<1>3. \A b \in Box : (Recorded(b)' => Recorded(b)) /\ (Recorded(b) => Recorded(b)' \/ Dropped(b)')
  BY <1>0, <1>1, <1>2, SandboxesAssumption DEF Recorded, Dropped
<1>4. \A b \in Box : Known(b) => Known(b)'
  BY <1>1, <1>2, <1>3 DEF Known, Held, Made
<1>5. DownIsBlank' /\ OnlyServingMakes' /\ MakingsDiffer'
  BY <1>0, <1>1 DEF Registered, DownIsBlank, OnlyServingMakes, MakingsDiffer
<1>6. RowsDiffer' /\ RowsAreBacked'
  BY <1>0, <1>1, <1>2, SandboxesAssumption DEF Registered, RowsDiffer, RowsAreBacked, Running
<1>7. AdoptingIsFirst'
  <2>1. ASSUME NEW v \in Tenant, up = "adopting", boot.rows[v] # None
        PROVE  table'[v] = boot.rows[v] /\ held[v] = None /\ \A f \in dropping' : f.tenant # v
    <3>1. table[v] = boot.rows[v] /\ held[v] = None /\ \A f \in dropping : f.tenant # v
      BY <1>0, <2>1 DEF Registered, AdoptingIsFirst
    <3>2. table'[v] = table[v]
      BY <1>0, <3>1 DEF DropRow
    <3> QED
      BY <1>0, <1>1, <3>1, <3>2
  <2> QED
    BY <1>1, <2>1 DEF AdoptingIsFirst
<1>8. MakingIsPrivate'
  BY <1>0, <1>1, <1>2, <1>3 DEF Registered, MakingIsPrivate, Held, Running
<1>9. StraysAreListed' /\ MachinesAreAccountedFor'
  BY <1>0, <1>1, <1>4 DEF Registered, StraysAreListed, MachinesAreAccountedFor, Running
<1> QED
  BY <1>5, <1>6, <1>7, <1>8, <1>9 DEF Registered

(***************************************************************************)
(* It ends with the machine gone, or left behind by the call that failed.  *)
(***************************************************************************)
LEMMA DropEndsRegistered ==
  ASSUME IInv, NEW d \in dropping, dropping' = dropping \ {d},
         Running' = Running \ {d.box} \/ Running' = Running,
         \A b \in Running' : b \in stranded \/ b = d.box => b \in stranded',
         UNCHANGED <<up, boot, table, held, making>>
  PROVE  Registered'
<1>0. TypeOK /\ Registered /\ d \in Drop /\ d.box \in Box
  BY DEF IInv, TypeOK, Drop
<1>1. \A b : (Dropped(b)' => Dropped(b)) /\ (Dropped(b) => Dropped(b)' \/ b = d.box)
  BY DEF Dropped
<1>2. \A b \in Running' : b \in Running /\ (Known(b) => Known(b)')
  BY <1>1 DEF Known, Recorded, Held, Made, Running
<1>3. DownIsBlank' /\ OnlyServingMakes' /\ MakingsDiffer' /\ RowsDiffer' /\ AdoptingIsFirst'
  BY <1>0 DEF Registered, DownIsBlank, OnlyServingMakes, MakingsDiffer, RowsDiffer, AdoptingIsFirst
<1>4. RowsAreBacked'
  BY <1>0, <1>1, <1>2 DEF Registered, RowsAreBacked
<1>5. MakingIsPrivate'
  BY <1>0, <1>1, <1>2 DEF Registered, MakingIsPrivate, Recorded, Held
<1>6. StraysAreListed' /\ MachinesAreAccountedFor'
  BY <1>0, <1>2 DEF Registered, StraysAreListed, MachinesAreAccountedFor
<1> QED
  BY <1>3, <1>4, <1>5, <1>6 DEF Registered

(***************************************************************************)
(* A machine goes by itself, or as an orphan adopt removes.                *)
(***************************************************************************)
LEMMA GoneRegistered ==
  ASSUME IInv, NEW c \in Box, Running' = Running \ {c}, stranded' = stranded \ {c},
         up' = up, boot'.rows = boot.rows, boot'.known = boot.known,
         boot'.handles = boot.handles \/ boot'.handles = boot.handles \ {c},
         UNCHANGED <<table, held, making, dropping>>
  PROVE  Registered'
<1>0. TypeOK /\ Registered
  BY DEF IInv
<1>1. \A b \in Running' : b \in Running /\ (Known(b) => Known(b)')
  BY DEF Known, Recorded, Held, Made, Dropped
<1>2. DownIsBlank' /\ OnlyServingMakes' /\ MakingsDiffer' /\ RowsDiffer' /\ AdoptingIsFirst'
  BY <1>0 DEF Registered, DownIsBlank, OnlyServingMakes, MakingsDiffer, RowsDiffer, AdoptingIsFirst
<1>3. RowsAreBacked'
  BY <1>0, <1>1 DEF Registered, RowsAreBacked, Dropped
<1>4. MakingIsPrivate'
  BY <1>0, <1>1 DEF Registered, MakingIsPrivate, Recorded, Held, Dropped
<1>5. StraysAreListed' /\ MachinesAreAccountedFor'
  BY <1>0, <1>1 DEF Registered, StraysAreListed, MachinesAreAccountedFor
<1> QED
  BY <1>2, <1>3, <1>4, <1>5 DEF Registered

(***************************************************************************)
(* The cascade takes a row that something else answers for.                *)
(***************************************************************************)
LEMMA DeleteAccountRegistered ==
  ASSUME IInv, NEW u \in Tenant, DeleteAccount(u)
  PROVE  Registered'
<1>0. TypeOK /\ Registered /\ table \in [Tenant -> Boxes]
  BY DEF IInv, TypeOK
<1>1. /\ up = "up"
      /\ \A v \in Tenant : table'[v] = IF v = u THEN None ELSE table[v]
      /\ UNCHANGED <<up, boot, held, making, dropping, machine, stranded>>
  BY <1>0 DEF DeleteAccount, world
<1>2. \A b \in Box : Recorded(b)' => Recorded(b)
  BY <1>1, SandboxesAssumption DEF Recorded
<1>3. \A b \in Running : Recorded(b) => Recorded(b)' \/ Held(b) \/ Dropped(b) \/ b \in stranded
  BY <1>0, <1>1 DEF Registered, RowsAreBacked, Recorded, Held
<1>4. DownIsBlank' /\ OnlyServingMakes' /\ MakingsDiffer' /\ RowsDiffer' /\ AdoptingIsFirst' /\ StraysAreListed'
  BY <1>0, <1>1 DEF Registered, DownIsBlank, OnlyServingMakes, MakingsDiffer, RowsDiffer, AdoptingIsFirst,
     StraysAreListed
<1>5. RowsAreBacked'
  BY <1>0, <1>1, SandboxesAssumption DEF Registered, RowsAreBacked, Dropped, Running
<1>6. MakingIsPrivate'
  BY <1>0, <1>1, <1>2 DEF Registered, MakingIsPrivate, Held, Dropped, Running
<1>7. MachinesAreAccountedFor'
  BY <1>0, <1>1, <1>3 DEF Registered, MachinesAreAccountedFor, Known, Held, Dropped, Made, Running
<1> QED
  BY <1>4, <1>5, <1>6, <1>7 DEF Registered

-----------------------------------------------------------------------------
(***************************************************************************)
(* Adoption: rows first, then the machines in no row that was read.        *)
(***************************************************************************)
LEMMA CrashRegistered ==
  ASSUME IInv, Crash
  PROVE  Registered'
<1>0. /\ Registered /\ up' = "down" /\ dropping' = {} /\ UNCHANGED table
      /\ \A u \in Tenant : held'[u] = None /\ making'[u] = NotMaking
  BY DEF IInv, Crash
<1> QED
  BY <1>0 DEF Registered, DownIsBlank, OnlyServingMakes, MakingIsPrivate, MakingsDiffer, RowsDiffer, RowsAreBacked,
     AdoptingIsFirst, StraysAreListed, MachinesAreAccountedFor

LEMMA BootRegistered ==
  ASSUME IInv, Boot \/ BootBlindly
  PROVE  Registered'
<1>0. Registered /\ TypeOK
  BY DEF IInv
<1>1. /\ up = "down" /\ up' = "adopting"
      /\ boot'.rows = table /\ boot'.known = {table[u] : u \in Tenant} \ {None}
      /\ UNCHANGED <<table, held, making, dropping, machine>>
      /\ \/ boot'.handles = Running /\ stranded' = stranded
         \/ stranded' = stranded \cup {b \in Running : ~Recorded(b)}
  BY DEF Boot, BootBlindly, BootWith, registry, world
<1>2. \A u \in Tenant : held[u] = None /\ making[u] = NotMaking /\ \A d \in dropping : d.tenant # u
  BY <1>0, <1>1 DEF Registered, DownIsBlank, OnlyServingMakes
<1>3. /\ DownIsBlank' /\ OnlyServingMakes' /\ MakingIsPrivate' /\ MakingsDiffer' /\ RowsDiffer'
      /\ MachinesAreAccountedFor'
  BY <1>0, <1>1, <1>2 DEF Registered, DownIsBlank, OnlyServingMakes, MakingIsPrivate, MakingsDiffer, RowsDiffer,
     MachinesAreAccountedFor
<1>4. RowsAreBacked' /\ AdoptingIsFirst'
  BY <1>1, <1>2 DEF RowsAreBacked, AdoptingIsFirst
<1>5. StraysAreListed'
  <2> SUFFICES ASSUME NEW b \in Running
               PROVE  Recorded(b) \/ b \in stranded' \/ b \in boot'.handles \ boot'.known
    BY <1>1 DEF StraysAreListed, Known, Recorded, Running
  <2> QED
    BY <1>1 DEF Recorded
<1> QED
  BY <1>3, <1>4, <1>5 DEF Registered

LEMMA AdoptRowRegistered ==
  ASSUME IInv, NEW u \in Tenant, NEW stale \in BOOLEAN, AdoptRow(u, stale)
  PROVE  Registered'
<1> DEFINE c == boot.rows[u]
<1>0. /\ TypeOK /\ Registered
      /\ table \in [Tenant -> Boxes] /\ held \in [Tenant -> Boxes] /\ boot.rows \in [Tenant -> Boxes]
  BY DEF IInv, TypeOK
<1>1. /\ up = "adopting" /\ up' = "adopting" /\ c # None
      /\ \A v \in Tenant : boot'.rows[v] = IF v = u THEN None ELSE boot.rows[v]
      /\ boot'.handles = boot.handles /\ boot'.known = boot.known
      /\ UNCHANGED <<making, dropping, machine>>
  BY <1>0 DEF AdoptRow, TypeOK, world
<1>2. /\ table[u] = c /\ held[u] = None /\ \A d \in dropping : d.tenant # u
      /\ \A v \in Tenant : making[v] = NotMaking
  BY <1>0, <1>1 DEF Registered, AdoptingIsFirst, OnlyServingMakes
<1>3. \A v \in Tenant : v # u => table[v] # c
  BY <1>0, <1>1, <1>2 DEF Registered, RowsDiffer
<1>4. DownIsBlank' /\ OnlyServingMakes' /\ MakingIsPrivate' /\ MakingsDiffer' /\ MachinesAreAccountedFor'
  BY <1>0, <1>1, <1>2 DEF Registered, DownIsBlank, OnlyServingMakes, MakingIsPrivate, MakingsDiffer,
     MachinesAreAccountedFor
<1>5. CASE c \in boot.handles
  <2>1. /\ \A v \in Tenant : held'[v] = IF v = u THEN c ELSE held[v]
        /\ stranded' = stranded \ {c} /\ UNCHANGED table
    BY <1>0, <1>5 DEF AdoptRow, Remember
  <2>2. RowsDiffer' /\ AdoptingIsFirst'
    BY <1>0, <1>1, <1>2, <2>1 DEF Registered, RowsDiffer, AdoptingIsFirst
  <2>3. RowsAreBacked'
    <3> SUFFICES ASSUME NEW v \in Tenant, table[v] \in Running
                 PROVE  \/ held'[v] = table[v] \/ Dropped(table[v]) \/ table[v] \in stranded'
                        \/ boot'.rows[v] = table[v]
      BY <1>1, <2>1 DEF RowsAreBacked, Running, Dropped
    <3> QED
      BY <1>0, <1>1, <1>2, <1>3, <2>1 DEF Registered, RowsAreBacked
  <2>4. \A b \in Box : Known(b) => Known(b)'
    BY <1>1, <1>2, <2>1, SandboxesAssumption DEF Known, Recorded, Held, Made, Dropped
  <2>5. StraysAreListed'
    BY <1>0, <1>1, <2>4 DEF Registered, StraysAreListed, Running
  <2> QED
    BY <1>4, <2>2, <2>3, <2>5 DEF Registered
<1>6. CASE c \notin boot.handles
  <2>1. /\ \A v \in Tenant : table'[v] = IF v = u THEN None ELSE table[v]
        /\ stranded' = stranded \cup ({c} \cap Running) /\ UNCHANGED held
    BY <1>0, <1>6 DEF AdoptRow
  <2>2. RowsDiffer' /\ AdoptingIsFirst'
    BY <1>0, <1>1, <1>2, <2>1 DEF Registered, RowsDiffer, AdoptingIsFirst
  <2>3. RowsAreBacked'
    <3> SUFFICES ASSUME NEW v \in Tenant, table'[v] \in Running
                 PROVE  \/ held[v] = table'[v] \/ Dropped(table'[v]) \/ table'[v] \in stranded'
                        \/ boot'.rows[v] = table'[v]
      BY <1>1, <2>1 DEF RowsAreBacked, Running, Dropped
    <3>1. table'[v] # None
      BY SandboxesAssumption DEF Running
    <3> QED
      BY <1>0, <1>1, <2>1, <3>1 DEF Registered, RowsAreBacked
  <2>4. \A b \in Running : Known(b) => Known(b)'
    <3> SUFFICES ASSUME NEW b \in Running, Known(b)
                 PROVE  Recorded(b)' \/ Held(b) \/ Made(b) \/ Dropped(b) \/ b \in stranded'
      BY <1>1, <2>1 DEF Known, Held, Made, Dropped
    <3>1. CASE b = c
      BY <2>1, <3>1
    <3>2. CASE b # c
      BY <1>2, <2>1, <3>2 DEF Known, Recorded
    <3> QED
      BY <3>1, <3>2
  <2>5. StraysAreListed'
    BY <1>0, <1>1, <2>4 DEF Registered, StraysAreListed, Running
  <2> QED
    BY <1>4, <2>2, <2>3, <2>5 DEF Registered
<1> QED
  BY <1>5, <1>6

LEMMA RemoveOrphanFailsRegistered ==
  ASSUME IInv, NEW c \in Box, RemoveOrphanFails(c)
  PROVE  Registered'
<1>0. TypeOK /\ Registered
  BY DEF IInv
<1>1. /\ up = "adopting" /\ up' = "adopting"
      /\ boot'.rows = boot.rows /\ boot'.known = boot.known /\ boot'.handles = boot.handles \ {c}
      /\ stranded' = stranded \cup ({c} \cap Running)
      /\ UNCHANGED <<table, held, making, dropping, machine>>
  BY <1>0 DEF RemoveOrphanFails, TypeOK, registry, world
<1>2. \A b \in Box : Known(b) => Known(b)'
  BY <1>1 DEF Known, Recorded, Held, Made, Dropped
<1>3. /\ DownIsBlank' /\ OnlyServingMakes' /\ MakingsDiffer' /\ RowsDiffer' /\ AdoptingIsFirst'
      /\ MachinesAreAccountedFor'
  BY <1>0, <1>1 DEF Registered, DownIsBlank, OnlyServingMakes, MakingsDiffer, RowsDiffer, AdoptingIsFirst,
     MachinesAreAccountedFor
<1>4. MakingIsPrivate' /\ RowsAreBacked'
  BY <1>0, <1>1 DEF Registered, MakingIsPrivate, OnlyServingMakes, RowsAreBacked, Dropped, Running
<1>5. StraysAreListed'
  <2> SUFFICES ASSUME NEW b \in Running
               PROVE  Known(b)' \/ b \in boot'.handles \ boot'.known
    BY <1>1 DEF StraysAreListed, Running
  <2>1. CASE b = c
    BY <1>1, <2>1 DEF Known
  <2>2. CASE b # c
    BY <1>0, <1>1, <1>2, <2>2 DEF Registered, StraysAreListed, Running
  <2> QED
    BY <2>1, <2>2
<1> QED
  BY <1>3, <1>4, <1>5 DEF Registered

LEMMA ListenRegistered ==
  ASSUME IInv, Listen
  PROVE  Registered'
<1>0. TypeOK /\ Registered
  BY DEF IInv
<1>1. /\ up = "adopting" /\ up' = "up"
      /\ boot.handles \subseteq boot.known /\ \A u \in Tenant : boot.rows[u] = None
      /\ UNCHANGED <<table, held, making, dropping, machine, stranded>>
  BY DEF Listen, AllRowsRead, registry, world
<1>2. \A b \in Running : Known(b)
  BY <1>0, <1>1 DEF Registered, StraysAreListed
<1>3. \A u \in Tenant : making[u] = NotMaking
  BY <1>0, <1>1 DEF Registered, OnlyServingMakes
<1>4. /\ DownIsBlank' /\ OnlyServingMakes' /\ MakingIsPrivate' /\ MakingsDiffer' /\ RowsDiffer' /\ AdoptingIsFirst'
      /\ StraysAreListed'
  BY <1>0, <1>1, <1>3 DEF Registered, DownIsBlank, OnlyServingMakes, MakingIsPrivate, MakingsDiffer, RowsDiffer,
     AdoptingIsFirst, StraysAreListed
<1>5. RowsAreBacked'
  BY <1>0, <1>1, SandboxesAssumption DEF Registered, RowsAreBacked, Running, Dropped
<1>6. MachinesAreAccountedFor'
  BY <1>1, <1>2 DEF MachinesAreAccountedFor, Known, Recorded, Held, Made, Dropped, Running
<1> QED
  BY <1>4, <1>5, <1>6 DEF Registered

-----------------------------------------------------------------------------
LEMMA CreationRegistered ==
  ASSUME IInv, NEW u \in Tenant,
         Creation(u) \/ DiscardFails(u) \/ \E left \in BOOLEAN : StartFails(u, left)
  PROVE  Registered'
<1> DEFINE box == making[u].box
<1>0. /\ TypeOK /\ Registered /\ making[u] \in Making /\ NotMaking \in Making /\ NotMaking.step = "none"
      /\ machine \in [Box -> Tenant \cup {None}]
  BY RecordTypes DEF IInv, TypeOK, NotMaking
<1>1. \A step \in {"inserting", "discarding", "looking"} :
        LET m == [making[u] EXCEPT !.step = step] IN m \in Making /\ m.box = box /\ m.step = step
  BY <1>0, RecordTypes DEF Making
<1>2. making[u].step # "none" => making[u] # NotMaking /\ box \in Box
  BY <1>0 DEF Registered, MakingIsPrivate
<1>3. CASE MachineStarts(u)
  <2>1. /\ making[u] # NotMaking /\ box \in Box
        /\ making' = [making EXCEPT ![u] = [making[u] EXCEPT !.step = "inserting"]]
        /\ machine' = [machine EXCEPT ![box] = u]
        /\ UNCHANGED <<up, boot, table, held, dropping, stranded>>
    BY <1>2, <1>3 DEF MachineStarts, Step, registry
  <2>2. Running' \subseteq Running \cup {box}
    BY <1>0, <2>1 DEF Running
  <2> QED
    BY <1>1, <2>1, <2>2, CreationKeepsRegistered
<1>4. ASSUME NEW left \in BOOLEAN, StartFails(u, left)
      PROVE  Registered'
  <2>1. /\ making[u] # NotMaking /\ box \in Box /\ box \notin Running
        /\ making' = [making EXCEPT ![u] = NotMaking]
        /\ UNCHANGED <<up, boot, table, held, dropping>>
        /\ \/ machine' = [machine EXCEPT ![box] = u] /\ stranded' = stranded \cup {box}
           \/ UNCHANGED <<machine, stranded>>
    BY <1>0, <1>2, <1>4 DEF StartFails, Step, Settle, registry, Registered, MakingIsPrivate
  <2>2. Running' \subseteq Running \cup {box} /\ (box \in Running' => box \in stranded') /\ stranded \subseteq stranded'
    BY <1>0, <2>1 DEF Running
  <2> QED
    BY <1>0, <2>1, <2>2, CreationKeepsRegistered
<1>5. CASE InsertLoses(u)
  <2>1. /\ making[u] # NotMaking
        /\ making' = [making EXCEPT ![u] = [making[u] EXCEPT !.step = "discarding"]]
        /\ UNCHANGED <<up, boot, table, held, dropping, machine, stranded>>
    BY <1>2, <1>5 DEF InsertLoses, Step, world
  <2>2. Running' = Running
    BY <2>1 DEF Running
  <2> QED
    BY <1>1, <2>1, <2>2, CreationKeepsRegistered
<1>6. CASE InsertFails(u)
  <2>1. /\ making[u] # NotMaking
        /\ making' = [making EXCEPT ![u] = NotMaking]
        /\ stranded' = stranded \cup ({box} \cap Running)
        /\ UNCHANGED <<up, boot, table, held, dropping, machine>>
    BY <1>2, <1>6 DEF InsertFails, Step, Settle, registry, world
  <2>2. Running' = Running
    BY <2>1 DEF Running
  <2> QED
    BY <1>0, <2>1, <2>2, CreationKeepsRegistered
<1>7. CASE Discard(u)
  <2>1. /\ making[u] # NotMaking /\ box \in Box
        /\ making' = [making EXCEPT ![u] = [making[u] EXCEPT !.step = "looking"]]
        /\ machine' = [machine EXCEPT ![box] = None]
        /\ UNCHANGED <<up, boot, table, held, dropping, stranded>>
    BY <1>2, <1>7 DEF Discard, Step, Gone, registry
  <2>2. Running' \subseteq Running /\ box \notin Running'
    BY <1>0, <2>1 DEF Running
  <2> QED
    BY <1>1, <2>1, <2>2, CreationKeepsRegistered
<1>8. CASE DiscardFails(u)
  <2>1. /\ making[u] # NotMaking
        /\ making' = [making EXCEPT ![u] = [making[u] EXCEPT !.step = "looking"]]
        /\ stranded' = stranded \cup ({box} \cap Running)
        /\ UNCHANGED <<up, boot, table, held, dropping, machine>>
    BY <1>2, <1>8 DEF DiscardFails, Step, registry, world
  <2>2. Running' = Running
    BY <2>1 DEF Running
  <2> QED
    BY <1>1, <2>1, <2>2, CreationKeepsRegistered
<1>9. ASSUME NEW stale \in BOOLEAN, FindWinner(u, stale)
      PROVE  Registered'
  <2>1. CASE table[u] # None
    BY <1>9, <2>1, FindWinnerRegistered
  <2>2. CASE table[u] = None
    <3>1. /\ making[u] # NotMaking /\ (box \in Running => box \in stranded)
          /\ making' = [making EXCEPT ![u] = NotMaking]
          /\ UNCHANGED <<up, boot, table, held, dropping, machine, stranded>>
      BY <1>0, <1>2, <1>9, <2>2 DEF FindWinner, Step, Settle, world, Registered, MakingIsPrivate
    <3>2. Running' = Running
      BY <3>1 DEF Running
    <3> QED
      BY <1>0, <3>1, <3>2, CreationKeepsRegistered
  <2> QED
    BY <2>1, <2>2
<1> QED
  BY <1>3, <1>4, <1>5, <1>6, <1>7, <1>8, <1>9, InsertWinsRegistered DEF Creation

LEMMA DroppingRegistered ==
  ASSUME IInv, NEW d \in dropping,
         DropRow(d) \/ DropRowFails(d) \/ DropMachine(d) \/ DropMachineFails(d)
  PROVE  Registered'
<1>0. machine \in [Box -> Tenant \cup {None}] /\ d.box \in Box
  BY DEF IInv, TypeOK, Drop
<1>1. CASE DropRowFails(d) \/ DropMachineFails(d)
  <2>1. /\ dropping' = dropping \ {d} /\ stranded' = stranded \cup ({d.box} \cap Running)
        /\ UNCHANGED <<up, boot, table, held, making, machine>>
    BY <1>1 DEF DropRowFails, DropMachineFails, registry, world
  <2>2. Running' = Running
    BY <2>1 DEF Running
  <2> QED
    BY <2>1, <2>2, DropEndsRegistered
<1>2. CASE DropMachine(d)
  <2>1. /\ dropping' = dropping \ {d} /\ stranded' = stranded \ {d.box}
        /\ machine' = [machine EXCEPT ![d.box] = None]
        /\ UNCHANGED <<up, boot, table, held, making>>
    BY <1>2 DEF DropMachine, Gone, registry
  <2>2. Running' = Running \ {d.box}
    BY <1>0, <2>1 DEF Running
  <2> QED
    BY <2>1, <2>2, DropEndsRegistered
<1> QED
  BY <1>1, <1>2, DropRowRegistered

LEMMA RegisteredPreserved == IInv /\ [Next]_vars => Registered'
<1> SUFFICES ASSUME IInv, [Next]_vars PROVE Registered'
  OBVIOUS
<1>0. TypeOK /\ machine \in [Box -> Tenant \cup {None}]
  BY DEF IInv, TypeOK
<1>1. ASSUME NEW u \in Tenant, NEW by, up # "down", ReleaseOf(u, by),
             UNCHANGED <<up, boot, table, making, machine, stranded>>
      PROVE  Registered'
  <2>1. CASE held[u] = None
    BY <1>1, <2>1, CoreFrame DEF ReleaseOf, core
  <2>2. CASE held[u] # None
    BY <1>1, <2>2, EraseKeepsRegistered DEF ReleaseOf
  <2> QED
    BY <2>1, <2>2
<1>2. ASSUME NEW r \in Request, Serving(r)
      PROVE  Registered'
  <2>1. CASE Forget(r)
    <3>1. CASE held[req[r].tenant] = req[r].box
      <4> DEFINE u == req[r].tenant
      <4>1. u \in Tenant /\ req[r].box \in Box /\ up = "up"
        BY <2>1 DEF IInv, CallsAreNamed, OnlyServingServes, Forget
      <4>2. held[u] # None /\ up # "down"
        BY <3>1, <4>1, SandboxesAssumption
      <4> QED
        BY <2>1, <3>1, <4>1, <4>2, EraseKeepsRegistered DEF Forget, world
    <3>2. CASE held[req[r].tenant] # req[r].box
      BY <2>1, <3>2, CoreFrame DEF Forget, core, world
    <3> QED
      BY <3>1, <3>2
  <2>2. CASE EnsureHeld(r) \/ EnsureShared(r) \/ NoRoom(r) \/ GiveUp(r) \/ Answers(r)
    BY <2>2, CoreFrame DEF EnsureHeld, EnsureShared, NoRoom, GiveUp, Answers, core, registry, world
  <2> QED
    BY <1>2, <2>1, <2>2, EnsureCreatesRegistered DEF Serving
<1>3. CASE Outside
  <2>1. ASSUME NEW u \in Tenant, Release(u)
        PROVE  Registered'
    BY <1>1, <2>1 DEF Release, world
  <2>2. ASSUME NEW u \in Tenant, NEW browsing \in BOOLEAN, Suspend(u, browsing)
        PROVE  Registered'
    <3>1. CASE up = "up"
      BY <1>1, <2>2, <3>1 DEF Suspend, world
    <3>2. CASE up # "up"
      BY <2>2, <3>2, CoreFrame DEF Suspend, core, world
    <3> QED
      BY <3>1, <3>2
  <2>3. ASSUME NEW u \in Tenant, NEW browsing \in BOOLEAN, EraseAccount(u, browsing)
        PROVE  Registered'
    BY <1>1, <2>3 DEF EraseAccount, world
  <2>4. ASSUME NEW r \in Request, NEW u \in Tenant, NEW kind \in Kinds, Ask(r, u, kind)
        PROVE  Registered'
    BY <2>4, CoreFrame DEF Ask, core, registry, world
  <2>5. ASSUME NEW b \in Box, NEW work \in {"idle", "busy"}, DialIn(b) \/ TunnelCloses(b) \/ Reports(b, work)
        PROVE  Registered'
    BY <2>5, CoreFrame DEF DialIn, TunnelCloses, Reports, core, registry
  <2> QED
    BY <1>3, <2>1, <2>2, <2>3, <2>4, <2>5 DEF Outside
<1>4. CASE Clocks
  <2>1. ASSUME NEW u \in Tenant, Reap(u)
        PROVE  Registered'
    BY <1>1, <2>1 DEF Reap, world
  <2>2. ASSUME NEW u \in Tenant, Age(u) \/ AccessExpires(u)
        PROVE  Registered'
    BY <2>2, CoreFrame DEF Age, AccessExpires, core, registry, world
  <2> QED
    BY <1>4, <2>1, <2>2, DeleteAccountRegistered DEF Clocks
<1>5. ASSUME NEW b \in Box, MachineDies(b)
      PROVE  Registered'
  <2>1. machine' = [machine EXCEPT ![b] = None] /\ stranded' = stranded \ {b}
        /\ UNCHANGED <<up, boot, table, held, making, dropping>>
    BY <1>5 DEF MachineDies, Gone, registry
  <2>2. Running' = Running \ {b}
    BY <1>0, <2>1 DEF Running
  <2> QED
    BY <2>1, <2>2, GoneRegistered
<1>6. ASSUME NEW b \in Box, RemoveOrphan(b)
      PROVE  Registered'
  <2>1. /\ machine' = [machine EXCEPT ![b] = None] /\ stranded' = stranded \ {b}
        /\ boot' = [boot EXCEPT !.handles = @ \ {b}]
        /\ UNCHANGED <<up, table, held, making, dropping>>
    BY <1>6 DEF RemoveOrphan, Gone, registry
  <2>2. Running' = Running \ {b}
    BY <1>0, <2>1 DEF Running
  <2>3. boot'.rows = boot.rows /\ boot'.known = boot.known /\ boot'.handles = boot.handles \ {b}
    BY <1>0, <2>1 DEF TypeOK
  <2> QED
    BY <2>1, <2>2, <2>3, GoneRegistered
<1>7. CASE Adopting
  BY <1>6, <1>7, BootRegistered, AdoptRowRegistered, ListenRegistered DEF Adopting
<1>8. CASE \E b \in Box : Dropping(b)
  BY <1>8, DroppingRegistered DEF Dropping
<1>9. CASE Failing
  BY <1>5, <1>9, CrashRegistered, BootRegistered, CreationRegistered, DroppingRegistered,
     RemoveOrphanFailsRegistered DEF Failing
<1>10. CASE UNCHANGED vars
  BY <1>10, CoreFrame DEF vars, core, registry, world
<1> QED
  BY <1>2, <1>3, <1>4, <1>7, <1>8, <1>9, <1>10, CreationRegistered DEF Next

-----------------------------------------------------------------------------
LEMMA Initially == Init => IInv
<1> SUFFICES ASSUME Init PROVE IInv
  OBVIOUS
<1> USE DEF Init
<1>1. TypeOK
  BY RecordTypes DEF TypeOK, Boxes
<1>2. Registered
  BY DEF Registered, DownIsBlank, OnlyServingMakes, MakingIsPrivate, MakingsDiffer, RowsDiffer, RowsAreBacked,
     AdoptingIsFirst, StraysAreListed, MachinesAreAccountedFor
<1>3. CallsAreNamed /\ OnlyServingServes /\ ForgetsAreAwaited
  BY CallFacts DEF CallsAreNamed, OnlyServingServes, ForgetsAreAwaited
<1> QED
  BY <1>1, <1>2, <1>3 DEF IInv

LEMMA Inductive == IInv /\ [Next]_vars => IInv'
BY TypeOKPreserved, RegisteredPreserved, CallsPreserved, ServingPreserved DEF IInv

LEMMA Invariance == Spec => []IInv
BY Initially, Inductive, PTL DEF Spec

(***************************************************************************)
(* The registry, the machines and what runs between them keep their types: *)
(* a request that forgets always names a tenant and a machine, and nothing *)
(* is ever released that was not recorded.                                 *)
(***************************************************************************)
THEOREM TypeCorrect == Spec => []TypeOK
<1>1. IInv => TypeOK
  BY DEF IInv
<1> QED
  BY Invariance, <1>1, PTL

(***************************************************************************)
(* While the gateway serves, a machine that runs is recorded, being made,  *)
(* being released or left behind by a call that failed, whatever requests, *)
(* releases, crashes and adoptions interleave (adopt, release, #create).   *)
(***************************************************************************)
THEOREM NoMachineIsLost == Spec => []MachinesAreAccountedFor
<1>1. IInv => MachinesAreAccountedFor
  BY DEF IInv, Registered
<1> QED
  BY Invariance, <1>1, PTL

(***************************************************************************)
(* Deleting an account, which cascades to its row, strands no machine: a   *)
(* row whose machine runs is also held, being released or left behind.     *)
(***************************************************************************)
THEOREM CascadeStrandsNothing == Spec => []RowsAreBacked
<1>1. IInv => RowsAreBacked
  BY DEF IInv, Registered
<1> QED
  BY Invariance, <1>1, PTL

(***************************************************************************)
(* A request that timed out destroys the machine it waited on and no       *)
(* other, and that one only if it is gone or did not answer (forget's      *)
(* sandboxId argument).                                                    *)
(***************************************************************************)
THEOREM ForgetIsScoped == Spec => ForgetSparesSuccessors
<1> DEFINE New(d) == d \in dropping' \ dropping /\ d.by \in Request /\ d.step = "row" /\ d.box \in Running
<1>1. ASSUME IInv, [Next]_vars, NEW d, New(d)
      PROVE  faults' # faults
  <2>0. TypeOK /\ faults \in Nat
    BY <1>1 DEF IInv, TypeOK
  <2>1. ASSUME NEW u \in Tenant, NEW by \in {"release", "erase"}, ReleaseOf(u, by)
        PROVE  FALSE
    BY <1>1, <2>1, SandboxesAssumption DEF ReleaseOf, Erase
  <2>2. ASSUME NEW e \in dropping, dropping' = dropping \ {e} \/ DropRow(e)
        PROVE  FALSE
    <3>1. e \in Drop /\ [e EXCEPT !.step = "machine"].step = "machine"
      BY <2>0 DEF TypeOK, Drop
    <3> QED
      BY <1>1, <2>2, <3>1 DEF DropRow
  <2>3. ASSUME UNCHANGED dropping
        PROVE  FALSE
    BY <1>1, <2>3
  <2>4. ASSUME NEW r \in Request, Forget(r)
        PROVE  faults' # faults
    <3>1. held[req[r].tenant] = req[r].box /\ d.box = req[r].box
      BY <1>1, <2>4 DEF Forget, Erase
    <3> QED
      BY <1>1, <2>0, <2>4, <3>1 DEF Forget, Fault
  <2>5. CASE \E r \in Request : Serving(r)
    BY <2>3, <2>4, <2>5 DEF Serving, EnsureHeld, EnsureShared, NoRoom, EnsureCreates, GiveUp, Answers
  <2>6. CASE \E u \in Tenant : Creation(u)
    BY <2>3, <2>6 DEF Creation, MachineStarts, InsertWins, InsertLoses, InsertFails, Discard, FindWinner
  <2>7. CASE \E b \in Box : Dropping(b)
    BY <2>2, <2>7 DEF Dropping, DropMachine
  <2>8. CASE Adopting
    BY <2>3, <2>8 DEF Adopting, Boot, BootWith, Listen, AdoptRow, RemoveOrphan
  <2>9. CASE Outside \/ Clocks
    BY <2>1, <2>3, <2>9 DEF Outside, Ask, Release, Suspend, EraseAccount, DialIn, TunnelCloses, Reports, Clocks, Reap,
       Age, AccessExpires, DeleteAccount
  <2>10. CASE Failing
    <3>1. CASE Crash
      BY <1>1, <3>1 DEF Crash
    <3>2. CASE \E e \in dropping : DropRowFails(e) \/ DropMachineFails(e)
      BY <2>2, <3>2 DEF DropRowFails, DropMachineFails
    <3> QED
      BY <2>3, <2>10, <3>1, <3>2 DEF Failing, BootBlindly, BootWith, StartFails, DiscardFails, MachineDies,
         RemoveOrphanFails
  <2>11. CASE UNCHANGED vars
    BY <2>3, <2>11 DEF vars
  <2> QED
    BY <1>1, <2>5, <2>6, <2>7, <2>8, <2>9, <2>10, <2>11 DEF Next
<1>2. IInv /\ [Next]_vars => [\A d \in dropping' \ dropping :
         d.by \in Request /\ d.step = "row" /\ d.box \in Running => faults' # faults]_vars
  BY <1>1
<1> QED
  BY <1>2, Invariance, PTL DEF Spec, ForgetSparesSuccessors
=============================================================================
