---------------------------- MODULE SecondFactor ---------------------------
(***************************************************************************)
(* The operator's second factor: enrolling it, signing in with it and its  *)
(* recovery codes (admin/second-factor.js, totp.js, challenge.js, auth.js  *)
(* and the sign-in of admin/server.js).                                    *)
(*                                                                         *)
(* The enrolment is a row; the secret being enrolled, the codes spent and  *)
(* the counters are the process's memory.  Every read of the row is a step *)
(* of its own, and nothing locks: sign-ins and console requests, of one    *)
(* kind or another, interleave between what they read and what they write. *)
(* The password is external; what the console shows is left out.           *)
(***************************************************************************)
EXTENDS Integers, FiniteSets

CONSTANTS
  None,
  Secret,          \* what begin can generate, none of it twice
  Batch,           \* the recovery codes of one minting, none minted twice
  Slot,            \* a code's place in its batch
  Challenge,       \* ids of half-finished sign-ins
  Request,         \* sign-ins at the second step that can be under way
  Desk,            \* requests to the console that can be under way
  Drift,           \* DRIFT_STEPS
  Attempts,        \* ATTEMPTS of one challenge
  MaxFailures,     \* ATTEMPTS of one address
  MaxStep          \* bound: the last time step

ASSUME SecondFactorAssumption ==
  /\ None \notin Secret \cup Batch \cup Challenge
  /\ IsFiniteSet(Request)
  /\ Attempts # 0
  /\ {Drift, Attempts, MaxFailures, MaxStep} \subseteq Nat

VARIABLES
  now,             \* the 30-second step
  row,             \* the enrolment
  generated,       \* secrets generated so far
  mintedFor,       \* the secret each batch was minted for, if it was
  pending,         \* the secret being enrolled
  spent,           \* tickets of codes from the app, with when they were used
  console,         \* the console requests in the middle of a write
  issued,          \* challenges issued
  misses,          \* wrong codes, by challenge
  burned,          \* challenges that may not be presented again
  failures,        \* failures of the address in its window
  request,         \* the sign-ins under way
  proven,          \* history: secrets a code of which was accepted
  on,              \* history: turned on since it was last turned off
  accepted,        \* history: tickets accepted since the service started
  answered         \* history: codes tried against each challenge

stored  == <<row, on>>
memory  == <<pending, spent, console>>
fresh   == <<generated, mintedFor, proven>>
limits  == <<issued, misses, burned, failures, answered>>
vars    == <<now, stored, memory, fresh, limits, request, accepted>>

Code   == Batch \X Slot
Row    == [secret : Secret, recovery : SUBSET Code]
Ticket == Secret \X Int
Used   == [ticket : Ticket, at : 0 .. MaxStep]
Signing == [pc : {"none", "open", "spending", "spent"},
            challenge : Challenge \cup {None}, code : Code \cup {None},
            read : Row \cup {None}]
Writing == [pc : {"none", "activate", "stored", "remint", "forget"},
            secret : Secret \cup {None}, batch : Batch \cup {None}, read : Row \cup {None}]

Idle  == [pc |-> "none", challenge |-> None, code |-> None, read |-> None]
Quiet == [pc |-> "none", secret |-> None, batch |-> None, read |-> None]

TypeOK ==
  /\ now \in 0 .. MaxStep
  /\ row \in Row \cup {None}
  /\ generated \subseteq Secret /\ proven \subseteq Secret
  /\ mintedFor \in [Batch -> Secret \cup {None}]
  /\ pending \in Secret \cup {None}
  /\ spent \subseteq Used
  /\ console \in [Desk -> Writing]
  /\ issued \subseteq Challenge /\ burned \subseteq issued
  /\ misses \in [Challenge -> 0 .. Attempts - 1]
  /\ failures \in Nat
  /\ request \in [Request -> Signing]
  /\ on \in BOOLEAN /\ accepted \subseteq Ticket
  /\ answered \in [Challenge -> Nat]

Init ==
  /\ now = 0 /\ row = None
  /\ generated = {} /\ proven = {} /\ mintedFor = [b \in Batch |-> None]
  /\ pending = None /\ spent = {} /\ console = [d \in Desk |-> Quiet]
  /\ issued = {} /\ burned = {} /\ failures = 0
  /\ misses = [c \in Challenge |-> 0]
  /\ request = [r \in Request |-> Idle]
  /\ on = FALSE /\ accepted = {}
  /\ answered = [c \in Challenge |-> 0]

CodesOf(b) == {b} \X Slot

-----------------------------------------------------------------------------
(***************************************************************************)
(* Codes from the app.                                                     *)
(***************************************************************************)
Current(ticket) == ticket[2] \in now - Drift .. now + Drift
Known(ticket)   == \E u \in spent : u.ticket = ticket

(***************************************************************************)
(* A code in its window is accepted unless it is remembered as spent.      *)
(***************************************************************************)
Accepts(secret, ticket) ==
  ticket[1] = secret /\ Current(ticket) /\ ~Known(ticket)

(***************************************************************************)
(* Mistake: a spent code is remembered for one step too few.               *)
(***************************************************************************)
RetainedLess == 2 * Drift

(***************************************************************************)
(* How long a spent code is remembered: as long as it could be offered.    *)
(***************************************************************************)
Retained == 2 * Drift + 1

TimePasses ==
  /\ now < MaxStep
  /\ now' = now + 1
  /\ spent' = {u \in spent : now + 1 < u.at + Retained}
  /\ UNCHANGED <<stored, pending, console, fresh, limits, request, accepted>>

(***************************************************************************)
(* A code accepted is spent.                                               *)
(***************************************************************************)
Spend(ticket) ==
  /\ spent' = spent \cup {[ticket |-> ticket, at |-> now]}
  /\ accepted' = accepted \cup {ticket}

-----------------------------------------------------------------------------
(***************************************************************************)
(* Signing in.  The password opens a challenge when a factor is enrolled.  *)
(***************************************************************************)
PasswordRight(c) ==
  /\ failures < MaxFailures
  /\ IF row = None
     THEN failures' = 0 /\ issued' = issued
     ELSE c \notin issued /\ issued' = issued \cup {c} /\ failures' = failures
  /\ UNCHANGED <<now, stored, memory, fresh, misses, burned, answered, request, accepted>>

PasswordWrong ==
  /\ failures < MaxFailures
  /\ failures' = failures + 1
  /\ UNCHANGED <<now, stored, memory, fresh, issued, misses, burned, answered, request, accepted>>

WindowPasses ==
  /\ failures > 0
  /\ failures' = 0
  /\ UNCHANGED <<now, stored, memory, fresh, issued, misses, burned, answered, request, accepted>>

Becomes(r, s) == request' = [request EXCEPT ![r] = s]

(***************************************************************************)
(* The address is asked about and the challenge is read; the enrolment is  *)
(* read later.  The body, read between the two, is left out: a window may  *)
(* pass at any moment.                                                     *)
(***************************************************************************)
Open(r, c) ==
  /\ request[r] = Idle
  /\ failures < MaxFailures
  /\ c \in issued \ burned
  /\ Becomes(r, [Idle EXCEPT !.pc = "open", !.challenge = c])
  /\ UNCHANGED <<now, stored, memory, fresh, limits, accepted>>

(***************************************************************************)
(* Mistake: one wrong code more than the challenge is worth.               *)
(***************************************************************************)
WornOutLate(c) == misses[c] >= Attempts

(***************************************************************************)
(* One wrong code more and the challenge is closed for good.               *)
(***************************************************************************)
WornOut(c) == misses[c] + 1 >= Attempts

Tried(c) == answered' = [answered EXCEPT ![c] = @ + 1]

Closed(c) ==
  /\ misses' = [misses EXCEPT ![c] = 0]
  /\ burned' = burned \cup {c}

Wrong(r) ==
  /\ request[r].pc = "open"
  /\ LET c == request[r].challenge
     IN  /\ IF WornOut(c) THEN Closed(c)
            ELSE misses' = [misses EXCEPT ![c] = @ + 1] /\ burned' = burned
         /\ Tried(c)
  /\ failures' = failures + 1
  /\ Becomes(r, Idle)
  /\ UNCHANGED <<now, stored, memory, fresh, issued, accepted>>

Admitted(r) ==
  /\ Closed(request[r].challenge)
  /\ failures' = 0
  /\ Becomes(r, Idle)

AppCode(r, ticket) ==
  /\ request[r].pc = "open"
  /\ row # None /\ Accepts(row.secret, ticket)
  /\ Spend(ticket)
  /\ Tried(request[r].challenge)
  /\ Admitted(r)
  /\ UNCHANGED <<now, stored, pending, console, fresh, issued>>

RecoveryCode(r, code) ==
  /\ request[r].pc = "open"
  /\ row # None /\ code \in row.recovery
  /\ Tried(request[r].challenge)
  /\ Becomes(r, [request[r] EXCEPT !.pc = "spending", !.code = code, !.read = row])
  /\ UNCHANGED <<now, stored, memory, fresh, issued, misses, burned, failures, accepted>>

(***************************************************************************)
(* Mistake: what was read is put back whether or not the row is gone.      *)
(***************************************************************************)
Upserted(value) == value

(***************************************************************************)
(* UPDATE ... WHERE key: a row that is gone stays gone.                    *)
(***************************************************************************)
Updated(value) == IF row = None THEN None ELSE value

Left(read, code) == [secret |-> read.secret, recovery |-> read.recovery \ {code}]

(***************************************************************************)
(* spendRecovery writes the whole value back from the row it was given.    *)
(***************************************************************************)
SpendRecovery(r) ==
  /\ request[r].pc = "spending"
  /\ row' = Updated(Left(request[r].read, request[r].code))
  /\ Becomes(r, [Idle EXCEPT !.pc = "spent", !.challenge = request[r].challenge])
  /\ UNCHANGED <<now, on, memory, fresh, limits, accepted>>

RecoveryAdmits(r) ==
  /\ request[r].pc = "spent"
  /\ Admitted(r)
  /\ UNCHANGED <<now, stored, memory, fresh, issued, answered, accepted>>

-----------------------------------------------------------------------------
(***************************************************************************)
(* The console: enrolling, new recovery codes, turning it off.             *)
(***************************************************************************)
Begin(secret) ==
  /\ secret \notin generated
  /\ generated' = generated \cup {secret}
  /\ pending' = secret
  /\ UNCHANGED <<now, stored, spent, console, mintedFor, proven, limits, request,
                 accepted>>

(***************************************************************************)
(* Given up, or timed out.                                                 *)
(***************************************************************************)
Abandon ==
  /\ pending # None
  /\ pending' = None
  /\ UNCHANGED <<now, stored, spent, console, fresh, limits, request, accepted>>

Goes(d, w) == console' = [console EXCEPT ![d] = w]

Mint(b, secret) ==
  /\ mintedFor[b] = None
  /\ mintedFor' = [mintedFor EXCEPT ![b] = secret]

Activate(d, ticket, b) ==
  /\ console[d] = Quiet
  /\ pending # None /\ Accepts(pending, ticket)
  /\ Spend(ticket)
  /\ proven' = proven \cup {pending}
  /\ Mint(b, pending)
  /\ Goes(d, [Quiet EXCEPT !.pc = "activate", !.secret = pending, !.batch = b])
  /\ UNCHANGED <<now, stored, pending, generated, limits, request>>

Fresh(secret, d) == [secret |-> secret, recovery |-> CodesOf(console[d].batch)]

(***************************************************************************)
(* The INSERT ... ON CONFLICT DO UPDATE lands.                             *)
(***************************************************************************)
Store(d) ==
  /\ console[d].pc = "activate"
  /\ row' = Fresh(console[d].secret, d)
  /\ on' = TRUE
  /\ Goes(d, [Quiet EXCEPT !.pc = "stored"])
  /\ UNCHANGED <<now, pending, spent, fresh, limits, request, accepted>>

(***************************************************************************)
(* It is answered, and the enrolment in progress is forgotten, whichever   *)
(* it is by now.                                                           *)
(***************************************************************************)
Stored(d) ==
  /\ console[d].pc = "stored"
  /\ pending' = None
  /\ Goes(d, Quiet)
  /\ UNCHANGED <<now, stored, spent, fresh, limits, request, accepted>>

Remint(d, b) ==
  /\ console[d] = Quiet
  /\ row # None
  /\ Mint(b, row.secret)
  /\ Goes(d, [Quiet EXCEPT !.pc = "remint", !.batch = b, !.read = row])
  /\ UNCHANGED <<now, stored, pending, spent, generated, proven, limits, request,
                 accepted>>

Reminted(d) ==
  /\ console[d].pc = "remint"
  /\ row' = Updated(Fresh(console[d].read.secret, d))
  /\ Goes(d, Quiet)
  /\ UNCHANGED <<now, on, pending, spent, fresh, limits, request, accepted>>

Forget(d) ==
  /\ console[d] = Quiet
  /\ pending' = None
  /\ Goes(d, [Quiet EXCEPT !.pc = "forget"])
  /\ UNCHANGED <<now, stored, spent, fresh, limits, request, accepted>>

Forgotten(d) ==
  /\ console[d].pc = "forget"
  /\ row' = None /\ on' = FALSE
  /\ Goes(d, Quiet)
  /\ UNCHANGED <<now, pending, spent, fresh, limits, request, accepted>>

(***************************************************************************)
(* The write fails, or its answer is lost after it landed: the request     *)
(* ends with an error, and pending is as it was.                           *)
(***************************************************************************)
WriteFails(d) ==
  /\ console[d] # Quiet
  /\ Goes(d, Quiet)
  /\ UNCHANGED <<now, stored, pending, spent, fresh, limits, request, accepted>>

-----------------------------------------------------------------------------
(***************************************************************************)
(* The service restarts: its memory and everything under way is gone; the  *)
(* row and the challenges people hold are not.                             *)
(***************************************************************************)
Restart ==
  /\ pending' = None /\ spent' = {} /\ console' = [d \in Desk |-> Quiet]
  /\ misses' = [c \in Challenge |-> 0] /\ burned' = {} /\ failures' = 0
  /\ answered' = [c \in Challenge |-> 0]
  /\ request' = [r \in Request |-> Idle]
  /\ accepted' = {}
  /\ UNCHANGED <<now, stored, fresh, issued>>

Near == now - Drift .. now + Drift

SignInStep ==
  \/ PasswordWrong \/ WindowPasses
  \/ \E c \in Challenge : PasswordRight(c)
  \/ \E r \in Request :
       \/ Wrong(r) \/ SpendRecovery(r) \/ RecoveryAdmits(r)
       \/ \E c \in Challenge : Open(r, c)
       \/ \E secret \in generated, step \in Near : AppCode(r, <<secret, step>>)
       \/ \E code \in Code : RecoveryCode(r, code)

ConsoleStep ==
  \/ Abandon
  \/ \E secret \in Secret : Begin(secret)
  \/ \E d \in Desk :
       \/ Store(d) \/ Stored(d) \/ Reminted(d) \/ Forget(d) \/ Forgotten(d) \/ WriteFails(d)
       \/ \E secret \in generated, step \in Near, b \in Batch : Activate(d, <<secret, step>>, b)
       \/ \E b \in Batch : Remint(d, b)

Next == TimePasses \/ SignInStep \/ ConsoleStep \/ Restart

Spec == Init /\ [][Next]_vars

-----------------------------------------------------------------------------
(***************************************************************************)
(* Properties.                                                             *)
(***************************************************************************)

(***************************************************************************)
(* A value that may be in force: a code has proven its secret, and its     *)
(* recovery codes were minted for that secret, all at once.                *)
(***************************************************************************)
Sound(value) ==
  /\ value.secret \in proven
  /\ \E b \in Batch : mintedFor[b] = value.secret /\ value.recovery \subseteq CodesOf(b)

(***************************************************************************)
(* Whatever sign-ins, activations, remints and disables overlap, and which *)
(* of their writes lands last: what is in force was proven by a code, its  *)
(* recovery codes are of one minting for that very secret, and nothing is  *)
(* in force after a disable until an activation writes again               *)
(* (second-factor.js, "Nothing is enabled until a code proves it").        *)
(***************************************************************************)
EnrolmentIsProven == row # None => on /\ Sound(row)

(***************************************************************************)
(* A code from the app is accepted once in its life, however sign-ins and  *)
(* enrolments interleave and at whichever end of the window it is offered  *)
(* (totp.js, "A code that has been accepted is not accepted again").       *)
(***************************************************************************)
AppCodesAreGoodOnce ==
  [][\A u \in spent' \ spent : u.ticket \notin accepted]_vars

(***************************************************************************)
(* What one right password is worth: the codes a challenge allows, and no  *)
(* more beyond them than the sign-ins that had read it before it closed.   *)
(***************************************************************************)
GuessesPerChallenge ==
  \A c \in Challenge : answered[c] <= Attempts - 1 + Cardinality(Request)
=============================================================================
