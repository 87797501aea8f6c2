-------------------------- MODULE SecondFactorProofs ------------------------
(***************************************************************************)
(* What holds of the operator's second factor for every number of sign-ins *)
(* and console requests under way at once, every drift and every worth of  *)
(* a challenge.                                                            *)
(***************************************************************************)
EXTENDS SecondFactor, FiniteSetTheorems, TLAPS

(***************************************************************************)
(* What somebody has read from the row and will write back was in force    *)
(* once: it stays as good as it was, because a code proves a secret and a  *)
(* batch is minted once and for all.                                       *)
(***************************************************************************)
SignInsReadSound ==
  \A r \in Request : request[r].pc = "spending" =>
    request[r].read \in Row /\ Sound(request[r].read)

MintsSoundly(w) ==
  /\ w.pc = "activate" => /\ w.secret \in proven /\ w.batch \in Batch
                          /\ mintedFor[w.batch] = w.secret
  /\ w.pc = "remint" => /\ w.read \in Row /\ Sound(w.read) /\ w.batch \in Batch
                        /\ mintedFor[w.batch] = w.read.secret

DesksWriteSound == \A d \in Desk : MintsSoundly(console[d])

SignInsHaveChallenges ==
  \A r \in Request : request[r].pc # "none" => request[r].challenge \in issued

\* An accepted code that may still be offered is remembered.
AcceptedAreKnown ==
  \A t \in accepted : t[2] >= now - Drift =>
    \E u \in spent : u.ticket = t /\ t[2] <= u.at + Drift

\* Sign-ins that have read a challenge, and those that found a recovery
\* code for it and are not through.
Opened(c) == {r \in Request : request[r].pc = "open" /\ request[r].challenge = c}
Passing(c) == {r \in Request : request[r].pc \in {"spending", "spent"} /\ request[r].challenge = c}

(***************************************************************************)
(* What was tried against a challenge was counted or is passing; once it   *)
(* is closed, only those who had read it may still try.                    *)
(***************************************************************************)
CountedFor(c) ==
  IF c \in burned
  THEN answered[c] + Cardinality(Opened(c)) <= Attempts - 1 + Cardinality(Request)
  ELSE answered[c] <= misses[c] + Cardinality(Passing(c))

TriesAreCounted == \A c \in Challenge : CountedFor(c)

IInv ==
  /\ TypeOK
  /\ SignInsReadSound
  /\ DesksWriteSound
  /\ SignInsHaveChallenges
  /\ EnrolmentIsProven
  /\ AcceptedAreKnown
  /\ TriesAreCounted

LEMMA BoundsAssumed ==
  /\ Drift \in Nat /\ Attempts \in Nat \ {0} /\ MaxFailures \in Nat /\ MaxStep \in Nat
  /\ IsFiniteSet(Request) /\ Cardinality(Request) \in Nat
  /\ None \notin Secret \cup Batch \cup Challenge
BY FS_CardinalityType, SecondFactorAssumption

-----------------------------------------------------------------------------
(***************************************************************************)
(* What a sign-in is, and what the steps of a sign-in make of it.          *)
(***************************************************************************)
LEMMA NotSigning == Idle \in Signing /\ Idle.pc = "none"
BY DEF Idle, Signing

LEMMA Opens ==
  ASSUME NEW c \in Challenge, NEW q, q = [Idle EXCEPT !.pc = "open", !.challenge = c]
  PROVE  q \in Signing /\ q.pc = "open" /\ q.challenge = c
BY DEF Idle, Signing

LEMMA HasSpent ==
  ASSUME NEW c \in Challenge, NEW q, q = [Idle EXCEPT !.pc = "spent", !.challenge = c]
  PROVE  q \in Signing /\ q.pc = "spent" /\ q.challenge = c
BY DEF Idle, Signing

\* One sign-in moves.
LEMMA OneMoves ==
  ASSUME TypeOK, NEW r \in Request, NEW s \in Signing, Becomes(r, s)
  PROVE  /\ request' \in [Request -> Signing] /\ request'[r] = s
         /\ \A q \in Request \ {r} : request'[q] = request[q]
BY DEF TypeOK, Becomes

\* A challenge is tried, and closed or charged.
LEMMA ChallengeWritten ==
  ASSUME TypeOK, NEW c \in issued, UNCHANGED issued
  PROVE  /\ Tried(c) => /\ answered' \in [Challenge -> Nat] /\ answered'[c] = answered[c] + 1
                        /\ \A d \in Challenge \ {c} : answered'[d] = answered[d]
         /\ Closed(c) => /\ misses' \in [Challenge -> 0 .. Attempts - 1]
                         /\ burned' = burned \cup {c} /\ burned' \subseteq issued
                         /\ \A d \in Challenge \ {c} : misses'[d] = misses[d]
         /\ (~WornOut(c) /\ misses' = [misses EXCEPT ![c] = @ + 1]) =>
               /\ misses' \in [Challenge -> 0 .. Attempts - 1] /\ misses'[c] = misses[c] + 1
               /\ \A d \in Challenge \ {c} : misses'[d] = misses[d]
<1>1. /\ c \in Challenge /\ misses \in [Challenge -> 0 .. Attempts - 1]
      /\ answered \in [Challenge -> Nat] /\ burned \subseteq issued /\ issued \subseteq Challenge
  BY DEF TypeOK
<1>2. misses[c] \in Nat /\ misses[c] < Attempts /\ 0 \in 0 .. Attempts - 1
  BY <1>1, BoundsAssumed
<1>3. ASSUME ~WornOut(c) PROVE misses[c] + 1 \in 0 .. Attempts - 1
  BY <1>2, <1>3, BoundsAssumed DEF WornOut
<1> QED
  BY <1>1, <1>2, <1>3 DEF Tried, Closed

\* A code is spent.
LEMMA CodeSpent ==
  ASSUME TypeOK, NEW ticket \in Ticket, Spend(ticket)
  PROVE  spent' \subseteq Used /\ accepted' \subseteq Ticket
BY DEF TypeOK, Spend, Used

-----------------------------------------------------------------------------
(***************************************************************************)
(* Types.                                                                  *)
(***************************************************************************)
\* What crossing a code off leaves of a row.
LEMMA RowsKept ==
  ASSUME NEW read \in Row, NEW code
  PROVE  /\ Left(read, code) \in Row /\ Left(read, code).secret = read.secret
         /\ Left(read, code).recovery \subseteq read.recovery
BY DEF Row, Left

LEMMA SignInTypes ==
  ASSUME TypeOK, SignInsReadSound, SignInsHaveChallenges, SignInStep
  PROVE  TypeOK'
<1>1. ASSUME PasswordWrong \/ WindowPasses \/ \E c \in Challenge : PasswordRight(c)
      PROVE  TypeOK'
  BY <1>1 DEF TypeOK, PasswordWrong, WindowPasses, PasswordRight, stored, memory, fresh, limits
<1>2. ASSUME NEW r \in Request, NEW c \in Challenge, Open(r, c) PROVE TypeOK'
  <2>1. request' \in [Request -> Signing]
    BY <1>2, Opens, OneMoves DEF Open
  <2> QED
    BY <1>2, <2>1 DEF TypeOK, Open, stored, memory, fresh, limits
<1>3. ASSUME NEW r \in Request, Wrong(r) PROVE TypeOK'
  <2>1. PICK c \in issued : c = request[r].challenge
    BY <1>3 DEF Wrong, SignInsHaveChallenges
  <2>2. /\ UNCHANGED <<now, row, on, pending, spent, console, generated, mintedFor, proven,
                       issued, accepted>>
        /\ Tried(c) /\ failures' = failures + 1 /\ Becomes(r, Idle)
        /\ \/ Closed(c)
           \/ ~WornOut(c) /\ misses' = [misses EXCEPT ![c] = @ + 1] /\ burned' = burned
    BY <1>3, <2>1 DEF Wrong, stored, memory, fresh
  <2>3. request' \in [Request -> Signing]
    BY <2>2, NotSigning, OneMoves
  <2>4. misses' \in [Challenge -> 0 .. Attempts - 1] /\ burned' \subseteq issued'
        /\ answered' \in [Challenge -> Nat]
    BY <2>2, ChallengeWritten DEF TypeOK
  <2> QED
    BY <2>2, <2>3, <2>4 DEF TypeOK
<1>4. ASSUME NEW r \in Request, NEW secret \in generated, NEW step \in Near,
             AppCode(r, <<secret, step>>)
      PROVE  TypeOK'
  <2>1. PICK c \in issued : c = request[r].challenge
    BY <1>4 DEF AppCode, SignInsHaveChallenges
  <2>2. /\ UNCHANGED <<now, row, on, pending, console, generated, mintedFor, proven, issued>>
        /\ Tried(c) /\ failures' = 0 /\ Becomes(r, Idle) /\ Closed(c) /\ Spend(<<secret, step>>)
    BY <1>4, <2>1 DEF AppCode, Admitted, stored, fresh
  <2>3. request' \in [Request -> Signing]
    BY <2>2, NotSigning, OneMoves
  <2>4. misses' \in [Challenge -> 0 .. Attempts - 1] /\ burned' \subseteq issued'
        /\ answered' \in [Challenge -> Nat]
    BY <2>2, ChallengeWritten
  <2>5. <<secret, step>> \in Ticket
    BY BoundsAssumed DEF TypeOK, Ticket, Near
  <2>6. spent' \subseteq Used /\ accepted' \subseteq Ticket
    BY <2>2, <2>5, CodeSpent
  <2> QED
    BY <2>2, <2>3, <2>4, <2>6 DEF TypeOK
<1>5. ASSUME NEW r \in Request, NEW code \in Code, RecoveryCode(r, code) PROVE TypeOK'
  <2>1. PICK c \in issued : c = request[r].challenge
    BY <1>5 DEF RecoveryCode, SignInsHaveChallenges
  <2>2. /\ UNCHANGED <<now, row, on, pending, spent, console, generated, mintedFor, proven,
                       issued, misses, burned, failures, accepted>>
        /\ Tried(c) /\ row \in Row
        /\ Becomes(r, [request[r] EXCEPT !.pc = "spending", !.code = code, !.read = row])
    BY <1>5, <2>1 DEF RecoveryCode, stored, memory, fresh, TypeOK
  <2>3. request' \in [Request -> Signing]
    <3>1. request[r] \in Signing
      BY DEF TypeOK
    <3>2. [request[r] EXCEPT !.pc = "spending", !.code = code, !.read = row] \in Signing
      BY <2>2, <3>1 DEF Signing
    <3> QED
      BY <2>2, <3>2, OneMoves
  <2>4. answered' \in [Challenge -> Nat]
    BY <2>2, ChallengeWritten
  <2> QED
    BY <2>2, <2>3, <2>4 DEF TypeOK
<1>6. ASSUME NEW r \in Request, SpendRecovery(r) PROVE TypeOK'
  <2>1. request[r].read \in Row /\ request[r].challenge \in Challenge
    BY <1>6 DEF TypeOK, SpendRecovery, SignInsReadSound, SignInsHaveChallenges
  <2>2. PICK q : q = [Idle EXCEPT !.pc = "spent", !.challenge = request[r].challenge]
    OBVIOUS
  <2>3. /\ UNCHANGED <<now, on, pending, spent, console, generated, mintedFor, proven, issued,
                       misses, burned, failures, answered, accepted>>
        /\ row' = Updated(Left(request[r].read, request[r].code))
        /\ Becomes(r, q)
    BY <1>6, <2>2 DEF SpendRecovery, memory, fresh, limits
  <2>4. row' \in Row \cup {None}
    BY <2>1, <2>3, RowsKept DEF Updated
  <2>5. request' \in [Request -> Signing]
    BY <2>1, <2>2, <2>3, HasSpent, OneMoves
  <2> QED
    BY <2>3, <2>4, <2>5 DEF TypeOK
<1>7. ASSUME NEW r \in Request, RecoveryAdmits(r) PROVE TypeOK'
  <2>1. PICK c \in issued : c = request[r].challenge
    BY <1>7 DEF RecoveryAdmits, SignInsHaveChallenges
  <2>2. /\ UNCHANGED <<now, row, on, pending, spent, console, generated, mintedFor, proven,
                       issued, answered, accepted>>
        /\ failures' = 0 /\ Becomes(r, Idle) /\ Closed(c)
    BY <1>7, <2>1 DEF RecoveryAdmits, Admitted, stored, memory, fresh
  <2>3. request' \in [Request -> Signing]
    BY <2>2, NotSigning, OneMoves
  <2>4. misses' \in [Challenge -> 0 .. Attempts - 1] /\ burned' \subseteq issued'
    BY <2>2, ChallengeWritten
  <2> QED
    BY <2>2, <2>3, <2>4 DEF TypeOK
<1> QED
  BY <1>1, <1>2, <1>3, <1>4, <1>5, <1>6, <1>7 DEF SignInStep

\* What a console request is at, and with what.
LEMMA Writings ==
  /\ Quiet \in Writing /\ Quiet.pc = "none"
  /\ \A sec \in Secret, b \in Batch :
       LET w == [Quiet EXCEPT !.pc = "activate", !.secret = sec, !.batch = b] IN
         w \in Writing /\ w.pc = "activate" /\ w.secret = sec /\ w.batch = b
  /\ \A b \in Batch, read \in Row :
       LET w == [Quiet EXCEPT !.pc = "remint", !.batch = b, !.read = read] IN
         w \in Writing /\ w.pc = "remint" /\ w.batch = b /\ w.read = read
  /\ LET w == [Quiet EXCEPT !.pc = "forget"] IN w \in Writing /\ w.pc = "forget"
  /\ LET w == [Quiet EXCEPT !.pc = "stored"] IN w \in Writing /\ w.pc = "stored"
<1>1. Quiet \in Writing /\ Quiet.pc = "none"
  BY DEF Quiet, Writing
<1>2. ASSUME NEW sec \in Secret, NEW b \in Batch
      PROVE  LET w == [Quiet EXCEPT !.pc = "activate", !.secret = sec, !.batch = b] IN
               w \in Writing /\ w.pc = "activate" /\ w.secret = sec /\ w.batch = b
  BY DEF Quiet, Writing
<1>3. ASSUME NEW b \in Batch, NEW read \in Row
      PROVE  LET w == [Quiet EXCEPT !.pc = "remint", !.batch = b, !.read = read] IN
               w \in Writing /\ w.pc = "remint" /\ w.batch = b /\ w.read = read
  BY DEF Quiet, Writing
<1>4. LET w == [Quiet EXCEPT !.pc = "forget"] IN w \in Writing /\ w.pc = "forget"
  BY DEF Quiet, Writing
<1>5. LET w == [Quiet EXCEPT !.pc = "stored"] IN w \in Writing /\ w.pc = "stored"
  BY DEF Quiet, Writing
<1> QED
  BY <1>1, <1>2, <1>3, <1>4, <1>5

\* One console request moves.
LEMMA OneDeskMoves ==
  ASSUME TypeOK, NEW d \in Desk, NEW w \in Writing, Goes(d, w)
  PROVE  /\ console' \in [Desk -> Writing] /\ console'[d] = w
         /\ \A e \in Desk \ {d} : console'[e] = console[e]
BY DEF TypeOK, Goes

\* A row the console writes: a secret with a batch of codes.
LEMMA RowsWritten ==
  ASSUME NEW secret \in Secret, NEW d \in Desk, console[d].batch \in Batch
  PROVE  /\ Fresh(secret, d) \in Row /\ Fresh(secret, d).secret = secret
         /\ Fresh(secret, d).recovery = CodesOf(console[d].batch)
BY DEF Row, Code, CodesOf, Fresh

LEMMA ConsoleTypes ==
  ASSUME TypeOK, DesksWriteSound, ConsoleStep
  PROVE  TypeOK'
<1>1. CASE Abandon
  BY <1>1 DEF TypeOK, Abandon, stored, fresh, limits
<1>2. ASSUME NEW secret \in Secret, Begin(secret) PROVE TypeOK'
  BY <1>2 DEF TypeOK, Begin, stored, limits
<1>3. ASSUME NEW d \in Desk, NEW secret \in generated, NEW step \in Near, NEW b \in Batch,
             Activate(d, <<secret, step>>, b)
      PROVE  TypeOK'
  <2>1. <<secret, step>> \in Ticket
    BY BoundsAssumed DEF TypeOK, Ticket, Near
  <2>2. spent' \subseteq Used /\ accepted' \subseteq Ticket
    BY <1>3, <2>1, CodeSpent DEF Activate
  <2>3. pending \in Secret
    BY <1>3 DEF TypeOK, Activate
  <2>4. console' \in [Desk -> Writing]
    BY <1>3, <2>3, Writings, OneDeskMoves DEF Activate
  <2>5. mintedFor' \in [Batch -> Secret \cup {None}] /\ proven' \subseteq Secret
    BY <1>3, <2>3 DEF TypeOK, Activate, Mint
  <2> QED
    BY <1>3, <2>2, <2>4, <2>5 DEF TypeOK, Activate, stored, limits
<1>4. ASSUME NEW d \in Desk, Store(d) PROVE TypeOK'
  <2>1. console[d].secret \in Secret /\ console[d].batch \in Batch
    BY <1>4 DEF Store, TypeOK, DesksWriteSound, MintsSoundly
  <2>2. row' \in Row
    BY <1>4, <2>1, RowsWritten DEF Store
  <2>3. console' \in [Desk -> Writing]
    BY <1>4, Writings, OneDeskMoves DEF Store
  <2> QED
    BY <1>4, <2>2, <2>3 DEF TypeOK, Store, fresh, limits
<1>5. ASSUME NEW d \in Desk, NEW b \in Batch, Remint(d, b) PROVE TypeOK'
  <2>1. row \in Row /\ row.secret \in Secret
    BY <1>5 DEF TypeOK, Remint, Row
  <2>2. console' \in [Desk -> Writing]
    BY <1>5, <2>1, Writings, OneDeskMoves DEF Remint
  <2>3. mintedFor' \in [Batch -> Secret \cup {None}]
    BY <1>5, <2>1 DEF TypeOK, Remint, Mint
  <2> QED
    BY <1>5, <2>2, <2>3 DEF TypeOK, Remint, stored, limits
<1>6. ASSUME NEW d \in Desk, Reminted(d) PROVE TypeOK'
  <2>1. console[d].read.secret \in Secret /\ console[d].batch \in Batch
    BY <1>6 DEF Reminted, TypeOK, DesksWriteSound, MintsSoundly, Row
  <2>2. row' \in Row \cup {None}
    BY <1>6, <2>1, RowsWritten DEF Reminted, Updated
  <2>3. console' \in [Desk -> Writing]
    BY <1>6, Writings, OneDeskMoves DEF Reminted
  <2> QED
    BY <1>6, <2>2, <2>3 DEF TypeOK, Reminted, fresh, limits
<1>7. ASSUME NEW d \in Desk, Stored(d) \/ Forget(d) \/ Forgotten(d) \/ WriteFails(d)
      PROVE  TypeOK'
  <2>1. console' \in [Desk -> Writing]
    BY <1>7, Writings, OneDeskMoves DEF Stored, Forget, Forgotten, WriteFails
  <2> QED
    BY <1>7, <2>1 DEF TypeOK, Stored, Forget, Forgotten, WriteFails, stored, fresh, limits
<1> QED
  BY <1>1, <1>2, <1>3, <1>4, <1>5, <1>6, <1>7 DEF ConsoleStep

LEMMA ServiceTypes ==
  ASSUME TypeOK, TimePasses \/ Restart
  PROVE  TypeOK'
<1>1. CASE TimePasses
  <2>1. now' \in 0 .. MaxStep
    BY <1>1, BoundsAssumed DEF TypeOK, TimePasses
  <2> QED
    BY <1>1, <2>1 DEF TypeOK, TimePasses, stored, fresh, limits
<1>2. CASE Restart
  <2>1. 0 \in 0 .. Attempts - 1
    BY BoundsAssumed
  <2> QED
    BY <1>2, <2>1, NotSigning, Writings DEF TypeOK, Restart, stored, fresh
<1> QED
  BY <1>1, <1>2

-----------------------------------------------------------------------------
(***************************************************************************)
(* The enrolment.                                                          *)
(***************************************************************************)

\* A secret once proven stays proven, and a batch belongs to its secret.
LEMMA MintsAreForGood ==
  ASSUME TypeOK, Next
  PROVE  /\ proven \subseteq proven'
         /\ \A b \in Batch : mintedFor[b] # None => mintedFor'[b] = mintedFor[b]
<1>1. ASSUME NEW d \in Desk, NEW ticket, NEW b \in Batch, Activate(d, ticket, b)
      PROVE  /\ proven \subseteq proven'
             /\ \A c \in Batch : mintedFor[c] # None => mintedFor'[c] = mintedFor[c]
  BY <1>1 DEF Activate, Mint, TypeOK
<1>2. ASSUME NEW d \in Desk, NEW b \in Batch, Remint(d, b)
      PROVE  /\ proven \subseteq proven'
             /\ \A c \in Batch : mintedFor[c] # None => mintedFor'[c] = mintedFor[c]
  BY <1>2 DEF Remint, Mint, TypeOK
<1>3. CASE UNCHANGED <<mintedFor, proven>>
  BY <1>3
<1> QED
  BY <1>1, <1>2, <1>3
     DEF Next, SignInStep, ConsoleStep, TimePasses, Restart, PasswordRight, PasswordWrong,
         WindowPasses, Open, Wrong, AppCode, RecoveryCode, SpendRecovery, RecoveryAdmits, Abandon,
         Begin, Store, Stored, Reminted, Forget, Forgotten, WriteFails, fresh

LEMMA SoundStays ==
  ASSUME TypeOK, Next, NEW v, Sound(v)
  PROVE  Sound(v)'
<1>1. v.secret \in proven /\ v.secret # None
  BY BoundsAssumed DEF Sound, TypeOK
<1>2. PICK b \in Batch : mintedFor[b] = v.secret /\ v.recovery \subseteq CodesOf(b)
  BY DEF Sound
<1>3. v.secret \in proven' /\ mintedFor'[b] = v.secret
  BY <1>1, <1>2, MintsAreForGood
<1> QED
  BY <1>2, <1>3 DEF Sound, CodesOf

\* What the console writes is sound when what it goes by is.
LEMMA WritesAreSound ==
  ASSUME NEW d \in Desk, NEW secret \in proven, console[d].batch \in Batch,
         mintedFor[console[d].batch] = secret
  PROVE  Sound(Fresh(secret, d))
<1>1. Fresh(secret, d).secret = secret /\ Fresh(secret, d).recovery = CodesOf(console[d].batch)
  BY DEF Fresh
<1> QED
  BY <1>1 DEF Sound

\* So is what crossing a code off leaves.
LEMMA WhatIsLeftIsSound ==
  ASSUME NEW read \in Row, Sound(read), NEW code
  PROVE  Sound(Left(read, code))
BY RowsKept DEF Sound

LEMMA EnrolmentStaysProven ==
  ASSUME TypeOK, SignInsReadSound, DesksWriteSound, EnrolmentIsProven, Next
  PROVE  EnrolmentIsProven'
<1>1. ASSUME NEW v, Sound(v), row' = v, on' PROVE EnrolmentIsProven'
  <2>1. Sound(v)'
    BY <1>1, SoundStays
  <2> QED
    BY <1>1, <2>1 DEF EnrolmentIsProven, Sound
<1>2. CASE row' = None
  BY <1>2 DEF EnrolmentIsProven
<1>3. CASE UNCHANGED <<row, on>>
  <2>1. CASE row # None
    BY <1>1, <1>3, <2>1 DEF EnrolmentIsProven
  <2> QED
    BY <1>2, <1>3, <2>1
<1>4. ASSUME NEW v, Sound(v), row' = Updated(v), UNCHANGED on PROVE EnrolmentIsProven'
  BY <1>1, <1>2, <1>4 DEF Updated, EnrolmentIsProven
<1>5. ASSUME NEW r \in Request, SpendRecovery(r) PROVE EnrolmentIsProven'
  <2>1. request[r].read \in Row /\ Sound(request[r].read)
    BY <1>5 DEF SpendRecovery, SignInsReadSound
  <2> QED
    BY <1>4, <1>5, <2>1, WhatIsLeftIsSound DEF SpendRecovery
<1>6. ASSUME NEW d \in Desk, Store(d) PROVE EnrolmentIsProven'
  <2>1. Sound(Fresh(console[d].secret, d))
    BY <1>6, WritesAreSound DEF Store, DesksWriteSound, MintsSoundly
  <2> QED
    BY <1>1, <1>6, <2>1 DEF Store
<1>7. ASSUME NEW d \in Desk, Reminted(d) PROVE EnrolmentIsProven'
  <2>1. /\ console[d].read.secret \in proven /\ console[d].batch \in Batch
        /\ mintedFor[console[d].batch] = console[d].read.secret
    BY <1>7 DEF Reminted, DesksWriteSound, MintsSoundly, Sound
  <2>2. Sound(Fresh(console[d].read.secret, d))
    BY <2>1, WritesAreSound
  <2> QED
    BY <1>4, <1>7, <2>2 DEF Reminted
<1>8. ASSUME NEW d \in Desk, Forgotten(d) PROVE EnrolmentIsProven'
  BY <1>2, <1>8 DEF Forgotten
<1> QED
  BY <1>3, <1>5, <1>6, <1>7, <1>8
     DEF Next, SignInStep, ConsoleStep, TimePasses, Restart, PasswordRight, PasswordWrong,
         WindowPasses, Open, Wrong, AppCode, RecoveryCode, RecoveryAdmits, Abandon, Begin,
         Activate, Stored, Remint, Forget, WriteFails, stored

\* A sign-in writes back what it read of the row when it tried its code.
LEMMA SignInsStaySound ==
  ASSUME TypeOK, SignInsReadSound, EnrolmentIsProven, Next
  PROVE  SignInsReadSound'
<1>1. ASSUME \A r \in Request : \/ request'[r] = request[r]
                                \/ request'[r].pc # "spending"
                                \/ request'[r].read \in Row /\ Sound(request'[r].read)
      PROVE  SignInsReadSound'
  <2> SUFFICES ASSUME NEW r \in Request, request'[r].pc = "spending"
               PROVE  request'[r].read \in Row /\ Sound(request[r].read)'
    BY DEF SignInsReadSound
  <2>1. PICK v : v = request'[r].read
    OBVIOUS
  <2>2. v \in Row /\ Sound(v)
    BY <1>1, <2>1 DEF SignInsReadSound
  <2>3. Sound(v)'
    BY <2>2, SoundStays
  <2> QED
    BY <2>1, <2>2, <2>3 DEF Sound
<1>2. ASSUME NEW r \in Request, NEW q \in Signing, Becomes(r, q), q.pc # "spending"
      PROVE  SignInsReadSound'
  BY <1>1, <1>2, OneMoves
<1>3. ASSUME NEW r \in Request, NEW c \in Challenge, Open(r, c) PROVE SignInsReadSound'
  <2>1. PICK q : q = [Idle EXCEPT !.pc = "open", !.challenge = c]
    OBVIOUS
  <2> QED
    BY <1>2, <1>3, <2>1, Opens DEF Open
<1>4. ASSUME NEW r \in Request, Becomes(r, Idle) PROVE SignInsReadSound'
  BY <1>2, <1>4, NotSigning
<1>5. ASSUME NEW r \in Request, SpendRecovery(r) PROVE SignInsReadSound'
  <2>1. PICK q : q = [Idle EXCEPT !.pc = "spent", !.challenge = request[r].challenge]
    OBVIOUS
  <2>2. request' = [request EXCEPT ![r] = q]
    BY <1>5, <2>1 DEF SpendRecovery, Becomes
  <2>3. q.pc = "spent"
    BY <2>1 DEF Idle
  <2>4. request'[r].pc # "spending" /\ \A p \in Request \ {r} : request'[p] = request[p]
    BY <2>2, <2>3 DEF TypeOK
  <2> QED
    BY <1>1, <2>4
<1>6. ASSUME NEW r \in Request, NEW code \in Code, RecoveryCode(r, code) PROVE SignInsReadSound'
  <2>1. PICK q : q = [request[r] EXCEPT !.pc = "spending", !.code = code, !.read = row]
    OBVIOUS
  <2>2. row \in Row /\ Sound(row)
    BY <1>6 DEF RecoveryCode, TypeOK, EnrolmentIsProven
  <2>3. q \in Signing /\ q.read = row
    BY <2>1, <2>2 DEF TypeOK, Signing
  <2>4. request'[r] = q /\ \A p \in Request \ {r} : request'[p] = request[p]
    BY <1>6, <2>1, <2>3, OneMoves DEF RecoveryCode
  <2> QED
    BY <1>1, <2>2, <2>3, <2>4
<1>7. CASE Restart
  BY <1>1, <1>7, NotSigning DEF Restart
<1>8. CASE UNCHANGED request
  BY <1>1, <1>8
<1> QED
  BY <1>3, <1>4, <1>5, <1>6, <1>7, <1>8
     DEF Next, SignInStep, ConsoleStep, TimePasses, PasswordRight, PasswordWrong, WindowPasses,
         Wrong, AppCode, RecoveryAdmits, Admitted, Abandon, Begin, Activate, Store, Stored, Remint,
         Reminted, Forget, Forgotten, WriteFails

\* The console writes a secret a code has proven, or one it read of the row.
LEMMA DesksStaySound ==
  ASSUME TypeOK, DesksWriteSound, EnrolmentIsProven, Next
  PROVE  DesksWriteSound'
<1>1. ASSUME NEW w, MintsSoundly(w) PROVE MintsSoundly(w)'
  <2>1. w.pc = "activate" => /\ w.secret \in proven' /\ w.batch \in Batch
                             /\ mintedFor'[w.batch] = w.secret
    BY <1>1, MintsAreForGood, BoundsAssumed DEF MintsSoundly, TypeOK
  <2>2. w.pc = "remint" => /\ w.read \in Row /\ Sound(w.read)' /\ w.batch \in Batch
                           /\ mintedFor'[w.batch] = w.read.secret
    <3> SUFFICES ASSUME w.pc = "remint"
                 PROVE  /\ w.read \in Row /\ Sound(w.read)' /\ w.batch \in Batch
                        /\ mintedFor'[w.batch] = w.read.secret
      OBVIOUS
    <3>1. /\ w.read \in Row /\ Sound(w.read) /\ w.batch \in Batch
          /\ mintedFor[w.batch] = w.read.secret /\ w.read.secret # None
      BY <1>1, BoundsAssumed DEF MintsSoundly, Row
    <3> QED
      BY <3>1, MintsAreForGood, SoundStays
  <2> QED
    BY <2>1, <2>2 DEF MintsSoundly
<1>2. ASSUME NEW d \in Desk, NEW w \in Writing, Goes(d, w), MintsSoundly(w)'
      PROVE  DesksWriteSound'
  <2> SUFFICES ASSUME NEW e \in Desk PROVE MintsSoundly(console[e])'
    BY DEF DesksWriteSound
  <2>1. PICK v : v = console'[e]
    OBVIOUS
  <2>2. v = w \/ v = console[e]
    BY <1>2, <2>1, OneDeskMoves
  <2>3. MintsSoundly(v)'
    <3>1. CASE v = w
      BY <1>2, <3>1
    <3>2. CASE v = console[e]
      BY <1>1, <3>2 DEF DesksWriteSound
    <3> QED
      BY <2>2, <3>1, <3>2
  <2> QED
    BY <2>1, <2>3 DEF MintsSoundly, Sound
<1>3. ASSUME NEW w \in Writing, w.pc \notin {"activate", "remint"} PROVE MintsSoundly(w)'
  BY <1>3 DEF MintsSoundly
<1>4. ASSUME NEW d \in Desk, NEW ticket, NEW b \in Batch, Activate(d, ticket, b)
      PROVE  DesksWriteSound'
  <2>1. PICK w : w = [Quiet EXCEPT !.pc = "activate", !.secret = pending, !.batch = b]
    OBVIOUS
  <2>2. pending \in Secret /\ pending \in proven' /\ mintedFor'[b] = pending
    BY <1>4 DEF Activate, Mint, TypeOK
  <2>3. w \in Writing /\ w.pc = "activate" /\ w.secret = pending /\ w.batch = b
    BY <2>1, <2>2 DEF Quiet, Writing
  <2>4. MintsSoundly(w)'
    BY <2>2, <2>3 DEF MintsSoundly
  <2> QED
    BY <1>2, <1>4, <2>1, <2>3, <2>4 DEF Activate
<1>5. ASSUME NEW d \in Desk, NEW b \in Batch, Remint(d, b) PROVE DesksWriteSound'
  <2>1. PICK v, w : v = row /\ w = [Quiet EXCEPT !.pc = "remint", !.batch = b, !.read = v]
    OBVIOUS
  <2>2. v \in Row /\ Sound(v) /\ mintedFor'[b] = v.secret
    BY <1>5, <2>1 DEF Remint, Mint, TypeOK, EnrolmentIsProven
  <2>3. w \in Writing /\ w.pc = "remint" /\ w.batch = b /\ w.read = v
    BY <2>1, <2>2 DEF Quiet, Writing
  <2>4. Sound(v)'
    BY <2>2, SoundStays
  <2>5. MintsSoundly(w)'
    BY <2>2, <2>3, <2>4 DEF MintsSoundly, Sound
  <2> QED
    BY <1>2, <1>5, <2>1, <2>3, <2>5 DEF Remint
<1>6. ASSUME NEW d \in Desk,
             Goes(d, Quiet) \/ Goes(d, [Quiet EXCEPT !.pc = "forget"])
               \/ Goes(d, [Quiet EXCEPT !.pc = "stored"])
      PROVE  DesksWriteSound'
  BY <1>2, <1>3, <1>6, Writings
<1>7. CASE UNCHANGED console
  <2> SUFFICES ASSUME NEW e \in Desk PROVE MintsSoundly(console[e])'
    BY DEF DesksWriteSound
  <2>1. PICK v : v = console[e]
    OBVIOUS
  <2>2. MintsSoundly(v)'
    BY <1>1, <2>1 DEF DesksWriteSound
  <2> QED
    BY <1>7, <2>1, <2>2 DEF MintsSoundly, Sound
<1>8. CASE Restart
  <2>1. \A d \in Desk : console'[d] = Quiet
    BY <1>8 DEF Restart
  <2> QED
    BY <2>1, Writings DEF DesksWriteSound, MintsSoundly
<1> QED
  BY <1>4, <1>5, <1>6, <1>7, <1>8
     DEF Next, SignInStep, ConsoleStep, TimePasses, PasswordRight, PasswordWrong, WindowPasses,
         Open, Wrong, AppCode, RecoveryCode, SpendRecovery, RecoveryAdmits, Abandon, Begin, Store,
         Stored, Reminted, Forget, Forgotten, WriteFails, memory

-----------------------------------------------------------------------------
(***************************************************************************)
(* Codes from the app: the window a code can be offered in is over before  *)
(* it is forgotten.                                                        *)
(***************************************************************************)
LEMMA TimeIsCounted ==
  ASSUME TypeOK
  PROVE  now \in Int /\ (\A u \in spent : u.at \in Int /\ u.ticket \in Ticket)
         /\ \A t \in Ticket : t[2] \in Int
BY BoundsAssumed DEF TypeOK, Used, Ticket

LEMMA SpentIsKnown ==
  ASSUME TypeOK, AcceptedAreKnown, UNCHANGED now, NEW ticket \in Ticket, Current(ticket),
         Spend(ticket)
  PROVE  AcceptedAreKnown'
<1> SUFFICES ASSUME NEW t \in accepted', t[2] >= now - Drift
             PROVE  \E u \in spent' : u.ticket = t /\ t[2] <= u.at + Drift
  BY DEF AcceptedAreKnown
<1>1. CASE t = ticket
  <2>1. [ticket |-> ticket, at |-> now] \in spent'
    BY DEF Spend
  <2>2. ticket[2] <= now + Drift
    BY TimeIsCounted, BoundsAssumed DEF Current
  <2> QED
    BY <1>1, <2>1, <2>2
<1>2. CASE t \in accepted
  BY <1>2 DEF AcceptedAreKnown, Spend
<1> QED
  BY <1>1, <1>2 DEF Spend

LEMMA AcceptedStayKnown ==
  ASSUME TypeOK, AcceptedAreKnown, Next
  PROVE  AcceptedAreKnown'
<1>1. CASE TimePasses
  <2>1. accepted' = accepted /\ now' = now + 1
    BY <1>1 DEF TimePasses
  <2> SUFFICES ASSUME NEW t \in accepted, t[2] >= now' - Drift
               PROVE  \E u \in spent' : u.ticket = t /\ t[2] <= u.at + Drift
    BY <2>1, Zenon DEF AcceptedAreKnown
  <2>2. t[2] \in Int
    BY TimeIsCounted DEF TypeOK
  <2>3. PICK u \in spent : u.ticket = t /\ t[2] <= u.at + Drift
    BY <2>1, <2>2, TimeIsCounted, BoundsAssumed DEF AcceptedAreKnown
  <2>4. now + 1 < u.at + Retained
    BY <2>1, <2>2, <2>3, TimeIsCounted, BoundsAssumed DEF Retained
  <2>5. u \in spent'
    BY <1>1, <2>4 DEF TimePasses
  <2> QED
    BY <2>3, <2>5
<1>2. CASE Restart
  BY <1>2 DEF Restart, AcceptedAreKnown
<1>3. ASSUME NEW ticket \in Ticket, Current(ticket), Spend(ticket), UNCHANGED now
      PROVE  AcceptedAreKnown'
  BY <1>3, SpentIsKnown
<1>4. ASSUME NEW r \in Request, NEW secret \in generated, NEW step \in Near,
             AppCode(r, <<secret, step>>)
      PROVE  AcceptedAreKnown'
  <2>1. <<secret, step>> \in Ticket
    BY BoundsAssumed DEF TypeOK, Ticket, Near
  <2> QED
    BY <1>3, <1>4, <2>1 DEF AppCode, Accepts
<1>5. ASSUME NEW d \in Desk, NEW secret \in generated, NEW step \in Near, NEW b \in Batch,
             Activate(d, <<secret, step>>, b)
      PROVE  AcceptedAreKnown'
  <2>1. <<secret, step>> \in Ticket
    BY BoundsAssumed DEF TypeOK, Ticket, Near
  <2> QED
    BY <1>3, <1>5, <2>1 DEF Activate, Accepts
<1>6. CASE UNCHANGED <<now, spent, accepted>>
  BY <1>6 DEF AcceptedAreKnown
<1> QED
  BY <1>1, <1>2, <1>4, <1>5, <1>6
     DEF Next, SignInStep, ConsoleStep, PasswordRight, PasswordWrong, WindowPasses, Open, Wrong,
         RecoveryCode, SpendRecovery, RecoveryAdmits, Abandon, Begin, Store, Stored, Remint,
         Reminted, Forget, Forgotten, WriteFails, memory

\* A code that is accepted was not accepted before.
LEMMA AcceptedOnce ==
  ASSUME TypeOK, AcceptedAreKnown, Next, NEW u \in spent' \ spent
  PROVE  u.ticket \notin accepted
<1>1. ASSUME NEW secret, NEW ticket \in Ticket, Accepts(secret, ticket), Spend(ticket)
      PROVE  u.ticket \notin accepted
  <2>1. u.ticket = ticket
    BY <1>1 DEF Spend
  <2>2. ticket[2] >= now - Drift
    BY <1>1, TimeIsCounted, BoundsAssumed DEF Accepts, Current
  <2> QED
    BY <1>1, <2>1, <2>2 DEF Accepts, Known, AcceptedAreKnown
<1>2. ASSUME NEW r \in Request, NEW secret \in generated, NEW step \in Near,
             AppCode(r, <<secret, step>>)
      PROVE  u.ticket \notin accepted
  <2>1. <<secret, step>> \in Ticket
    BY BoundsAssumed DEF TypeOK, Ticket, Near
  <2> QED
    BY <1>1, <1>2, <2>1 DEF AppCode
<1>3. ASSUME NEW d \in Desk, NEW secret \in generated, NEW step \in Near, NEW b \in Batch,
             Activate(d, <<secret, step>>, b)
      PROVE  u.ticket \notin accepted
  <2>1. <<secret, step>> \in Ticket
    BY BoundsAssumed DEF TypeOK, Ticket, Near
  <2> QED
    BY <1>1, <1>3, <2>1 DEF Activate
<1>4. CASE spent' \subseteq spent
  BY <1>4
<1> QED
  BY <1>2, <1>3, <1>4
     DEF Next, SignInStep, ConsoleStep, TimePasses, Restart, PasswordRight, PasswordWrong,
         WindowPasses, Open, Wrong, RecoveryCode, SpendRecovery, RecoveryAdmits, Abandon, Begin,
         Store, Stored, Remint, Reminted, Forget, Forgotten, WriteFails, memory

-----------------------------------------------------------------------------
(***************************************************************************)
(* Challenges.                                                             *)
(***************************************************************************)
LEMMA Sizes ==
  ASSUME NEW c
  PROVE  /\ Cardinality(Opened(c)) \in Nat /\ Cardinality(Passing(c)) \in Nat
         /\ Cardinality(Opened(c)) + Cardinality(Passing(c)) <= Cardinality(Request)
         /\ \A S \in SUBSET Request : \A r \in S :
              Cardinality(S \ {r}) = Cardinality(S) - 1 /\ Cardinality(S) \in Nat
         /\ \A S \in SUBSET Request : \A r : r \notin S =>
              Cardinality(S \cup {r}) = Cardinality(S) + 1
<1>1. /\ Opened(c) \subseteq Request /\ Passing(c) \subseteq Request
      /\ Opened(c) \cap Passing(c) = {}
  BY DEF Opened, Passing
<1>2. \A S \in SUBSET Request : IsFiniteSet(S) /\ Cardinality(S) \in Nat
                                /\ Cardinality(S) <= Cardinality(Request)
  BY BoundsAssumed, FS_Subset, FS_CardinalityType
<1>3. Cardinality(Opened(c) \cup Passing(c))
        = Cardinality(Opened(c)) + Cardinality(Passing(c)) - Cardinality({})
  BY <1>1, <1>2, FS_Union
<1>4. Cardinality(Opened(c)) + Cardinality(Passing(c)) <= Cardinality(Request)
  <2>1. Cardinality(Opened(c) \cup Passing(c)) <= Cardinality(Request)
    BY <1>1, <1>2
  <2> QED
    BY <1>1, <1>2, <1>3, <2>1, FS_EmptySet
<1>5. ASSUME NEW S \in SUBSET Request, NEW r \in S
      PROVE  Cardinality(S \ {r}) = Cardinality(S) - 1 /\ Cardinality(S) \in Nat
  BY <1>2, FS_RemoveElement
<1>6. ASSUME NEW S \in SUBSET Request, NEW r, r \notin S
      PROVE  Cardinality(S \cup {r}) = Cardinality(S) + 1
  BY <1>2, <1>6, FS_AddElement
<1> QED
  BY <1>1, <1>2, <1>4, <1>5, <1>6

\* A sign-in touches one challenge.
LEMMA OthersStayCounted ==
  ASSUME TypeOK, TriesAreCounted, NEW r \in Request, NEW c \in Challenge,
         \A q \in Request \ {r} : request'[q] = request[q],
         request[r].pc = "none" \/ request[r].challenge = c,
         request'[r].pc = "none" \/ request'[r].challenge = c,
         \A d \in Challenge \ {c} : /\ answered'[d] = answered[d] /\ misses'[d] = misses[d]
                                    /\ d \in burned' <=> d \in burned,
         CountedFor(c)'
  PROVE  TriesAreCounted'
<1> SUFFICES ASSUME NEW d \in Challenge, d # c PROVE CountedFor(d)'
  BY DEF TriesAreCounted
<1>1. Opened(d)' = Opened(d) /\ Passing(d)' = Passing(d)
  BY DEF Opened, Passing
<1> QED
  BY <1>1 DEF TriesAreCounted, CountedFor

\* A sign-in that tries a code leaves those that have read the challenge,
\* and joins those that pass or is through with it.
LEMMA TryCounts ==
  ASSUME TypeOK, TriesAreCounted, NEW r \in Request, NEW c \in issued,
         request[r].pc = "open", request[r].challenge = c,
         \A q \in Request \ {r} : request'[q] = request[q],
         Tried(c), UNCHANGED issued,
         \/ request'[r].pc = "none" /\ Closed(c)
         \/ /\ request'[r].pc = "none" /\ ~WornOut(c) /\ UNCHANGED burned
            /\ misses' = [misses EXCEPT ![c] = @ + 1]
         \/ /\ request'[r].pc = "spending" /\ request'[r].challenge = c
            /\ UNCHANGED <<misses, burned>>
  PROVE  TriesAreCounted'
<1>1. /\ c \in Challenge /\ answered[c] \in Nat /\ misses[c] \in Nat /\ misses[c] <= Attempts - 1
      /\ CountedFor(c)
  BY BoundsAssumed DEF TypeOK, TriesAreCounted
<1>2. answered'[c] = answered[c] + 1 /\ \A d \in Challenge \ {c} : answered'[d] = answered[d]
  BY ChallengeWritten
<1>3. r \in Opened(c) /\ r \notin Passing(c) /\ Opened(c)' = Opened(c) \ {r}
  BY DEF Opened, Passing
<1>4. PICK o, p, n : /\ o = Cardinality(Opened(c)) /\ p = Cardinality(Passing(c))
                     /\ n = Cardinality(Request)
  OBVIOUS
<1>5. o \in Nat /\ p \in Nat /\ n \in Nat /\ o + p <= n /\ Cardinality(Opened(c)') = o - 1
  <2>1. Opened(c) \in SUBSET Request
    BY DEF Opened
  <2> QED
    BY <1>3, <1>4, <2>1, Sizes, BoundsAssumed
<1>6. CASE request'[r].pc = "none" /\ Closed(c)
  <2>1. c \in burned' /\ \A d \in Challenge \ {c} : /\ misses'[d] = misses[d]
                                                    /\ d \in burned' <=> d \in burned
    BY <1>6, ChallengeWritten DEF Closed
  <2>2. answered'[c] + Cardinality(Opened(c)') <= Attempts - 1 + n
    <3>1. CASE c \in burned
      <4>1. answered[c] + o <= Attempts - 1 + n
        BY <1>1, <1>4, <3>1 DEF CountedFor
      <4> QED
        BY <1>1, <1>2, <1>5, <4>1, BoundsAssumed
    <3>2. CASE c \notin burned
      <4>1. answered[c] <= misses[c] + p
        BY <1>1, <1>4, <3>2 DEF CountedFor
      <4> QED
        BY <1>1, <1>2, <1>5, <4>1, BoundsAssumed
    <3> QED
      BY <3>1, <3>2
  <2>3. CountedFor(c)'
    BY <1>4, <2>1, <2>2 DEF CountedFor
  <2> QED
    BY <1>1, <1>2, <1>6, <2>1, <2>3, OthersStayCounted
<1>7. CASE /\ request'[r].pc = "none" /\ ~WornOut(c) /\ UNCHANGED burned
           /\ misses' = [misses EXCEPT ![c] = @ + 1]
  <2>1. misses'[c] = misses[c] + 1 /\ \A d \in Challenge \ {c} : misses'[d] = misses[d]
    BY <1>7, ChallengeWritten
  <2>2. Passing(c)' = Passing(c)
    BY <1>3, <1>7 DEF Passing
  <2>3. CountedFor(c)'
    <3>1. CASE c \in burned
      <4>1. answered[c] + o <= Attempts - 1 + n
        BY <1>1, <1>4, <3>1 DEF CountedFor
      <4>2. answered'[c] + Cardinality(Opened(c)') <= Attempts - 1 + n
        BY <1>1, <1>2, <1>5, <4>1, BoundsAssumed
      <4> QED
        BY <1>4, <1>7, <3>1, <4>2 DEF CountedFor
    <3>2. CASE c \notin burned
      <4>1. answered[c] <= misses[c] + p
        BY <1>1, <1>4, <3>2 DEF CountedFor
      <4>2. answered'[c] <= misses'[c] + p
        BY <1>1, <1>2, <1>5, <2>1, <4>1
      <4> QED
        BY <1>4, <1>7, <2>2, <3>2, <4>2 DEF CountedFor
    <3> QED
      BY <3>1, <3>2
  <2> QED
    BY <1>1, <1>2, <1>7, <2>1, <2>3, OthersStayCounted
<1>8. CASE /\ request'[r].pc = "spending" /\ request'[r].challenge = c
           /\ UNCHANGED <<misses, burned>>
  <2>1. Passing(c)' = Passing(c) \cup {r}
    BY <1>3, <1>8 DEF Passing
  <2>2. Cardinality(Passing(c)') = p + 1
    <3>1. Passing(c) \in SUBSET Request
      BY DEF Passing
    <3> QED
      BY <1>3, <1>4, <2>1, <3>1, Sizes
  <2>3. CountedFor(c)'
    <3>1. CASE c \in burned
      <4>1. answered[c] + o <= Attempts - 1 + n
        BY <1>1, <1>4, <3>1 DEF CountedFor
      <4>2. answered'[c] + Cardinality(Opened(c)') <= Attempts - 1 + n
        BY <1>1, <1>2, <1>5, <4>1, BoundsAssumed
      <4> QED
        BY <1>4, <1>8, <3>1, <4>2 DEF CountedFor
    <3>2. CASE c \notin burned
      <4>1. answered[c] <= misses[c] + p
        BY <1>1, <1>4, <3>2 DEF CountedFor
      <4>2. answered'[c] <= misses'[c] + Cardinality(Passing(c)')
        BY <1>1, <1>2, <1>5, <1>8, <2>2, <4>1
      <4> QED
        BY <1>8, <3>2, <4>2 DEF CountedFor
    <3> QED
      BY <3>1, <3>2
  <2> QED
    BY <1>1, <1>2, <1>8, <2>3, OthersStayCounted
<1> QED
  BY <1>6, <1>7, <1>8

LEMMA SignInsStayCounted ==
  ASSUME TypeOK, SignInsHaveChallenges, TriesAreCounted, Next
  PROVE  SignInsHaveChallenges' /\ TriesAreCounted'
<1>1. ASSUME UNCHANGED <<issued, misses, burned, answered, request>>
      PROVE  SignInsHaveChallenges' /\ TriesAreCounted'
  BY <1>1 DEF SignInsHaveChallenges, TriesAreCounted, CountedFor, Opened, Passing
<1>2. ASSUME NEW c \in Challenge, PasswordRight(c)
      PROVE  SignInsHaveChallenges' /\ TriesAreCounted'
  BY <1>2 DEF PasswordRight, SignInsHaveChallenges, TriesAreCounted, CountedFor, Opened, Passing
<1>3. ASSUME NEW r \in Request, UNCHANGED issued,
             \A q \in Request \ {r} : request'[q] = request[q],
             request'[r].pc = "none" \/ request'[r].challenge \in issued
      PROVE  SignInsHaveChallenges'
  BY <1>3 DEF SignInsHaveChallenges
<1>4. ASSUME NEW r \in Request, NEW c \in Challenge, Open(r, c)
      PROVE  SignInsHaveChallenges' /\ TriesAreCounted'
  <2>1. PICK q : q = [Idle EXCEPT !.pc = "open", !.challenge = c]
    OBVIOUS
  <2>2. /\ UNCHANGED <<issued, misses, burned, answered>> /\ Becomes(r, q)
        /\ c \in issued \ burned /\ request[r].pc = "none"
    BY <1>4, <2>1, NotSigning DEF Open, limits
  <2>3. q \in Signing /\ q.pc = "open" /\ q.challenge = c
    BY <2>1, Opens
  <2>4. request'[r] = q /\ \A p \in Request \ {r} : request'[p] = request[p]
    BY <2>2, <2>3, OneMoves
  <2>5. Passing(c)' = Passing(c)
    BY <2>2, <2>3, <2>4 DEF Passing
  <2>6. CountedFor(c)'
    BY <2>2, <2>5 DEF TriesAreCounted, CountedFor
  <2> QED
    BY <1>3, <2>2, <2>3, <2>4, <2>6, OthersStayCounted
<1>5. ASSUME NEW r \in Request, Wrong(r)
      PROVE  SignInsHaveChallenges' /\ TriesAreCounted'
  <2>1. PICK c \in issued : c = request[r].challenge
    BY <1>5 DEF Wrong, SignInsHaveChallenges
  <2>2. /\ request[r].pc = "open" /\ UNCHANGED issued /\ Tried(c) /\ Becomes(r, Idle)
        /\ \/ Closed(c)
           \/ ~WornOut(c) /\ misses' = [misses EXCEPT ![c] = @ + 1] /\ burned' = burned
    BY <1>5, <2>1 DEF Wrong
  <2>3. request'[r].pc = "none" /\ \A q \in Request \ {r} : request'[q] = request[q]
    BY <2>2, NotSigning, OneMoves
  <2> QED
    BY <1>3, <2>1, <2>2, <2>3, TryCounts
<1>6. ASSUME NEW r \in Request, NEW secret \in generated, NEW step \in Near,
             AppCode(r, <<secret, step>>)
      PROVE  SignInsHaveChallenges' /\ TriesAreCounted'
  <2>1. PICK c \in issued : c = request[r].challenge
    BY <1>6 DEF AppCode, SignInsHaveChallenges
  <2>2. /\ request[r].pc = "open" /\ UNCHANGED issued /\ Tried(c) /\ Becomes(r, Idle) /\ Closed(c)
    BY <1>6, <2>1 DEF AppCode, Admitted
  <2>3. request'[r].pc = "none" /\ \A q \in Request \ {r} : request'[q] = request[q]
    BY <2>2, NotSigning, OneMoves
  <2> QED
    BY <1>3, <2>1, <2>2, <2>3, TryCounts
<1>7. ASSUME NEW r \in Request, NEW code \in Code, RecoveryCode(r, code)
      PROVE  SignInsHaveChallenges' /\ TriesAreCounted'
  <2>1. PICK c \in issued : c = request[r].challenge
    BY <1>7 DEF RecoveryCode, SignInsHaveChallenges
  <2>2. /\ request[r].pc = "open" /\ UNCHANGED <<issued, misses, burned>> /\ Tried(c)
        /\ row \in Row /\ request[r] \in Signing
        /\ Becomes(r, [request[r] EXCEPT !.pc = "spending", !.code = code, !.read = row])
    BY <1>7, <2>1 DEF RecoveryCode, TypeOK
  <2>3. PICK q \in Signing : Becomes(r, q) /\ q.pc = "spending" /\ q.challenge = c
    <3>1. PICK q : q = [request[r] EXCEPT !.pc = "spending", !.code = code, !.read = row]
      OBVIOUS
    <3>2. q \in Signing /\ q.pc = "spending" /\ q.challenge = c
      BY <2>1, <2>2, <3>1 DEF Signing
    <3> QED
      BY <2>2, <3>1, <3>2
  <2>4. request'[r] = q /\ \A p \in Request \ {r} : request'[p] = request[p]
    BY <2>3, OneMoves
  <2> QED
    BY <1>3, <2>1, <2>2, <2>3, <2>4, TryCounts
<1>8. ASSUME NEW r \in Request, SpendRecovery(r)
      PROVE  SignInsHaveChallenges' /\ TriesAreCounted'
  <2>1. PICK c \in issued : c = request[r].challenge
    BY <1>8 DEF SpendRecovery, SignInsHaveChallenges
  <2>2. /\ request[r].pc = "spending" /\ UNCHANGED <<issued, misses, burned, answered>>
        /\ Becomes(r, [Idle EXCEPT !.pc = "spent", !.challenge = c]) /\ c \in Challenge
    BY <1>8, <2>1 DEF SpendRecovery, limits, TypeOK
  <2>3. PICK q \in Signing : Becomes(r, q) /\ q.pc = "spent" /\ q.challenge = c
    <3>1. PICK q : q = [Idle EXCEPT !.pc = "spent", !.challenge = c]
      OBVIOUS
    <3>2. q \in Signing /\ q.pc = "spent" /\ q.challenge = c
      BY <2>2, <3>1 DEF Idle, Signing
    <3> QED
      BY <2>2, <3>1, <3>2
  <2>4. request'[r] = q /\ \A p \in Request \ {r} : request'[p] = request[p]
    BY <2>3, OneMoves
  <2>5. Passing(c)' = Passing(c) /\ Opened(c)' = Opened(c)
    BY <2>1, <2>2, <2>3, <2>4 DEF Passing, Opened
  <2>6. CountedFor(c)'
    BY <2>2, <2>5 DEF TriesAreCounted, CountedFor
  <2> QED
    BY <1>3, <2>1, <2>2, <2>3, <2>4, <2>6, OthersStayCounted
<1>9. ASSUME NEW r \in Request, RecoveryAdmits(r)
      PROVE  SignInsHaveChallenges' /\ TriesAreCounted'
  <2>1. PICK c \in issued : c = request[r].challenge
    BY <1>9 DEF RecoveryAdmits, SignInsHaveChallenges
  <2>2. /\ request[r].pc = "spent" /\ UNCHANGED <<issued, answered>> /\ Becomes(r, Idle)
        /\ Closed(c) /\ c \in Challenge
    BY <1>9, <2>1 DEF RecoveryAdmits, Admitted, TypeOK
  <2>3. request'[r].pc = "none" /\ \A q \in Request \ {r} : request'[q] = request[q]
    BY <2>2, NotSigning, OneMoves
  <2>4. c \in burned' /\ \A d \in Challenge \ {c} : /\ misses'[d] = misses[d]
                                                    /\ d \in burned' <=> d \in burned
    BY <2>2, ChallengeWritten DEF Closed
  <2>5. Opened(c)' = Opened(c)
    BY <2>2, <2>3 DEF Opened
  <2>6. CountedFor(c)'
    <3>1. CASE c \in burned
      BY <2>2, <2>4, <2>5, <3>1 DEF TriesAreCounted, CountedFor
    <3>2. CASE c \notin burned
      <4>1. answered[c] <= misses[c] + Cardinality(Passing(c))
        BY <2>2, <3>2 DEF TriesAreCounted, CountedFor
      <4>2. answered[c] \in Nat /\ misses[c] \in Nat /\ misses[c] <= Attempts - 1
        BY <2>2, BoundsAssumed DEF TypeOK
      <4>3. answered[c] + Cardinality(Opened(c)) <= Attempts - 1 + Cardinality(Request)
        BY <4>1, <4>2, Sizes, BoundsAssumed
      <4> QED
        BY <2>2, <2>4, <2>5, <4>3 DEF CountedFor
    <3> QED
      BY <3>1, <3>2
  <2> QED
    BY <1>3, <2>1, <2>2, <2>3, <2>4, <2>6, OthersStayCounted
<1>10. CASE Restart
  <2>1. /\ burned' = {} /\ answered' = [c \in Challenge |-> 0] /\ misses' = [c \in Challenge |-> 0]
        /\ \A r \in Request : request'[r].pc = "none"
    BY <1>10, NotSigning DEF Restart
  <2>2. ASSUME NEW c \in Challenge PROVE CountedFor(c)'
    <3>1. Passing(c)' = {}
      BY <2>1 DEF Passing
    <3>2. Cardinality(Passing(c)') = 0
      BY <3>1, FS_EmptySet
    <3> QED
      BY <2>1, <3>2 DEF CountedFor
  <2> QED
    BY <2>1, <2>2 DEF SignInsHaveChallenges, TriesAreCounted
<1> QED
  BY <1>1, <1>2, <1>4, <1>5, <1>6, <1>7, <1>8, <1>9, <1>10
     DEF Next, SignInStep, ConsoleStep, TimePasses, PasswordWrong, WindowPasses, Abandon, Begin,
         Activate, Store, Stored, Remint, Reminted, Forget, Forgotten, WriteFails, limits

-----------------------------------------------------------------------------
LEMMA InitIsIInv == Init => IInv
<1> SUFFICES ASSUME Init PROVE IInv
  OBVIOUS
<1>1. \A r \in Request : request[r].pc = "none"
  BY NotSigning DEF Init
<1>2. TypeOK
  <2>1. 0 \in 0 .. Attempts - 1 /\ 0 \in 0 .. MaxStep
    BY BoundsAssumed
  <2> QED
    BY <2>1, NotSigning, Writings DEF Init, TypeOK
<1>3. SignInsReadSound /\ DesksWriteSound
  BY <1>1, Writings DEF Init, SignInsReadSound, DesksWriteSound, MintsSoundly
<1>4. SignInsHaveChallenges /\ EnrolmentIsProven /\ AcceptedAreKnown
  BY <1>1 DEF Init, SignInsHaveChallenges, EnrolmentIsProven, AcceptedAreKnown
<1>5. ASSUME NEW c \in Challenge PROVE CountedFor(c)
  <2>1. Cardinality(Passing(c)) \in Nat
    BY Sizes
  <2> QED
    BY <2>1 DEF Init, CountedFor
<1> QED
  BY <1>2, <1>3, <1>4, <1>5 DEF IInv, TriesAreCounted

LEMMA StepKeepsIInv == IInv /\ [Next]_vars => IInv'
<1> SUFFICES ASSUME TypeOK, SignInsReadSound, DesksWriteSound, SignInsHaveChallenges,
                    EnrolmentIsProven, AcceptedAreKnown, TriesAreCounted, [Next]_vars
             PROVE  IInv'
  BY DEF IInv
<1>1. CASE Next
  <2>1. TypeOK'
    BY <1>1, SignInTypes, ConsoleTypes, ServiceTypes DEF Next
  <2> QED
    BY <1>1, <2>1, SignInsStaySound, DesksStaySound, EnrolmentStaysProven, AcceptedStayKnown,
       SignInsStayCounted DEF IInv
<1>2. CASE UNCHANGED vars
  <2> USE <1>2 DEF vars, stored, memory, fresh, limits
  <2>1. TypeOK'
    BY DEF TypeOK
  <2>2. SignInsReadSound' /\ DesksWriteSound'
    BY DEF SignInsReadSound, DesksWriteSound, MintsSoundly, Sound
  <2>3. SignInsHaveChallenges' /\ EnrolmentIsProven' /\ AcceptedAreKnown'
    BY DEF SignInsHaveChallenges, EnrolmentIsProven, Sound, AcceptedAreKnown
  <2>4. TriesAreCounted'
    BY DEF TriesAreCounted, CountedFor, Opened, Passing
  <2> QED
    BY <2>1, <2>2, <2>3, <2>4 DEF IInv
<1> QED
  BY <1>1, <1>2

LEMMA Invariance == Spec => []IInv
BY InitIsIInv, StepKeepsIInv, PTL DEF Spec

(***************************************************************************)
(* The row, the console's requests and the sign-ins keep their types; a    *)
(* challenge never counts as many misses as it is worth (challenge.js).    *)
(***************************************************************************)
THEOREM TypeCorrect == Spec => []TypeOK
<1>1. IInv => TypeOK
  BY DEF IInv
<1> QED
  BY Invariance, <1>1, PTL

(***************************************************************************)
(* However many sign-ins, activations, remints and disables overlap, and   *)
(* wherever one fails: what is in force was proven by a code, its recovery *)
(* codes are of one minting for that very secret, and after a disable      *)
(* nothing is in force until an activation writes (second-factor.js).      *)
(* Which of several proven secrets is in force is not promised.            *)
(***************************************************************************)
THEOREM OnlyProvenEnrolments == Spec => []EnrolmentIsProven
<1>1. IInv => EnrolmentIsProven
  BY DEF IInv
<1> QED
  BY Invariance, <1>1, PTL

(***************************************************************************)
(* One right password is worth the codes of its challenge, and one more    *)
(* for each sign-in that had read it (auth.js, challenge.js).              *)
(***************************************************************************)
THEOREM ChallengesAreWornOut == Spec => []GuessesPerChallenge
<1>1. IInv => GuessesPerChallenge
  <2> SUFFICES ASSUME IInv, NEW c \in Challenge
               PROVE  answered[c] <= Attempts - 1 + Cardinality(Request)
    BY DEF GuessesPerChallenge
  <2>1. CountedFor(c) /\ answered[c] \in Nat /\ misses[c] \in Nat /\ misses[c] <= Attempts - 1
    BY BoundsAssumed DEF IInv, TypeOK, TriesAreCounted
  <2>2. PICK o, p, n : /\ o = Cardinality(Opened(c)) /\ p = Cardinality(Passing(c))
                       /\ n = Cardinality(Request)
    OBVIOUS
  <2>3. o \in Nat /\ p \in Nat /\ n \in Nat /\ o + p <= n
    BY <2>2, Sizes, BoundsAssumed
  <2>4. answered[c] + o <= Attempts - 1 + n \/ answered[c] <= misses[c] + p
    BY <2>1, <2>2 DEF CountedFor
  <2>5. answered[c] <= Attempts - 1 + n
    BY <2>1, <2>3, <2>4, BoundsAssumed
  <2> QED
    BY <2>2, <2>5
<1> QED
  BY Invariance, <1>1, PTL

(***************************************************************************)
(* A code from the app is accepted once while the service runs, for every  *)
(* drift: it is remembered until it could not be offered any more          *)
(* (totp.js).                                                              *)
(***************************************************************************)
THEOREM CodesAreSpentOnce == Spec => AppCodesAreGoodOnce
<1>1. IInv /\ [Next]_vars => [\A u \in spent' \ spent : u.ticket \notin accepted]_vars
  <2> SUFFICES ASSUME IInv, Next, NEW u \in spent' \ spent PROVE u.ticket \notin accepted
    OBVIOUS
  <2> QED
    BY AcceptedOnce DEF IInv
<1> QED
  BY Invariance, <1>1, PTL DEF Spec, AppCodesAreGoodOnce
=============================================================================
