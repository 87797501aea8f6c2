------------------------------- MODULE SignIn -------------------------------
(***************************************************************************)
(* The sign-in form: codes (gateway/src/verification.js), invites          *)
(* (invites.js), the admission itself (sign-in.js) and the model key       *)
(* claimed on the way (model-keys.js), over the accounts and sessions of   *)
(* Sessions.tla.                                                           *)
(*                                                                         *)
(* A code is right or wrong, never a number: what the form answers depends *)
(* on nothing else.  A full deployment and a spent send budget may refuse  *)
(* at any time.  Administrators, exempt from the invite, are left out.     *)
(***************************************************************************)
EXTENDS Sessions

CONSTANTS
  Founder,         \* addresses registered before the gate went up, signed in
  Try,             \* answers to codes under way at once
  Invite,          \* minted invites
  Gates,           \* what the console may set inviteRequired to
  MaxAttempts,     \* MAX_ATTEMPTS
  MaxCodes,        \* bound: codes ever sent
  MaxTries         \* bound: answers ever given

ASSUME SignInAssumption ==
  /\ Founder \subseteq Email /\ Gates \subseteq BOOLEAN
  /\ IsFiniteSet(Founder) /\ Cardinality(Founder) <= MaxTokens
  /\ IsFiniteSet(Try) /\ Try # {}
  /\ MaxAttempts \in Nat \ {0}
  /\ {MaxCodes, MaxTries} \subseteq Nat

VARIABLES
  gate,            \* settings: is an invite required
  codes,           \* codes made so far
  chal,            \* the row of an address in challenges: its code, 0 for no
                   \* row, and the wrong guesses answered for it (history)
  redeemed,        \* who redeemed an invite
  holder,          \* model_keys.email
  try,             \* handleSignIn with a code
  tries,           \* answers given so far
  free             \* history: addresses that registered through an open gate

formVars == <<gate, codes, chal, redeemed, holder, try, tries, free>>
vars     == <<sessionVars, formVars>>

Row(c) == [code |-> c, known |-> FALSE, cooling |-> c # 0, attempts |-> 0, guessed |-> 0]
NoRow == Row(0)
Nobody == [pc |-> "idle", email |-> None, code |-> 0, seen |-> 0,
           gated |-> FALSE, key |-> None]

\* One type invariant for both modules.  A code's attempts stay below what
\* the answers under way can add to the last count that lets it live.
TypeOK ==
  /\ SessionsTypeOK
  /\ gate \in BOOLEAN
  /\ codes \in 0 .. MaxCodes
  /\ chal \in [Email -> [code : 0 .. codes, known : BOOLEAN, cooling : BOOLEAN,
                      attempts : 0 .. MaxAttempts + Cardinality(Try), guessed : 0 .. MaxTries]]
  /\ \A e \in Email : chal[e].attempts < MaxAttempts + Cardinality(Try) - 1
  /\ redeemed \in [Invite -> SUBSET Email]
  /\ holder \in [Key -> Email \cup {None}]
  /\ try \in [Try -> [pc : {"idle", "wrong", "right", "redeem", "admit", "consume",
                            "claim", "claiming", "issue"},
                      email : Email \cup {None}, code : 0 .. MaxCodes, seen : 0 .. MaxTries,
                      gated : BOOLEAN, key : Key \cup {None}]]
  /\ tries \in 0 .. MaxTries
  /\ free \subseteq Email

Init ==
  /\ \E owner \in [1 .. Cardinality(Founder) -> Founder] :
       /\ Founder = {owner[t] : t \in DOMAIN owner}
       /\ SessionsInit(Founder, owner)
  /\ gate \in Gates
  /\ chal = [e \in Email |-> NoRow]
  /\ redeemed = [i \in Invite |-> {}]
  /\ holder = [k \in Key |-> None]
  /\ try = [s \in Try |-> Nobody]
  /\ tries = 0 /\ codes = 0 /\ free = {}

-----------------------------------------------------------------------------
(***************************************************************************)
(* Challenges.                                                             *)
(***************************************************************************)
MayReceive(e) == ~gate \/ Registered(e) \/ \E i \in Invite : redeemed[i] = {}

\* The first step of the form, and open(): one upsert that refuses during
\* the cooldown.  The mail may be withheld or fail with the row written.
Ask(e) ==
  /\ MayReceive(e) /\ ~chal[e].cooling /\ codes < MaxCodes
  /\ codes' = codes + 1
  /\ \E mailed \in BOOLEAN : chal' = [chal EXCEPT ![e] = [Row(codes') EXCEPT !.known = mailed]]
  /\ UNCHANGED <<sessionVars, gate, redeemed, holder, try, tries, free>>

CoolsDown(e) ==
  /\ chal[e].cooling
  /\ chal' = [chal EXCEPT ![e].cooling = FALSE]
  /\ UNCHANGED <<sessionVars, gate, codes, redeemed, holder, try, tries, free>>

\* A code runs out, and the row is swept; never before its cooldown is over.
Lapses(e) ==
  /\ chal[e].code # 0 /\ ~chal[e].cooling
  /\ chal' = [chal EXCEPT ![e] = NoRow]
  /\ UNCHANGED <<sessionVars, gate, codes, redeemed, holder, try, tries, free>>

\* answer(), the SELECT.  The gate is read before it, once per request.
Answer(s, e, verdict) ==
  /\ try[s].pc = "idle" /\ tries < MaxTries
  /\ chal[e].code # 0 /\ (verdict = "right" => chal[e].known)
  /\ tries' = tries + 1
  /\ try' = [try EXCEPT ![s] = [pc |-> verdict, email |-> e, code |-> chal[e].code,
                                seen |-> chal[e].attempts, gated |-> gate, key |-> None]]
  /\ chal' = IF verdict = "right" THEN chal ELSE [chal EXCEPT ![e].guessed = @ + 1]
  /\ UNCHANGED <<sessionVars, gate, codes, redeemed, holder, free>>

\* Mistake: the guess that reaches MAX_ATTEMPTS still counts as one more.
WrongOnceMore(s) ==
  /\ try[s].pc = "wrong"
  /\ LET e == try[s].email IN
     chal' = IF try[s].seen + 1 > MaxAttempts THEN [chal EXCEPT ![e] = NoRow]
             ELSE IF chal[e].code # 0 THEN [chal EXCEPT ![e].attempts = @ + 1] ELSE chal
  /\ try' = [try EXCEPT ![s] = Nobody]
  /\ UNCHANGED <<sessionVars, gate, codes, redeemed, holder, tries, free>>

\* The attempts the SELECT read decide between the DELETE and the UPDATE,
\* and both go by the address: they meet the code it has by then.
Wrong(s) ==
  /\ try[s].pc = "wrong"
  /\ LET e == try[s].email IN
     chal' = IF try[s].seen + 1 >= MaxAttempts THEN [chal EXCEPT ![e] = NoRow]
             ELSE IF chal[e].code # 0 THEN [chal EXCEPT ![e].attempts = @ + 1] ELSE chal
  /\ try' = [try EXCEPT ![s] = Nobody]
  /\ UNCHANGED <<sessionVars, gate, codes, redeemed, holder, tries, free>>

-----------------------------------------------------------------------------
(***************************************************************************)
(* Admission, from an answered code to a session.                          *)
(***************************************************************************)
Step(s, pc) == try' = [try EXCEPT ![s].pc = pc]
Ends(s) == try' = [try EXCEPT ![s] = Nobody]

\* The capacity is asked, then whether an invite is needed.  Neither a
\* refusal here nor a refused invite costs the code.
Right(s) ==
  /\ try[s].pc = "right"
  /\ \/ Ends(s)
     \/ Step(s, IF try[s].gated /\ ~Registered(try[s].email) THEN "redeem" ELSE "admit")
  /\ UNCHANGED <<sessionVars, gate, codes, chal, redeemed, holder, tries, free>>

\* Mistake: the invite was found usable, and is spent without asking again.
RedeemAgain(s, i) ==
  /\ try[s].pc = "redeem"
  /\ redeemed' = [redeemed EXCEPT ![i] = @ \cup {try[s].email}]
  /\ Step(s, "admit")
  /\ UNCHANGED <<sessionVars, gate, codes, chal, holder, tries, free>>

Redeem(s, i) ==
  /\ try[s].pc = "redeem" /\ redeemed[i] = {}
  /\ redeemed' = [redeemed EXCEPT ![i] = {try[s].email}]
  /\ Step(s, "admit")
  /\ UNCHANGED <<sessionVars, gate, codes, chal, holder, tries, free>>

\* admit(): registers the address or finds its account, as it is by now.
Admit(s) ==
  /\ try[s].pc = "admit"
  /\ LET e == try[s].email IN
     /\ account' = [account EXCEPT ![e] = IF Registered(e) THEN @ ELSE "active"]
     /\ free' = IF Registered(e) \/ try[s].gated THEN free ELSE free \cup {e}
     /\ IF account[e] = "disabled" THEN Ends(s) ELSE Step(s, "consume")
  /\ UNCHANGED <<key, gone, tokens, req, op, gate, codes, chal, redeemed, holder, tries>>

Consume(s) ==
  /\ try[s].pc = "consume"
  /\ chal' = [chal EXCEPT ![try[s].email] = NoRow]
  /\ Step(s, "claim")
  /\ UNCHANGED <<sessionVars, gate, codes, redeemed, holder, tries, free>>

\* Rows of model_keys that nobody claimed and no other claim has locked.
Locked == {try[q].key : q \in {p \in Try : try[p].pc = "claiming"}}
\* Mistake: SKIP LOCKED is forgotten, and the row is not looked at again.
Unheld == {k \in Key : holder[k] = None}
Pool == Unheld \ Locked

\* claim(), its snapshot: a key held already, or a free row locked.  A pool
\* that looks empty costs the key and not the sign-in.
Claim(s) ==
  /\ try[s].pc = "claim"
  /\ IF key[try[s].email] # None \/ Pool = {}
     THEN Step(s, "issue")
     ELSE \E k \in Pool : try' = [try EXCEPT ![s].pc = "claiming", ![s].key = k]
  /\ UNCHANGED <<sessionVars, gate, codes, chal, redeemed, holder, tries, free>>

\* Mistake: nothing keeps an address from holding two keys.
ClaimWritesTwice(s) ==
  /\ try[s].pc = "claiming"
  /\ LET e == try[s].email  k == try[s].key IN
     /\ holder' = [holder EXCEPT ![k] = e]
     /\ key' = IF Registered(e) THEN [key EXCEPT ![e] = k] ELSE key
  /\ try' = [try EXCEPT ![s].pc = "issue", ![s].key = None]
  /\ UNCHANGED <<account, gone, tokens, req, op, gate, codes, chal, redeemed, tries, free>>

\* claim(), its writes.  email is UNIQUE: a second key for an address makes
\* the statement fail, which the form logs and steps over.
ClaimWrites(s) ==
  /\ try[s].pc = "claiming"
  /\ LET e == try[s].email  k == try[s].key IN
     IF \E h \in Key : holder[h] = e
     THEN UNCHANGED <<holder, key>>
     ELSE /\ holder' = [holder EXCEPT ![k] = e]
          /\ key' = IF Registered(e) THEN [key EXCEPT ![e] = k] ELSE key
  /\ try' = [try EXCEPT ![s].pc = "issue", ![s].key = None]
  /\ UNCHANGED <<account, gone, tokens, req, op, gate, codes, chal, redeemed, tries, free>>

\* issueRefresh: the first token of a session, if the account is still there.
Issue(s) ==
  /\ try[s].pc = "issue" /\ Registered(try[s].email) /\ minted < MaxTokens
  /\ minted' = minted + 1
  /\ rows' = rows \cup {minted'}
  /\ tok' = [tok EXCEPT ![minted'] = Fresh(try[s].email, minted')]
  /\ Ends(s)
  /\ UNCHANGED <<ended, store, req, op, gate, codes, chal, redeemed, holder, tries, free>>

\* The invite refused, a statement that fails, or the process gone: a wrong
\* guess is then not answered.
Dies(s) ==
  /\ try[s].pc # "idle"
  /\ LET e == try[s].email IN
     chal' = IF try[s].pc = "wrong" /\ chal[e].code = try[s].code
             THEN [chal EXCEPT ![e].guessed = @ - 1] ELSE chal
  /\ Ends(s)
  /\ UNCHANGED <<sessionVars, gate, codes, redeemed, holder, tries, free>>

\* The console opens or closes registration.
SetAccess ==
  /\ gate' \in Gates \ {gate}
  /\ UNCHANGED <<sessionVars, codes, chal, redeemed, holder, try, tries, free>>

FormNext ==
  \/ \E e \in Email : Ask(e) \/ CoolsDown(e) \/ Lapses(e)
  \/ \E s \in Try, e \in Email, verdict \in {"right", "wrong"} : Answer(s, e, verdict)
  \/ \E s \in Try : Wrong(s) \/ Right(s) \/ Admit(s) \/ Consume(s) \/ Claim(s)
                       \/ ClaimWrites(s) \/ Issue(s) \/ Dies(s)
  \/ \E s \in Try, i \in Invite : Redeem(s, i)
  \/ SetAccess

Next == (SessionsNext /\ UNCHANGED formVars) \/ FormNext

Spec == Init /\ [][Next]_vars

-----------------------------------------------------------------------------
(***************************************************************************)
(* One code survives few wrong guesses even though each is judged by a     *)
(* count another statement increments (verification.js:97): those answered *)
(* one after the other stop at MAX_ATTEMPTS, and each further answer under *)
(* way at the same time adds at most two.                                  *)
(***************************************************************************)
GuessesBounded ==
  \A e \in Email : chal[e].guessed <= MaxAttempts + 2 * (Cardinality(Try) - 1)

(***************************************************************************)
(* Registration is granted (invites.js:22): an account either predates the *)
(* gate, or came through it while it was open, or has an invite of its own *)
(* - however many forms were sent at once, and whatever the gate or the    *)
(* accounts became while one was being answered.                           *)
(***************************************************************************)
EveryoneWasInvited ==
  /\ \A e \in Email : Registered(e) => \/ e \in Founder \cup free
                                      \/ \E i \in Invite : e \in redeemed[i]
  /\ \A i \in Invite : Cardinality(redeemed[i]) <= 1

(***************************************************************************)
(* The pool and the accounts agree (model-keys.js:66): an account's key is *)
(* recorded as its own and nobody else's, and what is recorded for an      *)
(* address is on its account, unless the account was erased since.         *)
(***************************************************************************)
KeysAgree ==
  /\ \A e \in Email : key[e] # None => holder[key[e]] = e
  /\ \A k \in Key : holder[k] \in Email \ gone => key[holder[k]] = k
=============================================================================
