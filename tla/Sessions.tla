------------------------------ MODULE Sessions ------------------------------
(***************************************************************************)
(* Accounts and the refresh tokens that keep their browsers signed in:     *)
(* gateway/src/tokens.js, auth.js, revoke.js and accounts.js, with what    *)
(* ends sessions: sign-out (server.js), suspension (admin/console.js) and  *)
(* erasure (erase.js).  SignIn.tla adds how accounts and sessions begin.   *)
(*                                                                         *)
(* Every SQL statement is one step.  Access tokens are not modelled: they  *)
(* are checked by signature and ask no store.  The clock is left out: a    *)
(* grace period or an expiry may end at any moment.                        *)
(***************************************************************************)
EXTENDS Naturals, FiniteSets

CONSTANTS
  Email,           \* addresses
  Key,             \* model credentials in the pool
  None,            \* no key, nobody
  Request,         \* browser requests that carry a refresh cookie, one use each
  Operator,        \* console requests and deletions under way at once
  MaxTokens        \* bound: refresh tokens ever made

ASSUME SessionsAssumption == MaxTokens \in Nat /\ None \notin Email \cup Key

VARIABLES
  account,         \* accounts.disabled, "none" for an address without a row
  key,             \* accounts.model_key
  minted,          \* the newest refresh token
  rows,            \* tokens with a row in refresh_tokens
  tok,             \* what the row of a token says, and the sign-in it began with
  req,             \* requests in authenticate()
  op,              \* the console's and the deletions' progress
  ended,           \* history: tokens a revocation was to end
  gone             \* history: addresses erased at some time

store       == <<account, key, gone>>
tokens      == <<minted, rows, tok, ended>>
sessionVars == <<store, tokens, req, op>>

Token == 1 .. MaxTokens

SessionsTypeOK ==
  /\ account \in [Email -> {"none", "active", "disabled"}]
  /\ key \in [Email -> Key \cup {None}]
  /\ minted \in 0 .. MaxTokens
  /\ rows \subseteq 1 .. minted
  /\ tok \in [Token -> [email : Email \cup {None}, root : 0 .. MaxTokens, next : 0 .. MaxTokens,
                        state : {"fresh", "spent", "stale"}]]
  /\ req \in [Request -> [pc : {"idle", "missed", "rotated", "spent", "in", "refused"},
                          tok : 0 .. MaxTokens, new : 0 .. MaxTokens, late : BOOLEAN]]
  /\ op \in [Operator -> [pc : {"idle", "suspend", "restore", "revoke", "erase"},
                          email : Email \cup {None}]]
  /\ ended \subseteq Token /\ gone \subseteq Email

Fresh(e, t) == [email |-> e, root |-> t, next |-> 0, state |-> "fresh"]

\* The founders are registered, each signed in once: owner says with which token.
SessionsInit(founders, owner) ==
  /\ account = [e \in Email |-> IF e \in founders THEN "active" ELSE "none"]
  /\ key = [e \in Email |-> None]
  /\ minted = Cardinality(founders) /\ rows = 1 .. minted
  /\ ended = {} /\ gone = {}
  /\ tok = [t \in Token |-> IF t <= minted THEN Fresh(owner[t], t)
                            ELSE [email |-> None, root |-> 0, next |-> 0,
                                  state |-> "stale"]]
  /\ req = [r \in Request |-> [pc |-> "idle", tok |-> 0, new |-> 0, late |-> FALSE]]
  /\ op = [o \in Operator |-> [pc |-> "idle", email |-> None]]

Registered(e) == account[e] # "none"
Of(e) == {t \in rows : tok[t].email = e}

\* Tokens a rotation has promised and not stored yet.
InFlight == {req[r].new : r \in {q \in Request : req[q].pc = "rotated"}}

-----------------------------------------------------------------------------
(***************************************************************************)
(* Spending a refresh token.                                               *)
(***************************************************************************)

\* Mistake: the UPDATE forgets spent_at IS NULL.
Usable(t) == t \in rows /\ tok[t].state = "fresh"
UsableTwice(t) == t \in rows /\ tok[t].state # "stale"
Spendable(t) == Usable(t)

(***************************************************************************)
(* spendRefresh, the UPDATE: of several requests with one token, one       *)
(* retires it and names its replacement, whose row does not exist yet.     *)
(***************************************************************************)
Present(r, t) ==
  /\ req[r].pc = "idle" /\ t \in 1 .. minted
  /\ LET late == t \in ended IN
     \/ /\ Spendable(t) /\ minted < MaxTokens
        /\ minted' = minted + 1
        /\ tok' = [tok EXCEPT ![t].state = "spent", ![t].next = minted',
                              ![minted'] = [Fresh(tok[t].email, minted') EXCEPT !.root = tok[t].root]]
        /\ req' = [req EXCEPT ![r] = [pc |-> "rotated", tok |-> t, new |-> minted', late |-> late]]
     \/ /\ ~Spendable(t)
        /\ req' = [req EXCEPT ![r] = [pc |-> "missed", tok |-> t, new |-> 0, late |-> late]]
        /\ UNCHANGED <<minted, tok>>
  /\ UNCHANGED <<rows, ended, store, op>>

\* The INSERT of the replacement, which the foreign key refuses for an
\* erased account.
Store(r) ==
  /\ req[r].pc = "rotated" /\ Registered(tok[req[r].new].email)
  /\ rows' = rows \cup {req[r].new}
  /\ req' = [req EXCEPT ![r].pc = "spent"]
  /\ UNCHANGED <<minted, tok, ended, store, op>>

\* The INSERT refused, or the process or its database gone.
StoreFails(r) ==
  /\ req[r].pc = "rotated"
  /\ req' = [req EXCEPT ![r].pc = "refused"]
  /\ UNCHANGED <<tokens, store, op>>

\* The SELECT: a token spent within its grace answers with its replacement.
Replay(r) ==
  /\ req[r].pc = "missed"
  /\ LET t == req[r].tok IN
     req' = IF t \in rows /\ tok[t].state = "spent"
            THEN [req EXCEPT ![r].pc = "spent", ![r].new = tok[t].next]
            ELSE [req EXCEPT ![r].pc = "refused"]
  /\ UNCHANGED <<tokens, store, op>>

\* authenticate: the account is read only after the token was spent.
ReadAccount(r) ==
  /\ req[r].pc = "spent"
  /\ req' = [req EXCEPT ![r].pc = IF account[tok[req[r].tok].email] = "active"
                                  THEN "in" ELSE "refused"]
  /\ UNCHANGED <<tokens, store, op>>

\* A grace period ends, or a token nobody used runs out.
Ages(t) ==
  /\ t \in rows /\ tok[t].state # "stale"
  /\ tok' = [tok EXCEPT ![t].state = "stale"]
  /\ UNCHANGED <<minted, rows, ended, req, store, op>>

Sweep ==
  /\ \E t \in rows : tok[t].state = "stale"
  /\ rows' = {t \in rows : tok[t].state # "stale"}
  /\ UNCHANGED <<minted, tok, ended, req, store, op>>

-----------------------------------------------------------------------------
(***************************************************************************)
(* Ending sessions: the DELETE is to end every token of the account made   *)
(* so far.  It cannot reach the ones in flight, whose INSERT comes after.  *)
(***************************************************************************)
ToEnd(e) == {t \in 1 .. minted : tok[t].email = e} \ InFlight

\* Mistake: only the tokens still to be spent are deleted.
RevokeUnspent(e) ==
  /\ rows' = rows \ {t \in Of(e) : tok[t].state = "fresh"}
  /\ ended' = ended \cup ToEnd(e)

RevokeAll(e) ==
  /\ rows' = rows \ Of(e)
  /\ ended' = ended \cup ToEnd(e)

\* POST /logout, by a caller whose access token is good or was just renewed.
SignOut(e) ==
  /\ \E t \in 1 .. minted : tok[t].email = e
  /\ RevokeAll(e)
  /\ UNCHANGED <<minted, tok, req, store, op>>

\* POST /toggle: the account is read, then flipped to what was read, and a
\* suspension then ends what is already granted.
Toggle(o, e) ==
  /\ op[o].pc = "idle" /\ Registered(e)
  /\ op' = [op EXCEPT ![o] = [pc |-> IF account[e] = "active" THEN "suspend" ELSE "restore",
                              email |-> e]]
  /\ UNCHANGED <<tokens, req, store>>

SetDisabled(o) ==
  /\ op[o].pc \in {"suspend", "restore"}
  /\ LET e == op[o].email  suspending == op[o].pc = "suspend" IN
     /\ account' = IF ~Registered(e) THEN account
                   ELSE [account EXCEPT ![e] = IF suspending THEN "disabled" ELSE "active"]
     /\ op' = [op EXCEPT ![o].pc = IF Registered(e) /\ suspending THEN "revoke" ELSE "idle"]
  /\ UNCHANGED <<key, gone, tokens, req>>

Suspended(o) ==
  /\ op[o].pc = "revoke"
  /\ RevokeAll(op[o].email)
  /\ op' = [op EXCEPT ![o].pc = "idle"]
  /\ UNCHANGED <<minted, tok, req, store>>

\* eraseAccount, for the console or the tenant: the sessions first, then the
\* machine and the volume (Sandboxes.tla), then the row by its address, whose
\* tokens the foreign key deletes with it.
StartErase(o, e) ==
  /\ op[o].pc = "idle" /\ Registered(e)
  /\ RevokeAll(e)
  /\ op' = [op EXCEPT ![o] = [pc |-> "erase", email |-> e]]
  /\ UNCHANGED <<minted, tok, req, store>>

Erase(o) ==
  /\ op[o].pc = "erase"
  /\ LET e == op[o].email IN
     /\ account' = [account EXCEPT ![e] = "none"]
     /\ key' = [key EXCEPT ![e] = None]
     /\ gone' = gone \cup {e}
     /\ RevokeAll(e)
  /\ op' = [op EXCEPT ![o].pc = "idle"]
  /\ UNCHANGED <<minted, tok, req>>

\* The process serving it dies: what is left of the sequence never happens.
OperatorDies(o) ==
  /\ op[o].pc # "idle"
  /\ op' = [op EXCEPT ![o].pc = "idle"]
  /\ UNCHANGED <<tokens, req, store>>

SessionsNext ==
  \/ \E r \in Request : Store(r) \/ StoreFails(r) \/ Replay(r) \/ ReadAccount(r)
  \/ \E r \in Request, t \in Token : Present(r, t)
  \/ \E t \in Token : Ages(t)
  \/ Sweep
  \/ \E e \in Email : SignOut(e)
  \/ \E o \in Operator, e \in Email : Toggle(o, e) \/ StartErase(o, e)
  \/ \E o \in Operator : SetDisabled(o) \/ Suspended(o) \/ Erase(o) \/ OperatorDies(o)

-----------------------------------------------------------------------------
(***************************************************************************)
(* A revocation ends every token it can reach for good: none of them has   *)
(* its row back, and no request that presents one afterwards is let in, be *)
(* it spent and in its grace period, its sign-in in the middle of another  *)
(* rotation, the account suspended and restored since, or erased and       *)
(* registered again.  tokens.js:178-181 promises more, that none can be    *)
(* spent afterwards: a replacement between its UPDATE and its INSERT at    *)
(* the DELETE (InFlight) is inserted later and can be.                     *)
(***************************************************************************)
EndedStaysOut ==
  /\ ended \cap rows = {}
  /\ \A r \in Request : req[r].late => req[r].pc # "in"

(***************************************************************************)
(* The burst a waking browser makes (tokens.js:136): all requests let in   *)
(* with one token leave with the same replacement, and a sign-in never has *)
(* two tokens that can be spent, whoever presents which when.              *)
(***************************************************************************)
OneSuccessor ==
  /\ \A r, q \in Request : (req[r].pc = "in" /\ req[q].pc = "in" /\ req[r].tok = req[q].tok)
                             => req[r].new = req[q].new
  /\ \A t, u \in rows : (Usable(t) /\ Usable(u) /\ tok[t].root = tok[u].root) => t = u
=============================================================================
