---------------------------- MODULE SignInProofs ----------------------------
(***************************************************************************)
(* What holds of sessions and of the sign-in form for every number of      *)
(* addresses, requests, answers, invites and keys.                         *)
(***************************************************************************)
EXTENDS SignIn, FiniteSetTheorems, TLAPS

(***************************************************************************)
(* Sessions.  A token that was made stays with the sign-in it began with,  *)
(* so tokens of one sign-in are of one address, and only tokens that were  *)
(* made are ended.                                                         *)
(***************************************************************************)
TokensHaveRoots ==
  /\ \A t \in 1 .. minted : /\ tok[t].root \in 1 .. minted
                            /\ tok[t].email = tok[tok[t].root].email
  /\ ended \subseteq 1 .. minted

\* No revocation reaches the replacement a rotation is about to store.
RotationsGoOn ==
  \A r \in Request : req[r].pc = "rotated" =>
    req[r].new \in 1 .. minted /\ req[r].new \notin ended

\* A request that came too late found no row, and will find none.
LateFindNothing ==
  \A r \in Request : req[r].late =>
    /\ req[r].pc \in {"missed", "refused"}
    /\ req[r].tok \in 1 .. minted /\ req[r].tok \in ended

\* Whoever got past the statement holds the one replacement of its token,
\* which is not fresh any more and so is given no other.
SpentHaveOneNext ==
  \A r \in Request : req[r].pc \in {"rotated", "spent", "in"} =>
    /\ req[r].tok \in 1 .. minted
    /\ tok[req[r].tok].state # "fresh" /\ req[r].new = tok[req[r].tok].next

\* With or without its row, a sign-in has one token that was never spent.
OneFresh ==
  \A t, u \in 1 .. minted :
    tok[t].state = "fresh" /\ tok[u].state = "fresh" /\ tok[t].root = tok[u].root => t = u

TokensInv ==
  /\ TokensHaveRoots
  /\ RotationsGoOn
  /\ LateFindNothing
  /\ SpentHaveOneNext
  /\ OneFresh
  /\ EndedStaysOut

\* What the console is at, it is at for an address.
ConsoleIsNamed == \A o \in Operator : op[o].pc # "idle" => op[o].email \in Email

SessionsInv == TokensInv /\ ConsoleIsNamed

(***************************************************************************)
(* The form.  An answer under way is about a code that was made.           *)
(***************************************************************************)
AnswersAreAboutCodes ==
  \A s \in Try : try[s].pc # "idle" => try[s].code \in 1 .. codes /\ try[s].email \in Email

\* Wrong answers under way for an address, those of them that will not
\* delete its row, and those about the code it has.
Guessing(e) == {s \in Try : try[s].pc = "wrong" /\ try[s].email = e}
Counting(e) == {s \in Guessing(e) : try[s].seen + 1 < MaxAttempts}
Current(e) == {s \in Guessing(e) : try[s].code = chal[e].code}

(***************************************************************************)
(* What was guessed at a code was counted or is under way; what is counted *)
(* and what will be stay below the cap and one more for each answer.       *)
(***************************************************************************)
GuessesAreCounted ==
  \A e \in Email :
    /\ chal[e].code = 0 => chal[e] = NoRow
    /\ Cardinality(Current(e)) <= chal[e].guessed
    /\ chal[e].guessed <= chal[e].attempts + Cardinality(Current(e))
    /\ chal[e].attempts + Cardinality(Counting(e)) <= MaxAttempts + Cardinality(Try) - 2
    /\ chal[e].attempts + Cardinality(Guessing(e)) <= tries

Vouched(e) == e \in Founder \cup free \/ \E i \in Invite : e \in redeemed[i]

(***************************************************************************)
(* An answer that is admitted behind the gate has something to show for    *)
(* it, whatever became of its account since the gate was asked.            *)
(***************************************************************************)
AdmittedAreVouched ==
  /\ \A e \in Email : Registered(e) => Vouched(e)
  /\ \A s \in Try : try[s].pc = "admit" /\ try[s].gated => Vouched(try[s].email)
  /\ \A i \in Invite : redeemed[i] = {} \/ \E e \in Email : redeemed[i] = {e}

(***************************************************************************)
(* A claim holds the lock of a row nobody has, each its own, and what is   *)
(* past the admission has an account or had one.                           *)
(***************************************************************************)
ClaimsAreTheirOwn ==
  /\ \A s \in Try : try[s].pc = "claiming" => try[s].key \in Key /\ holder[try[s].key] = None
  /\ \A s, q \in Try : try[s].pc = "claiming" /\ try[q].pc = "claiming"
                         /\ try[s].key = try[q].key => s = q
  /\ \A s \in Try : try[s].pc \in {"consume", "claim", "claiming", "issue"} =>
       Registered(try[s].email) \/ try[s].email \in gone

FormInv ==
  /\ AnswersAreAboutCodes
  /\ GuessesAreCounted
  /\ AdmittedAreVouched
  /\ ClaimsAreTheirOwn
  /\ KeysAgree

-----------------------------------------------------------------------------
(***************************************************************************)
(* Requests: what a record written to `req` is.                            *)
(***************************************************************************)
Asking == [pc : {"idle", "missed", "rotated", "spent", "in", "refused"},
           tok : 0 .. MaxTokens, new : 0 .. MaxTokens, late : BOOLEAN]
Kept == [email : Email \cup {None}, root : 0 .. MaxTokens, next : 0 .. MaxTokens,
         state : {"fresh", "spent", "stale"}]

LEMMA KeptUpdates ==
  ASSUME NEW k \in Kept, NEW n \in 0 .. MaxTokens
  PROVE  /\ [[k EXCEPT !.state = "spent"] EXCEPT !.next = n]
              = [email |-> k.email, root |-> k.root, next |-> n, state |-> "spent"]
         /\ [Fresh(k.email, n) EXCEPT !.root = k.root]
              = [email |-> k.email, root |-> k.root, next |-> 0, state |-> "fresh"]
         /\ [email |-> k.email, root |-> k.root, next |-> n, state |-> "spent"] \in Kept
         /\ [email |-> k.email, root |-> k.root, next |-> 0, state |-> "fresh"] \in Kept
<1>1. [k EXCEPT !.state = "spent"]
        = [email |-> k.email, root |-> k.root, next |-> k.next, state |-> "spent"]
  BY SessionsAssumption DEF Kept
<1>2. [email |-> k.email, root |-> k.root, next |-> k.next, state |-> "spent"] \in Kept
  BY SessionsAssumption DEF Kept
<1>3. PICK a \in Kept : /\ a = [k EXCEPT !.state = "spent"]
                        /\ a.email = k.email /\ a.root = k.root /\ a.state = "spent"
  BY <1>1, <1>2
<1>4. [a EXCEPT !.next = n]
        = [email |-> a.email, root |-> a.root, next |-> n, state |-> a.state]
  BY SessionsAssumption DEF Kept
<1>5. [Fresh(k.email, n) EXCEPT !.root = k.root]
        = [email |-> k.email, root |-> k.root, next |-> 0, state |-> "fresh"]
  BY DEF Fresh
<1>6. /\ [email |-> k.email, root |-> k.root, next |-> n, state |-> "spent"] \in Kept
      /\ [email |-> k.email, root |-> k.root, next |-> 0, state |-> "fresh"] \in Kept
  BY SessionsAssumption DEF Kept
<1> QED
  BY <1>3, <1>4, <1>5, <1>6

LEMMA TwoTokensWritten ==
  ASSUME NEW f \in [Token -> Kept], NEW t \in Token, NEW m \in Token, NEW n, NEW b,
         NEW g, g = [f EXCEPT ![t].state = "spent", ![t].next = n, ![m] = b]
  PROVE  g = [f EXCEPT ![t] = [[f[t] EXCEPT !.state = "spent"] EXCEPT !.next = n], ![m] = b]
OBVIOUS

\* What a rotation writes to the two tokens it is about, and to no other.
LEMMA Rotates ==
  ASSUME SessionsTypeOK, TokensHaveRoots, NEW t \in 1 .. minted, minted < MaxTokens,
         minted' = minted + 1,
         tok' = [tok EXCEPT ![t].state = "spent", ![t].next = minted',
                   ![minted'] = [Fresh(tok[t].email, minted') EXCEPT !.root = tok[t].root]]
  PROVE  /\ minted' \in Token /\ t # minted'
         /\ tok' \in [Token -> Kept]
         /\ tok'[minted'].email = tok[t].email /\ tok'[minted'].root = tok[t].root
         /\ tok'[t].email = tok[t].email /\ tok'[t].root = tok[t].root
         /\ tok'[minted'].state = "fresh" /\ tok'[t].state = "spent" /\ tok'[t].next = minted'
         /\ \A u \in Token \ {t, minted'} : tok'[u] = tok[u]
<1>1. /\ minted \in 0 .. MaxTokens /\ MaxTokens \in Nat
      /\ minted' \in Token /\ t \in Token /\ t # minted'
      /\ minted' \in 0 .. MaxTokens /\ 0 \in 0 .. MaxTokens
  BY SessionsAssumption DEF SessionsTypeOK, Token
<1>2. tok \in [Token -> Kept]
  BY DEF SessionsTypeOK, Kept
<1>3. PICK k \in Kept : k = tok[t]
  BY <1>1, <1>2
<1>4. PICK n \in 0 .. MaxTokens : n = minted'
  BY <1>1
<1>5. /\ [[k EXCEPT !.state = "spent"] EXCEPT !.next = n]
           = [email |-> k.email, root |-> k.root, next |-> n, state |-> "spent"]
      /\ [email |-> k.email, root |-> k.root, next |-> n, state |-> "spent"] \in Kept
  BY KeptUpdates
<1>6. PICK a \in Kept : /\ a = [email |-> k.email, root |-> k.root, next |-> n, state |-> "spent"]
                        /\ a = [[k EXCEPT !.state = "spent"] EXCEPT !.next = n]
  BY <1>5, Zenon
<1>7. PICK b \in Kept : /\ b = [email |-> k.email, root |-> k.root, next |-> 0, state |-> "fresh"]
                        /\ b = [Fresh(k.email, n) EXCEPT !.root = k.root]
  BY <1>1, KeptUpdates
<1>8. tok' = [tok EXCEPT ![t] = a, ![n] = b]
  <2>1. tok' = [tok EXCEPT ![t].state = "spent", ![t].next = n, ![n] = b]
    BY <1>3, <1>4, <1>7
  <2> QED
    BY <2>1, <1>1, <1>2, <1>3, <1>4, <1>6, TwoTokensWritten
<1>9. tok' \in [Token -> Kept] /\ tok'[n] = b /\ tok'[t] = a
      /\ \A u \in Token \ {t, n} : tok'[u] = tok[u]
  BY <1>1, <1>2, <1>4, <1>8
<1> QED
  BY <1>1, <1>3, <1>4, <1>6, <1>7, <1>9

(***************************************************************************)
(* A revocation ends what it finds and nothing that is still to be stored. *)
(***************************************************************************)
LEMMA Revokes ==
  ASSUME SessionsTypeOK, TokensInv, NEW e, RevokeAll(e), UNCHANGED <<minted, tok, req>>
  PROVE  /\ rows' \subseteq 1 .. minted' /\ ended' \subseteq Token
         /\ TokensInv'
<1> USE DEF TokensInv
<1>1. minted \in 0 .. MaxTokens /\ MaxTokens \in Nat /\ rows \subseteq 1 .. minted
  BY SessionsAssumption DEF SessionsTypeOK
<1>2. \A t : t \in ended' => t \in ended \/ /\ t \in 1 .. minted /\ tok[t].email = e
                                             /\ \A r \in Request : req[r].pc = "rotated" => req[r].new # t
  BY DEF RevokeAll, ToEnd, InFlight
<1>3. ended \subseteq ended' /\ rows' = {t \in rows : tok[t].email # e}
  BY DEF RevokeAll, Of
<1>4. rows' \subseteq 1 .. minted'
  BY <1>1, <1>3
<1>5. ended' \subseteq 1 .. minted
  BY <1>2 DEF TokensHaveRoots
<1>6. TokensHaveRoots'
  BY <1>5 DEF TokensHaveRoots
<1>7. RotationsGoOn'
  BY <1>2 DEF RotationsGoOn
<1>8. LateFindNothing' /\ SpentHaveOneNext' /\ OneFresh'
  BY <1>3 DEF LateFindNothing, SpentHaveOneNext, OneFresh
<1>9. EndedStaysOut'
  <2>1. ended' \cap rows' = {}
    BY <1>2, <1>3 DEF EndedStaysOut
  <2>2. \A r \in Request : req'[r].late => req'[r].pc # "in"
    BY DEF EndedStaysOut
  <2> QED
    BY <2>1, <2>2 DEF EndedStaysOut
<1> QED
  BY <1>1, <1>4, <1>5, <1>6, <1>7, <1>8, <1>9 DEF Token

(***************************************************************************)
(* One lemma for each statement a request sends.                           *)
(***************************************************************************)
LEMMA PresentKeeps ==
  ASSUME SessionsTypeOK, TokensInv, NEW r \in Request, NEW t \in Token, Present(r, t)
  PROVE  SessionsTypeOK' /\ TokensInv'
<1> USE DEF TokensInv
<1>0. /\ minted \in 0 .. MaxTokens /\ MaxTokens \in Nat /\ rows \subseteq 1 .. minted
      /\ req \in [Request -> Asking] /\ tok \in [Token -> Kept]
      /\ t \in 1 .. minted /\ req[r].pc = "idle"
  BY SessionsAssumption DEF SessionsTypeOK, Asking, Kept, Present
<1>1. UNCHANGED <<rows, ended, account, key, gone, op>>
  BY DEF Present, store
<1> DEFINE late == t \in ended
<1>2. CASE Spendable(t)
  <2>1. /\ minted < MaxTokens /\ minted' = minted + 1
        /\ tok' = [tok EXCEPT ![t].state = "spent", ![t].next = minted',
                     ![minted'] = [Fresh(tok[t].email, minted') EXCEPT !.root = tok[t].root]]
        /\ req' = [req EXCEPT ![r] = [pc |-> "rotated", tok |-> t, new |-> minted', late |-> late]]
    BY <1>2 DEF Present
  <2>2. /\ minted' \in Token /\ t # minted'
        /\ tok' \in [Token -> Kept]
        /\ tok'[minted'].email = tok[t].email /\ tok'[minted'].root = tok[t].root
        /\ tok'[t].email = tok[t].email /\ tok'[t].root = tok[t].root
        /\ tok'[minted'].state = "fresh" /\ tok'[t].state = "spent" /\ tok'[t].next = minted'
        /\ \A u \in Token \ {t, minted'} : tok'[u] = tok[u]
    BY <1>0, <2>1, Rotates
  <2>3. t \in rows /\ tok[t].state = "fresh" /\ ~late
    BY <1>2 DEF Spendable, Usable, EndedStaysOut
  <2>4. [pc |-> "rotated", tok |-> t, new |-> minted', late |-> late] \in Asking
    BY <1>0, <2>2 DEF Asking, Token
  <2>5. /\ req' \in [Request -> Asking]
        /\ req'[r].pc = "rotated" /\ req'[r].tok = t /\ req'[r].new = minted' /\ ~req'[r].late
        /\ \A q \in Request \ {r} : req'[q] = req[q]
    <3>1. PICK a \in Asking : a = [pc |-> "rotated", tok |-> t, new |-> minted', late |-> late]
      BY <2>4
    <3>2. req' = [req EXCEPT ![r] = a]
      BY <2>1, <3>1
    <3>3. a.pc = "rotated" /\ a.tok = t /\ a.new = minted' /\ ~a.late
      BY <2>3, <3>1
    <3> HIDE DEF late
    <3> QED
      BY <1>0, <3>2, <3>3
  <2>6. \A u \in 1 .. minted : tok'[u].root = tok[u].root /\ tok'[u].email = tok[u].email
    <3> SUFFICES ASSUME NEW u \in 1 .. minted
                 PROVE tok'[u].root = tok[u].root /\ tok'[u].email = tok[u].email
      OBVIOUS
    <3>1. u \in Token /\ u # minted'
      BY <1>0, <2>1, <2>2 DEF Token
    <3> QED
      BY <2>2, <3>1
  <2>7. SessionsTypeOK'
    <3>1. minted' \in 0 .. MaxTokens /\ rows' \subseteq 1 .. minted'
      BY <1>0, <1>1, <2>1
    <3>2. UNCHANGED <<account, key, op, ended, gone>> /\ SessionsTypeOK
      BY <1>1
    <3>3. req' \in [Request -> Asking] /\ tok' \in [Token -> Kept]
      BY <2>2, <2>5
    <3> QED
      BY <3>1, <3>2, <3>3 DEF SessionsTypeOK, Asking, Kept, Token
  <2>8. TokensHaveRoots'
    <3>1. \A u \in 1 .. minted : tok[u].root \in 1 .. minted /\ tok[u].email = tok[tok[u].root].email
      BY DEF TokensHaveRoots
    <3>2. \A u \in 1 .. minted' : u \in 1 .. minted \/ u = minted'
      BY <1>0, <2>1
    <3>3. \A n \in 1 .. minted : n \in 1 .. minted'
      BY <1>0, <2>1
    <3>4. ASSUME NEW u \in 1 .. minted
          PROVE  tok'[u].root \in 1 .. minted' /\ tok'[u].email = tok'[tok'[u].root].email
      BY <2>6, <3>1, <3>3
    <3>5. tok'[minted'].root \in 1 .. minted' /\ tok'[minted'].email = tok'[tok'[minted'].root].email
      <4>1. tok'[minted'].root = tok[t].root /\ tok'[minted'].email = tok[t].email
        BY <2>2
      <4>2. tok[t].root \in 1 .. minted /\ tok[t].email = tok[tok[t].root].email
        BY <1>0, <3>1
      <4> QED
        BY <4>1, <4>2, <2>6, <3>3
    <3>6. ended' \subseteq 1 .. minted'
      BY <1>1, <3>3 DEF TokensHaveRoots
    <3> QED
      BY <3>2, <3>4, <3>5, <3>6 DEF TokensHaveRoots
  <2>9. RotationsGoOn'
    <3> SUFFICES ASSUME NEW q \in Request, req'[q].pc = "rotated"
                 PROVE  req'[q].new \in 1 .. minted' /\ req'[q].new \notin ended'
      BY DEF RotationsGoOn
    <3>1. CASE q = r
      <4>1. minted' \in 1 .. minted' /\ minted' \notin 1 .. minted
        BY <1>0, <2>1
      <4> QED
        BY <1>1, <2>5, <3>1, <4>1 DEF TokensHaveRoots
    <3>2. CASE q # r
      <4>1. req'[q] = req[q] /\ req[q].new \in 1 .. minted /\ req[q].new \notin ended
        BY <2>5, <3>2 DEF RotationsGoOn
      <4>2. req[q].new \in 1 .. minted'
        BY <1>0, <2>1, <4>1
      <4> QED
        BY <1>1, <4>1, <4>2
    <3> QED
      BY <3>1, <3>2
  <2>10. LateFindNothing'
    <3> SUFFICES ASSUME NEW q \in Request, req'[q].late
                 PROVE  /\ req'[q].pc \in {"missed", "refused"}
                        /\ req'[q].tok \in 1 .. minted' /\ req'[q].tok \in ended'
      BY DEF LateFindNothing
    <3>1. q # r /\ req'[q] = req[q]
      BY <2>5
    <3>2. /\ req[q].pc \in {"missed", "refused"}
          /\ req[q].tok \in 1 .. minted /\ req[q].tok \in ended
      BY <3>1 DEF LateFindNothing
    <3>3. req[q].tok \in 1 .. minted'
      BY <1>0, <2>1, <3>2
    <3> QED
      BY <1>1, <3>1, <3>2, <3>3
  <2>11. SpentHaveOneNext'
    <3> SUFFICES ASSUME NEW q \in Request, req'[q].pc \in {"rotated", "spent", "in"}
                 PROVE  /\ req'[q].tok \in 1 .. minted'
                        /\ tok'[req'[q].tok].state # "fresh"
                        /\ req'[q].new = tok'[req'[q].tok].next
      BY DEF SpentHaveOneNext
    <3>1. CASE q = r
      BY <1>0, <2>1, <2>2, <2>5, <3>1
    <3>2. CASE q # r
      <4>1. /\ req'[q] = req[q] /\ req[q].tok \in 1 .. minted
            /\ tok[req[q].tok].state # "fresh" /\ req[q].new = tok[req[q].tok].next
        BY <2>5, <3>2 DEF SpentHaveOneNext
      <4>2. req[q].tok \in Token /\ req[q].tok # t /\ req[q].tok # minted'
        BY <1>0, <2>1, <2>3, <4>1 DEF Token
      <4> QED
        BY <1>0, <2>1, <2>2, <4>1, <4>2
    <3> QED
      BY <3>1, <3>2
  <2>12. OneFresh'
    <3> SUFFICES ASSUME NEW u \in 1 .. minted', NEW w \in 1 .. minted',
                        tok'[u].state = "fresh", tok'[w].state = "fresh", tok'[u].root = tok'[w].root
                 PROVE  u = w
      BY DEF OneFresh
    <3>1. \A v \in 1 .. minted' : tok'[v].state = "fresh" =>
             v = minted' \/ (v \in 1 .. minted /\ v # t /\ tok'[v] = tok[v])
      <4> SUFFICES ASSUME NEW v \in 1 .. minted', tok'[v].state = "fresh", v # minted'
                   PROVE  v \in 1 .. minted /\ v # t /\ tok'[v] = tok[v]
        BY Zenon
      <4>1. v \in 1 .. minted /\ v # t
        BY <1>0, <2>1, <2>2
      <4> QED
        BY <1>0, <2>2, <4>1 DEF Token
    <3>2. \A v \in 1 .. minted : tok[v].state = "fresh" /\ tok[v].root = tok[t].root => v = t
      BY <1>0, <2>3 DEF OneFresh
    <3>3. tok'[minted'].root = tok[t].root
      BY <2>2
    <3> QED
      BY <3>1, <3>2, <3>3 DEF OneFresh
  <2>13. EndedStaysOut'
    BY <1>0, <1>1, <2>5, <2>6 DEF EndedStaysOut
  <2> QED
    BY <2>7, <2>8, <2>9, <2>10, <2>11, <2>12, <2>13
<1>3. CASE ~Spendable(t)
  <2>1. /\ UNCHANGED <<minted, tok>>
        /\ req' = [req EXCEPT ![r] = [pc |-> "missed", tok |-> t, new |-> 0, late |-> late]]
    BY <1>3 DEF Present
  <2>2. [pc |-> "missed", tok |-> t, new |-> 0, late |-> late] \in Asking
    BY <1>0 DEF Asking
  <2>3. /\ req' \in [Request -> Asking]
        /\ req'[r].pc = "missed" /\ req'[r].tok = t /\ req'[r].late = late
        /\ \A q \in Request \ {r} : req'[q] = req[q]
    BY <1>0, <2>1, <2>2
  <2>4. SessionsTypeOK'
    BY <1>1, <2>1, <2>3 DEF SessionsTypeOK, Asking
  <2>5. TokensHaveRoots' /\ OneFresh'
    BY <1>1, <2>1 DEF TokensHaveRoots, OneFresh
  <2>6. RotationsGoOn' /\ LateFindNothing' /\ SpentHaveOneNext' /\ EndedStaysOut'
    BY <1>0, <1>1, <2>1, <2>3 DEF RotationsGoOn, LateFindNothing, SpentHaveOneNext, EndedStaysOut
  <2> QED
    BY <2>4, <2>5, <2>6
<1> QED
  BY <1>2, <1>3

\* A request that moves on, its token and its lateness as they were.
LEMMA MovesOn ==
  ASSUME SessionsTypeOK, NEW r \in Request, NEW pc \in {"spent", "in", "refused"},
         req' = [req EXCEPT ![r].pc = pc]
  PROVE  /\ req' \in [Request -> Asking]
         /\ req'[r].pc = pc /\ req'[r].tok = req[r].tok
         /\ req'[r].new = req[r].new /\ req'[r].late = req[r].late
         /\ \A q \in Request \ {r} : req'[q] = req[q]
<1>1. req \in [Request -> Asking] /\ MaxTokens \in Nat
  BY SessionsAssumption DEF SessionsTypeOK, Asking
<1>2. \A a \in Asking : /\ [a EXCEPT !.pc = pc] \in Asking /\ [a EXCEPT !.pc = pc].pc = pc
                        /\ [a EXCEPT !.pc = pc].tok = a.tok /\ [a EXCEPT !.pc = pc].new = a.new
                        /\ [a EXCEPT !.pc = pc].late = a.late
  BY <1>1 DEF Asking
<1> QED
  BY <1>1, <1>2

LEMMA AnswersTwice ==
  ASSUME MaxTokens \in Nat, req \in [Request -> Asking], NEW r \in Request, NEW n \in 0 .. MaxTokens,
         req' = [req EXCEPT ![r].pc = "spent", ![r].new = n]
  PROVE  /\ req' \in [Request -> Asking]
         /\ req'[r].pc = "spent" /\ req'[r].tok = req[r].tok
         /\ req'[r].new = n /\ req'[r].late = req[r].late
         /\ \A q \in Request \ {r} : req'[q] = req[q]
<1>1. \A a \in Asking : LET b == [a EXCEPT !.pc = "spent"] IN
        b \in Asking /\ b.pc = "spent" /\ b.tok = a.tok /\ b.late = a.late
  BY DEF Asking
<1>2. \A a \in Asking : LET b == [a EXCEPT !.new = n] IN
        b \in Asking /\ b.pc = a.pc /\ b.tok = a.tok /\ b.late = a.late /\ b.new = n
  BY DEF Asking
<1>3. req' = [req EXCEPT ![r] = [[req[r] EXCEPT !.pc = "spent"] EXCEPT !.new = n]]
  OBVIOUS
<1>4. PICK a : /\ a = [req[r] EXCEPT !.pc = "spent"]
               /\ a \in Asking /\ a.pc = "spent" /\ a.tok = req[r].tok /\ a.late = req[r].late
  BY <1>1
<1>5. PICK b : /\ b = [a EXCEPT !.new = n]
               /\ b \in Asking /\ b.pc = a.pc /\ b.tok = a.tok /\ b.late = a.late /\ b.new = n
  BY <1>2, <1>4
<1>6. req' = [req EXCEPT ![r] = b]
  BY <1>3, <1>4, <1>5, Zenon
<1> QED
  BY <1>4, <1>5, <1>6

\* The promised token is stored, the INSERT is refused, the SELECT answers,
\* the account is read.
LEMMA StoreKeeps ==
  ASSUME SessionsTypeOK, TokensInv, NEW r \in Request, Store(r)
  PROVE  SessionsTypeOK' /\ TokensInv'
<1> USE DEF TokensInv
<1>1. /\ UNCHANGED <<minted, tok, ended, account, key, gone, op>>
      /\ req[r].pc = "rotated" /\ rows' = rows \cup {req[r].new}
      /\ req' = [req EXCEPT ![r].pc = "spent"]
  BY DEF Store, store
<1>2. /\ req' \in [Request -> Asking]
      /\ req'[r].pc = "spent" /\ req'[r].tok = req[r].tok
      /\ req'[r].new = req[r].new /\ req'[r].late = req[r].late
      /\ \A q \in Request \ {r} : req'[q] = req[q]
  BY <1>1, MovesOn
<1>3. req[r].new \in 1 .. minted /\ req[r].new \notin ended
  BY <1>1 DEF RotationsGoOn
<1>4. SessionsTypeOK'
  BY <1>1, <1>2, <1>3 DEF SessionsTypeOK, Asking
<1>5. TokensHaveRoots' /\ OneFresh'
  BY <1>1 DEF TokensHaveRoots, OneFresh
<1>6. RotationsGoOn' /\ LateFindNothing' /\ SpentHaveOneNext'
  BY <1>1, <1>2 DEF RotationsGoOn, LateFindNothing, SpentHaveOneNext
<1>7. EndedStaysOut'
  BY <1>1, <1>2, <1>3 DEF EndedStaysOut
<1> QED
  BY <1>4, <1>5, <1>6, <1>7

LEMMA RefusalKeeps ==
  ASSUME SessionsTypeOK, TokensInv, NEW r \in Request, UNCHANGED <<tokens, store, op>>,
         req' = [req EXCEPT ![r].pc = "refused"]
  PROVE  SessionsTypeOK' /\ TokensInv'
<1> USE DEF TokensInv
<1>1. UNCHANGED <<minted, rows, tok, ended, account, key, gone, op>>
  BY DEF tokens, store
<1>2. /\ req' \in [Request -> Asking]
      /\ req'[r].pc = "refused" /\ req'[r].tok = req[r].tok
      /\ req'[r].new = req[r].new /\ req'[r].late = req[r].late
      /\ \A q \in Request \ {r} : req'[q] = req[q]
  BY MovesOn
<1>3. SessionsTypeOK'
  BY <1>1, <1>2 DEF SessionsTypeOK, Asking
<1>4. TokensHaveRoots' /\ OneFresh' /\ EndedStaysOut'
  BY <1>1, <1>2 DEF TokensHaveRoots, OneFresh, EndedStaysOut
<1>5. RotationsGoOn' /\ LateFindNothing' /\ SpentHaveOneNext'
  BY <1>1, <1>2 DEF RotationsGoOn, LateFindNothing, SpentHaveOneNext
<1> QED
  BY <1>3, <1>4, <1>5

LEMMA ReplayKeeps ==
  ASSUME SessionsTypeOK, TokensInv, NEW r \in Request, Replay(r)
  PROVE  SessionsTypeOK' /\ TokensInv'
<1> USE DEF TokensInv
<1> DEFINE t == req[r].tok
<1>1. CASE t \in rows /\ tok[t].state = "spent"
  <2>1. /\ UNCHANGED <<minted, rows, tok, ended, account, key, gone, op>>
        /\ req[r].pc = "missed"
        /\ req' = [req EXCEPT ![r].pc = "spent", ![r].new = tok[t].next]
    BY <1>1 DEF Replay, tokens, store
  <2>2. /\ req \in [Request -> Asking] /\ tok \in [Token -> Kept] /\ MaxTokens \in Nat
        /\ minted \in 0 .. MaxTokens /\ t \in 1 .. minted
    BY <1>1, SessionsAssumption DEF SessionsTypeOK, Asking, Kept
  <2>3. PICK n \in 0 .. MaxTokens : n = tok[t].next
    BY <2>2 DEF Kept, Token
  <2>4. req' = [req EXCEPT ![r].pc = "spent", ![r].new = n]
    BY <2>1, <2>3
  <2>5. /\ req' \in [Request -> Asking]
        /\ req'[r].pc = "spent" /\ req'[r].tok = t
        /\ req'[r].new = n /\ req'[r].late = req[r].late
        /\ \A q \in Request \ {r} : req'[q] = req[q]
    BY <2>2, <2>4, AnswersTwice
  <2>6. SessionsTypeOK'
    BY <2>1, <2>5 DEF SessionsTypeOK, Asking
  <2>7. ~req[r].late
    BY <1>1 DEF LateFindNothing, EndedStaysOut
  <2>8. TokensHaveRoots' /\ OneFresh' /\ EndedStaysOut'
    BY <2>1, <2>5, <2>7 DEF TokensHaveRoots, OneFresh, EndedStaysOut
  <2>9. RotationsGoOn' /\ LateFindNothing' /\ SpentHaveOneNext'
    BY <1>1, <2>1, <2>2, <2>3, <2>5, <2>7 DEF RotationsGoOn, LateFindNothing, SpentHaveOneNext
  <2> QED
    BY <2>6, <2>8, <2>9
<1>2. CASE ~(t \in rows /\ tok[t].state = "spent")
  BY <1>2, RefusalKeeps DEF Replay
<1> QED
  BY <1>1, <1>2

LEMMA ReadAccountKeeps ==
  ASSUME SessionsTypeOK, TokensInv, NEW r \in Request, ReadAccount(r)
  PROVE  SessionsTypeOK' /\ TokensInv'
<1> USE DEF TokensInv
<1>1. CASE req' = [req EXCEPT ![r].pc = "in"]
  <2>1. UNCHANGED <<minted, rows, tok, ended, account, key, gone, op>> /\ req[r].pc = "spent"
    BY DEF ReadAccount, tokens, store
  <2>2. /\ req' \in [Request -> Asking]
        /\ req'[r].pc = "in" /\ req'[r].tok = req[r].tok
        /\ req'[r].new = req[r].new /\ req'[r].late = req[r].late
        /\ \A q \in Request \ {r} : req'[q] = req[q]
    BY <1>1, MovesOn
  <2>3. ~req[r].late
    BY <2>1 DEF LateFindNothing
  <2>4. SessionsTypeOK'
    BY <2>1, <2>2 DEF SessionsTypeOK, Asking
  <2>5. TokensHaveRoots' /\ OneFresh' /\ EndedStaysOut'
    BY <2>1, <2>2, <2>3 DEF TokensHaveRoots, OneFresh, EndedStaysOut
  <2>6. RotationsGoOn' /\ LateFindNothing' /\ SpentHaveOneNext'
    BY <2>1, <2>2, <2>3 DEF RotationsGoOn, LateFindNothing, SpentHaveOneNext
  <2> QED
    BY <2>4, <2>5, <2>6
<1>2. CASE req' = [req EXCEPT ![r].pc = "refused"]
  BY <1>2, RefusalKeeps DEF ReadAccount
<1> QED
  BY <1>1, <1>2 DEF ReadAccount

LEMMA AgesKeeps ==
  ASSUME SessionsTypeOK, TokensInv, NEW t \in Token, Ages(t)
  PROVE  SessionsTypeOK' /\ TokensInv'
<1> USE DEF TokensInv
<1>1. /\ UNCHANGED <<minted, rows, ended, req, account, key, gone, op>>
      /\ tok' = [tok EXCEPT ![t].state = "stale"]
  BY DEF Ages, store
<1>2. /\ tok \in [Token -> Kept] /\ MaxTokens \in Nat /\ minted \in 0 .. MaxTokens
      /\ rows \subseteq Token /\ req \in [Request -> Asking]
  BY SessionsAssumption DEF SessionsTypeOK, Kept, Token, Asking
<1>3. \A k \in Kept : LET a == [k EXCEPT !.state = "stale"] IN
        a \in Kept /\ a.state = "stale" /\ a.root = k.root /\ a.email = k.email /\ a.next = k.next
  BY <1>2 DEF Kept
<1>4. /\ tok' \in [Token -> Kept]
      /\ \A u \in Token : /\ tok'[u].root = tok[u].root /\ tok'[u].email = tok[u].email
                          /\ tok'[u].next = tok[u].next
                          /\ tok'[u].state = tok[u].state \/ tok'[u].state = "stale"
  BY <1>1, <1>2, <1>3
<1>5. \A u \in 1 .. minted : u \in Token
  BY <1>2 DEF Token
<1>6. SessionsTypeOK'
  BY <1>1, <1>4 DEF SessionsTypeOK, Kept
<1>7. TokensHaveRoots'
  BY <1>1, <1>4, <1>5 DEF TokensHaveRoots
<1>8. RotationsGoOn' /\ LateFindNothing' /\ EndedStaysOut'
  BY <1>1, <1>2, <1>4, <1>5 DEF RotationsGoOn, LateFindNothing, EndedStaysOut
<1>9. SpentHaveOneNext'
  BY <1>1, <1>4, <1>5 DEF SpentHaveOneNext
<1>10. OneFresh'
  BY <1>1, <1>4, <1>5 DEF OneFresh
<1> QED
  BY <1>6, <1>7, <1>8, <1>9, <1>10

(***************************************************************************)
(* The sweep, the tenant's sign-out and the console.                       *)
(***************************************************************************)
LEMMA SweepKeeps ==
  ASSUME SessionsTypeOK, TokensInv, Sweep
  PROVE  SessionsTypeOK' /\ TokensInv'
<1> USE DEF TokensInv
<1>1. UNCHANGED <<minted, tok, ended, req, account, key, gone, op>> /\ rows' \subseteq rows
  BY DEF Sweep, store
<1>2. SessionsTypeOK'
  BY <1>1 DEF SessionsTypeOK
<1>3. TokensHaveRoots' /\ OneFresh' /\ RotationsGoOn' /\ LateFindNothing' /\ SpentHaveOneNext'
  BY <1>1 DEF TokensHaveRoots, OneFresh, RotationsGoOn, LateFindNothing, SpentHaveOneNext
<1>4. EndedStaysOut'
  BY <1>1 DEF EndedStaysOut
<1> QED
  BY <1>2, <1>3, <1>4

Tasks == [pc : {"idle", "suspend", "restore", "revoke", "erase"}, email : Email \cup {None}]

LEMMA TaskTypes ==
  /\ \A a \in Tasks : \A pc \in {"idle", "revoke"} : [a EXCEPT !.pc = pc] \in Tasks
  /\ \A e \in Email : \A pc \in {"suspend", "restore", "erase"} : [pc |-> pc, email |-> e] \in Tasks
BY DEF Tasks

\* A step that revokes and leaves the requests alone.
LEMMA RevocationKeeps ==
  ASSUME SessionsTypeOK, TokensInv, NEW e, RevokeAll(e), UNCHANGED <<minted, tok, req>>,
         account' \in [Email -> {"none", "active", "disabled"}],
         key' \in [Email -> Key \cup {None}], op' \in [Operator -> Tasks], gone' \subseteq Email
  PROVE  SessionsTypeOK' /\ TokensInv'
<1>1. rows' \subseteq 1 .. minted' /\ ended' \subseteq Token /\ TokensInv'
  BY Revokes
<1>2. /\ minted' \in 0 .. MaxTokens /\ tok' \in [Token -> Kept] /\ req' \in [Request -> Asking]
  BY DEF SessionsTypeOK, Kept, Asking
<1> QED
  BY <1>1, <1>2 DEF SessionsTypeOK, Kept, Asking, Tasks

\* A step of the console that leaves the sessions alone.
LEMMA ConsoleKeeps ==
  ASSUME SessionsTypeOK, TokensInv, UNCHANGED <<tokens, req, key, gone>>,
         account' \in [Email -> {"none", "active", "disabled"}], op' \in [Operator -> Tasks]
  PROVE  SessionsTypeOK' /\ TokensInv'
<1> USE DEF TokensInv
<1>1. UNCHANGED <<minted, rows, tok, ended, req, key, gone>>
  BY DEF tokens
<1>2. SessionsTypeOK'
  BY <1>1 DEF SessionsTypeOK, Tasks
<1>3. /\ TokensHaveRoots' /\ OneFresh' /\ RotationsGoOn' /\ LateFindNothing' /\ SpentHaveOneNext'
      /\ EndedStaysOut'
  BY <1>1 DEF TokensHaveRoots, OneFresh, RotationsGoOn, LateFindNothing, SpentHaveOneNext,
              EndedStaysOut
<1> QED
  BY <1>2, <1>3

LEMMA OperatorKeeps ==
  ASSUME SessionsTypeOK, SessionsInv,
         NEW o \in Operator, SetDisabled(o) \/ Suspended(o) \/ Erase(o) \/ OperatorDies(o)
  PROVE  SessionsTypeOK' /\ SessionsInv'
<1> USE DEF SessionsInv
<1>0. /\ account \in [Email -> {"none", "active", "disabled"}] /\ op \in [Operator -> Tasks]
      /\ key \in [Email -> Key \cup {None}] /\ gone \subseteq Email
  BY DEF SessionsTypeOK, Tasks
<1>1. op[o] \in Tasks /\ \A pc \in {"idle", "revoke"} : [op EXCEPT ![o].pc = pc] \in [Operator -> Tasks]
  BY <1>0, TaskTypes
<1>2. ASSUME NEW pc \in {"idle", "revoke"}, op' = [op EXCEPT ![o].pc = pc] PROVE ConsoleIsNamed'
  <2>1. \A a \in Tasks : [a EXCEPT !.pc = pc].pc = pc /\ [a EXCEPT !.pc = pc].email = a.email
    BY DEF Tasks
  <2>2. op'[o].email = op[o].email /\ \A p \in Operator \ {o} : op'[p] = op[p]
    BY <1>0, <1>2, <2>1
  <2>3. op[o].pc # "idle"
    BY DEF SetDisabled, Suspended, Erase, OperatorDies
  <2> QED
    BY <2>2, <2>3 DEF ConsoleIsNamed
<1>3. CASE SetDisabled(o)
  <2>1. PICK pc \in {"idle", "revoke"} : op' = [op EXCEPT ![o].pc = pc]
    BY <1>3 DEF SetDisabled
  <2>2. account' \in [Email -> {"none", "active", "disabled"}] /\ UNCHANGED <<key, gone, tokens, req>>
    BY <1>0, <1>3 DEF SetDisabled
  <2>3. SessionsTypeOK' /\ TokensInv'
    BY <1>1, <2>1, <2>2, ConsoleKeeps
  <2> QED
    BY <1>2, <2>1, <2>3
<1>4. CASE Suspended(o)
  <2>1. /\ RevokeAll(op[o].email) /\ op' = [op EXCEPT ![o].pc = "idle"]
        /\ UNCHANGED <<minted, tok, req, account, key, gone>> /\ op[o].pc = "revoke"
    BY <1>4 DEF Suspended, store
  <2>2. PICK e \in Email : e = op[o].email
    BY <2>1 DEF ConsoleIsNamed
  <2>3. SessionsTypeOK' /\ TokensInv'
    BY <1>0, <1>1, <2>1, <2>2, RevocationKeeps
  <2> QED
    BY <1>2, <2>1, <2>3
<1>5. CASE Erase(o)
  <2>1. PICK e \in Email : e = op[o].email
    BY <1>5 DEF Erase, ConsoleIsNamed
  <2>2. /\ RevokeAll(e) /\ UNCHANGED <<minted, tok, req>> /\ op' = [op EXCEPT ![o].pc = "idle"]
        /\ account' = [account EXCEPT ![e] = "none"] /\ key' = [key EXCEPT ![e] = None]
        /\ gone' = gone \cup {e}
    BY <1>5, <2>1 DEF Erase
  <2>3. SessionsTypeOK' /\ TokensInv'
    BY <1>0, <1>1, <2>2, RevocationKeeps
  <2> QED
    BY <1>2, <2>2, <2>3
<1>6. CASE OperatorDies(o)
  <2>1. UNCHANGED <<account, key, gone, tokens, req>> /\ op' = [op EXCEPT ![o].pc = "idle"]
    BY <1>6 DEF OperatorDies, store
  <2>2. SessionsTypeOK' /\ TokensInv'
    BY <1>0, <1>1, <2>1, ConsoleKeeps
  <2> QED
    BY <1>2, <2>1, <2>2
<1> QED
  BY <1>3, <1>4, <1>5, <1>6

LEMMA RequestedKeeps ==
  ASSUME SessionsTypeOK, SessionsInv,
         NEW o \in Operator, NEW e \in Email, Toggle(o, e) \/ StartErase(o, e)
  PROVE  SessionsTypeOK' /\ SessionsInv'
<1> USE DEF SessionsInv
<1>0. /\ account \in [Email -> {"none", "active", "disabled"}] /\ op \in [Operator -> Tasks]
      /\ key \in [Email -> Key \cup {None}] /\ gone \subseteq Email
  BY DEF SessionsTypeOK, Tasks
<1>1. ASSUME NEW pc \in {"suspend", "restore", "erase"},
             op' = [op EXCEPT ![o] = [pc |-> pc, email |-> e]]
      PROVE  op' \in [Operator -> Tasks] /\ ConsoleIsNamed'
  <2>1. PICK a \in Tasks : a = [pc |-> pc, email |-> e]
    BY TaskTypes
  <2>2. op' = [op EXCEPT ![o] = a] /\ a.email = e
    BY <1>1, <2>1
  <2> QED
    BY <1>0, <2>2 DEF ConsoleIsNamed
<1>2. CASE Toggle(o, e)
  <2>1. PICK pc \in {"suspend", "restore", "erase"} : op' = [op EXCEPT ![o] = [pc |-> pc, email |-> e]]
    BY <1>2 DEF Toggle
  <2>2. UNCHANGED <<account, key, gone, tokens, req>>
    BY <1>2 DEF Toggle, store
  <2>3. op' \in [Operator -> Tasks] /\ ConsoleIsNamed'
    BY <1>1, <2>1
  <2>4. SessionsTypeOK' /\ TokensInv'
    BY <1>0, <2>2, <2>3, ConsoleKeeps
  <2> QED
    BY <2>3, <2>4
<1>3. CASE StartErase(o, e)
  <2>1. /\ RevokeAll(e) /\ UNCHANGED <<minted, tok, req, account, key, gone>>
        /\ op' = [op EXCEPT ![o] = [pc |-> "erase", email |-> e]]
    BY <1>3 DEF StartErase, store
  <2>2. op' \in [Operator -> Tasks] /\ ConsoleIsNamed'
    BY <1>1, <2>1
  <2>3. SessionsTypeOK' /\ TokensInv'
    BY <1>0, <2>1, <2>2, RevocationKeeps
  <2> QED
    BY <2>2, <2>3
<1> QED
  BY <1>2, <1>3

LEMMA SignOutKeeps ==
  ASSUME SessionsTypeOK, SessionsInv, NEW e \in Email, SignOut(e)
  PROVE  SessionsTypeOK' /\ SessionsInv'
<1>1. RevokeAll(e) /\ UNCHANGED <<minted, tok, req, account, key, gone, op>>
  BY DEF SignOut, store
<1>2. /\ account \in [Email -> {"none", "active", "disabled"}] /\ op \in [Operator -> Tasks]
      /\ key \in [Email -> Key \cup {None}] /\ gone \subseteq Email
  BY DEF SessionsTypeOK, Tasks
<1>3. SessionsTypeOK' /\ TokensInv'
  BY <1>1, <1>2, RevocationKeeps DEF SessionsInv
<1> QED
  BY <1>1, <1>3 DEF SessionsInv, ConsoleIsNamed

LEMMA SessionsStep ==
  ASSUME SessionsTypeOK, SessionsInv, SessionsNext
  PROVE  SessionsTypeOK' /\ SessionsInv'
<1>1. ASSUME NEW r \in Request, Store(r) \/ StoreFails(r) \/ Replay(r) \/ ReadAccount(r)
      PROVE  SessionsTypeOK' /\ SessionsInv'
  <2>1. SessionsTypeOK' /\ TokensInv'
    BY <1>1, StoreKeeps, RefusalKeeps, ReplayKeeps, ReadAccountKeeps DEF SessionsInv, StoreFails
  <2>2. UNCHANGED op
    BY <1>1 DEF Store, StoreFails, Replay, ReadAccount
  <2> QED
    BY <2>1, <2>2 DEF SessionsInv, ConsoleIsNamed
<1>2. ASSUME NEW r \in Request, NEW t \in Token, Present(r, t)
      PROVE  SessionsTypeOK' /\ SessionsInv'
  <2>1. SessionsTypeOK' /\ TokensInv'
    BY <1>2, PresentKeeps DEF SessionsInv
  <2> QED
    BY <1>2, <2>1 DEF SessionsInv, ConsoleIsNamed, Present
<1>3. ASSUME NEW t \in Token, Ages(t) PROVE SessionsTypeOK' /\ SessionsInv'
  <2>1. SessionsTypeOK' /\ TokensInv'
    BY <1>3, AgesKeeps DEF SessionsInv
  <2> QED
    BY <1>3, <2>1 DEF SessionsInv, ConsoleIsNamed, Ages
<1>4. CASE Sweep
  <2>1. SessionsTypeOK' /\ TokensInv'
    BY <1>4, SweepKeeps DEF SessionsInv
  <2> QED
    BY <1>4, <2>1 DEF SessionsInv, ConsoleIsNamed, Sweep
<1> QED
  BY <1>1, <1>2, <1>3, <1>4, SignOutKeeps, RequestedKeeps, OperatorKeeps DEF SessionsNext

-----------------------------------------------------------------------------
(***************************************************************************)
(* The form.  The shape of its state, without the bounds that follow from  *)
(* what was counted.                                                       *)
(***************************************************************************)
Challenge == [code : Nat, known : BOOLEAN, cooling : BOOLEAN, attempts : Nat, guessed : Nat]
Answering == [pc : {"idle", "wrong", "right", "redeem", "admit", "consume", "claim", "claiming",
                    "issue"},
              email : Email \cup {None}, code : 0 .. MaxCodes, seen : 0 .. MaxTries,
              gated : BOOLEAN, key : Key \cup {None}]

FormShape ==
  /\ gate \in BOOLEAN /\ codes \in 0 .. MaxCodes
  /\ chal \in [Email -> Challenge] /\ \A e \in Email : chal[e].code <= codes
  /\ redeemed \in [Invite -> SUBSET Email] /\ holder \in [Key -> Email \cup {None}]
  /\ try \in [Try -> Answering] /\ tries \in 0 .. MaxTries /\ free \subseteq Email

IInv == SessionsTypeOK /\ SessionsInv /\ FormShape /\ FormInv

LEMMA BoundsAssumed ==
  /\ MaxTokens \in Nat /\ MaxAttempts \in Nat \ {0} /\ MaxCodes \in Nat /\ MaxTries \in Nat
  /\ Cardinality(Try) \in Nat \ {0} /\ IsFiniteSet(Try)
<1>1. Cardinality(Try) \in Nat /\ IsFiniteSet(Try)
  BY FS_CardinalityType, SignInAssumption
<1>2. Cardinality(Try) # 0
  BY FS_EmptySet, SignInAssumption
<1> QED
  BY <1>1, <1>2, SessionsAssumption, SignInAssumption

LEMMA Sizes ==
  ASSUME NEW S \in SUBSET Try
  PROVE  /\ IsFiniteSet(S) /\ Cardinality(S) \in Nat /\ Cardinality(S) <= Cardinality(Try)
         /\ \A T \in SUBSET S : IsFiniteSet(T) /\ Cardinality(T) <= Cardinality(S)
         /\ \A s \in S : /\ Cardinality(S \ {s}) = Cardinality(S) - 1
                         /\ Cardinality(S) >= 1
         /\ \A s : s \notin S => /\ Cardinality(S \cup {s}) = Cardinality(S) + 1
                                 /\ Cardinality(S \ {s}) = Cardinality(S)
<1>1. IsFiniteSet(S) /\ Cardinality(S) \in Nat /\ Cardinality(S) <= Cardinality(Try)
  BY BoundsAssumed, FS_Subset, FS_CardinalityType
<1>2. \A T \in SUBSET S : IsFiniteSet(T) /\ Cardinality(T) <= Cardinality(S)
  BY <1>1, FS_Subset
<1>3. ASSUME NEW s \in S PROVE Cardinality(S \ {s}) = Cardinality(S) - 1 /\ Cardinality(S) >= 1
  <2>1. IsFiniteSet(S \ {s}) /\ Cardinality(S \ {s}) = Cardinality(S) - 1
    BY <1>1, FS_RemoveElement
  <2>2. Cardinality(S \ {s}) \in Nat
    BY <2>1, FS_CardinalityType
  <2> QED
    BY <1>1, <2>1, <2>2
<1>4. ASSUME NEW s, s \notin S
      PROVE  Cardinality(S \cup {s}) = Cardinality(S) + 1 /\ Cardinality(S \ {s}) = Cardinality(S)
  BY <1>1, <1>4, FS_AddElement, FS_RemoveElement
<1> QED
  BY <1>1, <1>2, <1>3, <1>4

\* Sizes of the sets that GuessesAreCounted speaks of; a new row may be
\* counted on by as many answers as there are.
LEMMA GuessingSizes ==
  ASSUME FormShape, NEW e
  PROVE  /\ Guessing(e) \subseteq Try /\ Counting(e) \subseteq Try /\ Current(e) \subseteq Try
         /\ Cardinality(Guessing(e)) \in Nat
         /\ Cardinality(Counting(e)) \in Nat
         /\ Cardinality(Current(e)) \in Nat
         /\ Cardinality(Current(e)) <= Cardinality(Guessing(e))
         /\ Cardinality(Counting(e)) <= MaxAttempts + Cardinality(Try) - 2
<1>1. Guessing(e) \subseteq Try /\ Counting(e) \subseteq Guessing(e) /\ Current(e) \subseteq Guessing(e)
  BY DEF Guessing, Counting, Current
<1>2. /\ Cardinality(Guessing(e)) \in Nat /\ Cardinality(Counting(e)) \in Nat
      /\ Cardinality(Current(e)) \in Nat
      /\ Cardinality(Current(e)) <= Cardinality(Guessing(e))
      /\ Cardinality(Counting(e)) <= Cardinality(Try)
  BY <1>1, Sizes
<1>3. CASE MaxAttempts = 1
  <2>1. \A s \in Try : try[s].seen \in Nat
    BY BoundsAssumed DEF FormShape, Answering
  <2>2. Counting(e) = {}
    BY <1>3, <2>1 DEF Counting, Guessing
  <2> QED
    BY <1>1, <1>2, <1>3, <2>2, BoundsAssumed, FS_EmptySet
<1>4. CASE MaxAttempts # 1
  BY <1>1, <1>2, <1>4, BoundsAssumed
<1> QED
  BY <1>3, <1>4

(***************************************************************************)
(* Guesses.  First the steps that touch neither a wrong answer nor a row.  *)
(***************************************************************************)
LEMMA GuessesStay ==
  ASSUME FormShape, GuessesAreCounted, UNCHANGED chal, tries' = tries \/ tries' = tries + 1,
         NEW s \in Try,
         try[s].pc # "wrong", try'[s].pc # "wrong", \A q \in Try \ {s} : try'[q] = try[q]
  PROVE  GuessesAreCounted'
<1>1. \A e : Guessing(e)' = Guessing(e)
  BY DEF Guessing
<1>2. \A e : \A q \in Guessing(e) : q # s /\ try'[q] = try[q]
  BY DEF Guessing
<1>3. \A e : Counting(e)' = Counting(e) /\ Current(e)' = Current(e)
  BY <1>1, <1>2 DEF Counting, Current
<1>4. \A e \in Email : /\ chal[e].attempts + Cardinality(Guessing(e)) \in Nat /\ tries \in Nat
                       /\ chal[e].attempts + Cardinality(Guessing(e)) <= tries
  BY GuessingSizes, BoundsAssumed DEF FormShape, Challenge, GuessesAreCounted
<1>5. \A e \in Email : chal[e].attempts + Cardinality(Guessing(e)) <= tries'
  BY <1>4
<1> QED
  BY <1>1, <1>3, <1>5 DEF GuessesAreCounted

\* A row gets another code, or none: no answer under way is about it.
LEMMA RowRenewed ==
  ASSUME FormShape, AnswersAreAboutCodes, GuessesAreCounted, NEW e \in Email,
         UNCHANGED tries,
         \A q \in Try : try'[q] = try[q] \/ (try[q].pc # "wrong" /\ try'[q].pc # "wrong"),
         NEW c \in Challenge, chal' = [chal EXCEPT ![e] = c],
         c.attempts = 0, c.guessed = 0, c.code = 0 => c = NoRow,
         c.code = 0 \/ c.code > codes
  PROVE  GuessesAreCounted'
<1>1. \A f : /\ Guessing(f)' = Guessing(f) /\ Counting(f)' = Counting(f)
             /\ \A q \in Guessing(f) : try'[q] = try[q]
  BY DEF Guessing, Counting
<1>2. chal'[e] = c /\ \A f \in Email \ {e} : chal'[f] = chal[f]
  BY DEF FormShape
<1>3. \A f \in Email \ {e} : Current(f)' = Current(f)
  BY <1>1, <1>2 DEF Current
<1>4. Current(e)' = {}
  <2>1. \A s \in Guessing(e) : try[s].code \in 1 .. codes
    BY DEF AnswersAreAboutCodes, Guessing
  <2>2. codes \in Nat
    BY BoundsAssumed DEF FormShape
  <2>3. c.code \in Nat
    BY DEF Challenge
  <2> QED
    BY <1>1, <1>2, <2>1, <2>2, <2>3 DEF Current
<1>5. ASSUME NEW f \in Email, f # e
      PROVE  /\ chal'[f].code = 0 => chal'[f] = NoRow
             /\ Cardinality(Current(f)') <= chal'[f].guessed
             /\ chal'[f].guessed <= chal'[f].attempts + Cardinality(Current(f)')
             /\ chal'[f].attempts + Cardinality(Counting(f)') <= MaxAttempts + Cardinality(Try) - 2
             /\ chal'[f].attempts + Cardinality(Guessing(f)') <= tries'
  BY <1>1, <1>2, <1>3, <1>5 DEF GuessesAreCounted
<1>6. /\ Cardinality(Current(e)') = 0
      /\ Cardinality(Counting(e)') <= MaxAttempts + Cardinality(Try) - 2
      /\ Cardinality(Guessing(e)') <= tries' /\ Cardinality(Guessing(e)') \in Nat
      /\ Cardinality(Counting(e)') \in Nat
  <2>1. chal[e].attempts + Cardinality(Guessing(e)) <= tries /\ chal[e].attempts \in Nat
        /\ tries \in Nat
    BY BoundsAssumed DEF GuessesAreCounted, FormShape, Challenge
  <2> QED
    BY <1>1, <1>4, <2>1, GuessingSizes, FS_EmptySet
<1>7. /\ chal'[e].code = 0 => chal'[e] = NoRow
      /\ Cardinality(Current(e)') <= chal'[e].guessed
      /\ chal'[e].guessed <= chal'[e].attempts + Cardinality(Current(e)')
      /\ chal'[e].attempts + Cardinality(Counting(e)') <= MaxAttempts + Cardinality(Try) - 2
      /\ chal'[e].attempts + Cardinality(Guessing(e)') <= tries'
  BY <1>2, <1>6
<1> QED
  BY <1>5, <1>7 DEF GuessesAreCounted

\* The cooldown of a row is over.
LEMMA RowCools ==
  ASSUME FormShape, GuessesAreCounted, UNCHANGED <<try, tries>>, NEW e \in Email, CoolsDown(e)
  PROVE  GuessesAreCounted'
<1>1. \A f \in Email : /\ chal'[f].code = chal[f].code /\ chal'[f].attempts = chal[f].attempts
                       /\ chal'[f].guessed = chal[f].guessed
                       /\ f # e => chal'[f] = chal[f]
  <2>1. \A c \in Challenge : LET d == [c EXCEPT !.cooling = FALSE] IN
          d.code = c.code /\ d.attempts = c.attempts /\ d.guessed = c.guessed
    BY DEF Challenge
  <2> QED
    BY <2>1 DEF CoolsDown, FormShape
<1>2. chal[e].code # 0
  <2>1. NoRow.cooling = FALSE
    BY DEF NoRow, Row
  <2> QED
    BY <2>1 DEF CoolsDown, GuessesAreCounted
<1>3. \A f : Guessing(f)' = Guessing(f) /\ Counting(f)' = Counting(f)
  BY DEF Guessing, Counting
<1>4. \A f \in Email : Current(f)' = Current(f)
  BY <1>1, <1>3 DEF Current
<1> QED
  BY <1>1, <1>2, <1>3, <1>4 DEF GuessesAreCounted

\* A wrong answer is given.
LEMMA GuessGiven ==
  ASSUME FormShape, GuessesAreCounted, NEW s \in Try, NEW e \in Email, Answer(s, e, "wrong")
  PROVE  GuessesAreCounted'
<1>1. /\ try[s].pc = "idle" /\ tries' = tries + 1 /\ UNCHANGED codes
      /\ try'[s].pc = "wrong" /\ try'[s].email = e /\ try'[s].code = chal[e].code
      /\ try'[s].seen = chal[e].attempts
      /\ \A q \in Try \ {s} : try'[q] = try[q]
  BY DEF Answer, FormShape
<1>2. \A f \in Email : /\ chal'[f].code = chal[f].code /\ chal'[f].attempts = chal[f].attempts
                       /\ chal'[f].guessed = IF f = e THEN chal[f].guessed + 1 ELSE chal[f].guessed
                       /\ f # e => chal'[f] = chal[f]
  <2>1. \A c \in Challenge : LET d == [c EXCEPT !.guessed = @ + 1] IN
          d.code = c.code /\ d.attempts = c.attempts /\ d.guessed = c.guessed + 1
    BY DEF Challenge
  <2> QED
    BY <2>1 DEF Answer, FormShape
<1>3. chal[e].code # 0
  BY DEF Answer
<1>4. /\ s \notin Guessing(e) /\ s \notin Current(e) /\ s \notin Counting(e)
      /\ Guessing(e)' = Guessing(e) \cup {s} /\ Current(e)' = Current(e) \cup {s}
      /\ Counting(e)' = IF chal[e].attempts + 1 < MaxAttempts THEN Counting(e) \cup {s} ELSE Counting(e)
  BY <1>1, <1>2 DEF Guessing, Current, Counting
<1>5. \A f \in Email \ {e} : /\ Guessing(f)' = Guessing(f) /\ Current(f)' = Current(f)
                             /\ Counting(f)' = Counting(f)
  BY <1>1, <1>2 DEF Guessing, Current, Counting
<1>6. /\ Cardinality(Guessing(e)') = Cardinality(Guessing(e)) + 1
      /\ Cardinality(Current(e)') = Cardinality(Current(e)) + 1
      /\ Cardinality(Counting(e)') \in Nat
      /\ Cardinality(Counting(e)') <= Cardinality(Try)
      /\ chal[e].attempts + 1 >= MaxAttempts => Cardinality(Counting(e)') = Cardinality(Counting(e))
  <2>1. Counting(e)' \subseteq Try
    BY DEF Counting, Guessing
  <2>2. chal[e].attempts \in Nat
    BY DEF FormShape, Challenge
  <2> QED
    BY <1>4, <2>1, <2>2, GuessingSizes, Sizes, BoundsAssumed
<1>7. ASSUME NEW f \in Email, f # e
      PROVE  /\ chal'[f].code = 0 => chal'[f] = NoRow
             /\ Cardinality(Current(f)') <= chal'[f].guessed
             /\ chal'[f].guessed <= chal'[f].attempts + Cardinality(Current(f)')
             /\ chal'[f].attempts + Cardinality(Counting(f)') <= MaxAttempts + Cardinality(Try) - 2
             /\ chal'[f].attempts + Cardinality(Guessing(f)') <= tries'
  <2>1. /\ chal[f].attempts \in Nat /\ Cardinality(Guessing(f)) \in Nat /\ tries \in Nat
    BY GuessingSizes, BoundsAssumed DEF FormShape, Challenge
  <2> QED
    BY <1>1, <1>2, <1>5, <1>7, <2>1 DEF GuessesAreCounted
<1>8. /\ chal'[e].code = 0 => chal'[e] = NoRow
      /\ Cardinality(Current(e)') <= chal'[e].guessed
      /\ chal'[e].guessed <= chal'[e].attempts + Cardinality(Current(e)')
      /\ chal'[e].attempts + Cardinality(Counting(e)') <= MaxAttempts + Cardinality(Try) - 2
      /\ chal'[e].attempts + Cardinality(Guessing(e)') <= tries'
  <2>1. /\ chal[e].attempts \in Nat /\ chal[e].guessed \in Nat /\ tries \in Nat
        /\ Cardinality(Guessing(e)) \in Nat /\ Cardinality(Current(e)) \in Nat
        /\ Cardinality(Counting(e)) \in Nat
    BY GuessingSizes, BoundsAssumed DEF FormShape, Challenge
  <2>2. /\ Cardinality(Current(e)) <= chal[e].guessed
        /\ chal[e].guessed <= chal[e].attempts + Cardinality(Current(e))
        /\ chal[e].attempts + Cardinality(Counting(e)) <= MaxAttempts + Cardinality(Try) - 2
        /\ chal[e].attempts + Cardinality(Guessing(e)) <= tries
    BY DEF GuessesAreCounted
  <2>3. chal'[e].code # 0
    BY <1>2, <1>3
  <2>4. chal'[e].attempts = chal[e].attempts /\ chal'[e].guessed = chal[e].guessed + 1
    BY <1>2
  <2> QED
    BY <1>1, <1>6, <2>1, <2>2, <2>3, <2>4, BoundsAssumed
<1> QED
  BY <1>7, <1>8 DEF GuessesAreCounted

\* A wrong answer is settled: its row is deleted, or counts it, or is another
\* by now, or it was never answered.
LEMMA GuessSettled ==
  ASSUME FormShape, AnswersAreAboutCodes, GuessesAreCounted, UNCHANGED tries,
         NEW s \in Try, try[s].pc = "wrong", try'[s].pc # "wrong",
         \A q \in Try \ {s} : try'[q] = try[q],
         NEW e \in Email, e = try[s].email, NEW c \in Challenge, chal' = [chal EXCEPT ![e] = c],
         \/ c = NoRow
         \/ /\ c.code = chal[e].code /\ c.code # 0 /\ try[s].seen + 1 < MaxAttempts
            /\ c.attempts = chal[e].attempts + 1 /\ c.guessed = chal[e].guessed
         \/ /\ c = chal[e] /\ try[s].code # chal[e].code
         \/ /\ c.code = chal[e].code /\ c.code = try[s].code
            /\ c.attempts = chal[e].attempts /\ c.guessed = chal[e].guessed - 1
  PROVE  GuessesAreCounted'
<1>1. chal'[e] = c /\ \A f \in Email \ {e} : chal'[f] = chal[f]
  BY DEF FormShape
<1>2. /\ chal[e].attempts \in Nat /\ chal[e].guessed \in Nat /\ tries \in Nat /\ codes \in Nat
      /\ Cardinality(Guessing(e)) \in Nat /\ Cardinality(Current(e)) \in Nat
      /\ Cardinality(Counting(e)) \in Nat
      /\ Guessing(e) \subseteq Try /\ Counting(e) \subseteq Try /\ Current(e) \subseteq Try
      /\ Cardinality(Counting(e)) <= MaxAttempts + Cardinality(Try) - 2
      /\ try[s].seen \in Nat /\ try[s].code \in 1 .. codes
  BY GuessingSizes, BoundsAssumed DEF FormShape, Challenge, Answering, AnswersAreAboutCodes
<1>3. /\ chal[e].code = 0 => chal[e] = NoRow
      /\ Cardinality(Current(e)) <= chal[e].guessed
      /\ chal[e].guessed <= chal[e].attempts + Cardinality(Current(e))
      /\ chal[e].attempts + Cardinality(Counting(e)) <= MaxAttempts + Cardinality(Try) - 2
      /\ chal[e].attempts + Cardinality(Guessing(e)) <= tries
  BY DEF GuessesAreCounted
<1>4. /\ s \in Guessing(e) /\ Guessing(e)' = Guessing(e) \ {s}
      /\ Counting(e)' = Counting(e) \ {s}
      /\ s \in Counting(e) <=> try[s].seen + 1 < MaxAttempts
      /\ s \in Current(e) <=> try[s].code = chal[e].code
      /\ c.code = chal[e].code => Current(e)' = Current(e) \ {s}
  BY <1>1 DEF Guessing, Counting, Current
<1>5. \A f \in Email \ {e} : /\ Guessing(f)' = Guessing(f) /\ Current(f)' = Current(f)
                             /\ Counting(f)' = Counting(f)
  BY <1>1 DEF Guessing, Current, Counting
<1>6. Cardinality(Guessing(e)') = Cardinality(Guessing(e)) - 1
  BY <1>2, <1>4, Sizes
<1>7. Cardinality(Counting(e)') = IF try[s].seen + 1 < MaxAttempts
                                   THEN Cardinality(Counting(e)) - 1 ELSE Cardinality(Counting(e))
  BY <1>2, <1>4, Sizes
<1>8. c.code = chal[e].code /\ try[s].code = chal[e].code =>
         Cardinality(Current(e)') = Cardinality(Current(e)) - 1 /\ Cardinality(Current(e)) >= 1
  BY <1>2, <1>4, Sizes
<1>9. c.code = chal[e].code /\ try[s].code # chal[e].code =>
         Cardinality(Current(e)') = Cardinality(Current(e))
  BY <1>2, <1>4, Sizes
<1>10. ASSUME NEW f \in Email, f # e
      PROVE  /\ chal'[f].code = 0 => chal'[f] = NoRow
             /\ Cardinality(Current(f)') <= chal'[f].guessed
             /\ chal'[f].guessed <= chal'[f].attempts + Cardinality(Current(f)')
             /\ chal'[f].attempts + Cardinality(Counting(f)') <= MaxAttempts + Cardinality(Try) - 2
             /\ chal'[f].attempts + Cardinality(Guessing(f)') <= tries'
  BY <1>1, <1>5, <1>10 DEF GuessesAreCounted
<1>11. PICK g, n, m : /\ g = Cardinality(Guessing(e)') /\ n = Cardinality(Counting(e)')
                      /\ m = Cardinality(Current(e)')
  OBVIOUS
<1>12. /\ g \in Int /\ n \in Int /\ g = Cardinality(Guessing(e)) - 1
       /\ n <= Cardinality(Counting(e))
  BY <1>2, <1>6, <1>7, <1>11
<1>13. /\ chal'[e].code = 0 => chal'[e] = NoRow
       /\ m <= chal'[e].guessed
       /\ chal'[e].guessed <= chal'[e].attempts + m
       /\ chal'[e].attempts + n <= MaxAttempts + Cardinality(Try) - 2
       /\ chal'[e].attempts + g <= tries'
  <2>1. CASE c = NoRow
    <3>1. chal'[e] = NoRow /\ c.code = 0 /\ NoRow.attempts = 0 /\ NoRow.guessed = 0
      BY <1>1, <2>1 DEF NoRow, Row
    <3>2. Current(e)' = {}
      <4>1. \A q \in Guessing(e)' : try'[q].code \in 1 .. codes
        BY <1>4 DEF AnswersAreAboutCodes, Guessing
      <4> QED
        BY <1>1, <1>2, <3>1, <4>1 DEF Current
    <3>3. m = 0
      BY <1>11, <3>2, FS_EmptySet
    <3>4. chal'[e].attempts = 0 /\ chal'[e].guessed = 0
      BY <3>1
    <3>5. n <= MaxAttempts + Cardinality(Try) - 2 /\ g <= tries
      BY <1>2, <1>3, <1>12, BoundsAssumed
    <3> QED
      BY <1>12, <3>1, <3>3, <3>4, <3>5
  <2>2. CASE /\ c.code = chal[e].code /\ c.code # 0 /\ try[s].seen + 1 < MaxAttempts
             /\ c.attempts = chal[e].attempts + 1 /\ c.guessed = chal[e].guessed
    <3>1. n = Cardinality(Counting(e)) - 1
      BY <1>7, <1>11, <2>2
    <3>2. /\ m = Cardinality(Current(e)) - 1 \/ m = Cardinality(Current(e))
      BY <1>8, <1>9, <1>11, <2>2
    <3> QED
      BY <1>1, <1>2, <1>3, <1>12, <2>2, <3>1, <3>2, BoundsAssumed
  <2>3. CASE c = chal[e] /\ try[s].code # chal[e].code
    <3>1. m = Cardinality(Current(e))
      BY <1>9, <1>11, <2>3
    <3> QED
      BY <1>1, <1>2, <1>3, <1>12, <2>3, <3>1, BoundsAssumed
  <2>4. CASE /\ c.code = chal[e].code /\ c.code = try[s].code
             /\ c.attempts = chal[e].attempts /\ c.guessed = chal[e].guessed - 1
    <3>1. m = Cardinality(Current(e)) - 1
      BY <1>8, <1>11, <2>4
    <3>2. c.code # 0
      BY <1>2, <2>4
    <3> QED
      BY <1>1, <1>2, <1>3, <1>12, <2>4, <3>1, <3>2, BoundsAssumed
  <2> QED
    BY <2>1, <2>2, <2>3, <2>4
<1> QED
  BY <1>10, <1>11, <1>13 DEF GuessesAreCounted

(***************************************************************************)
(* How an answer moves on, and what that leaves as it was.                 *)
(***************************************************************************)
Pc == {"idle", "wrong", "right", "redeem", "admit", "consume", "claim", "claiming", "issue"}

LEMMA StepMoves ==
  ASSUME FormShape, NEW s \in Try, NEW pc \in Pc, Step(s, pc)
  PROVE  /\ try' \in [Try -> Answering]
         /\ try'[s].pc = pc /\ try'[s].email = try[s].email /\ try'[s].code = try[s].code
         /\ try'[s].gated = try[s].gated /\ try'[s].key = try[s].key
         /\ \A q \in Try \ {s} : try'[q] = try[q]
<1>1. \A a \in Answering : LET b == [a EXCEPT !.pc = pc] IN
        b \in Answering /\ b.pc = pc /\ b.email = a.email /\ b.code = a.code
        /\ b.gated = a.gated /\ b.key = a.key
  BY BoundsAssumed DEF Answering, Pc
<1> QED
  BY <1>1 DEF FormShape, Step

LEMMA EndsMoves ==
  ASSUME FormShape, NEW s \in Try, Ends(s)
  PROVE  /\ try' \in [Try -> Answering] /\ try'[s].pc = "idle"
         /\ \A q \in Try \ {s} : try'[q] = try[q]
<1>1. Nobody \in Answering /\ Nobody.pc = "idle"
  BY BoundsAssumed DEF Answering, Nobody
<1> QED
  BY <1>1 DEF FormShape, Ends

LEMMA AdmissionStays ==
  ASSUME AdmittedAreVouched, ClaimsAreTheirOwn, KeysAgree,
         UNCHANGED <<account, key, gone, redeemed, holder, free>>,
         \A q \in Try : try'[q] = try[q] \/ try'[q].pc \in {"idle", "wrong", "right", "redeem"}
  PROVE  AdmittedAreVouched' /\ ClaimsAreTheirOwn' /\ KeysAgree'
<1>1. \A e : Registered(e)' = Registered(e) /\ Vouched(e)' = Vouched(e)
  BY DEF Registered, Vouched
<1>2. AdmittedAreVouched'
  BY <1>1 DEF AdmittedAreVouched
<1>3. ClaimsAreTheirOwn'
  BY <1>1 DEF ClaimsAreTheirOwn
<1>4. KeysAgree'
  BY DEF KeysAgree
<1> QED
  BY <1>2, <1>3, <1>4

LEMMA AnswersStay ==
  ASSUME AnswersAreAboutCodes, UNCHANGED codes, NEW s \in Try,
         \A q \in Try \ {s} : try'[q] = try[q],
         \/ try'[s].pc = "idle"
         \/ /\ try[s].pc # "idle"
            /\ try'[s].code = try[s].code /\ try'[s].email = try[s].email
  PROVE  AnswersAreAboutCodes'
BY DEF AnswersAreAboutCodes

LEMMA RowTypes ==
  /\ NoRow \in Challenge /\ NoRow.code = 0 /\ NoRow.attempts = 0 /\ NoRow.guessed = 0
  /\ \A n \in Nat, b \in BOOLEAN : LET c == [Row(n) EXCEPT !.known = b] IN
       c \in Challenge /\ c.code = n /\ c.attempts = 0 /\ c.guessed = 0
  /\ \A c \in Challenge : LET d == [c EXCEPT !.attempts = @ + 1] IN
       d \in Challenge /\ d.code = c.code /\ d.attempts = c.attempts + 1 /\ d.guessed = c.guessed
  /\ \A c \in Challenge : LET d == [c EXCEPT !.guessed = @ + 1] IN
       d \in Challenge /\ d.code = c.code
  /\ \A c \in Challenge : LET d == [c EXCEPT !.cooling = FALSE] IN
       d \in Challenge /\ d.code = c.code
  /\ \A c \in Challenge : c.guessed >= 1 => LET d == [c EXCEPT !.guessed = @ - 1] IN
       d \in Challenge /\ d.code = c.code /\ d.attempts = c.attempts /\ d.guessed = c.guessed - 1
<1>1. NoRow \in Challenge /\ NoRow.code = 0 /\ NoRow.attempts = 0 /\ NoRow.guessed = 0
  BY DEF NoRow, Row, Challenge
<1>2. ASSUME NEW n \in Nat, NEW b \in BOOLEAN
      PROVE  LET c == [Row(n) EXCEPT !.known = b] IN
               c \in Challenge /\ c.code = n /\ c.attempts = 0 /\ c.guessed = 0
  <2>1. [Row(n) EXCEPT !.known = b]
          = [code |-> n, known |-> b, cooling |-> n # 0, attempts |-> 0, guessed |-> 0]
    BY DEF Row
  <2>2. [code |-> n, known |-> b, cooling |-> n # 0, attempts |-> 0, guessed |-> 0] \in Challenge
    BY DEF Challenge
  <2> QED
    BY <2>1, <2>2
<1>3. ASSUME NEW c \in Challenge
      PROVE  LET d == [c EXCEPT !.attempts = @ + 1] IN
               d \in Challenge /\ d.code = c.code /\ d.attempts = c.attempts + 1 /\ d.guessed = c.guessed
  BY DEF Challenge
<1>4. ASSUME NEW c \in Challenge
      PROVE  LET d == [c EXCEPT !.guessed = @ + 1] IN d \in Challenge /\ d.code = c.code
  BY DEF Challenge
<1>5. ASSUME NEW c \in Challenge
      PROVE  LET d == [c EXCEPT !.cooling = FALSE] IN d \in Challenge /\ d.code = c.code
  BY DEF Challenge
<1>6. ASSUME NEW c \in Challenge, c.guessed >= 1
      PROVE  LET d == [c EXCEPT !.guessed = @ - 1] IN
               d \in Challenge /\ d.code = c.code /\ d.attempts = c.attempts /\ d.guessed = c.guessed - 1
  BY <1>6 DEF Challenge
<1> QED
  BY <1>1, <1>2, <1>3, <1>4, <1>5, <1>6

-----------------------------------------------------------------------------
(***************************************************************************)
(* One lemma for each statement of the form.                               *)
(***************************************************************************)
LEMMA AskKeeps ==
  ASSUME FormShape, FormInv, NEW e \in Email, Ask(e)
  PROVE  FormShape' /\ FormInv'
<1> USE DEF FormInv
<1>1. /\ UNCHANGED <<account, key, gone, gate, redeemed, holder, try, tries, free>>
      /\ codes' = codes + 1 /\ codes < MaxCodes /\ codes \in Nat
  BY BoundsAssumed DEF Ask, sessionVars, store, FormShape
<1>2. PICK c \in Challenge : /\ chal' = [chal EXCEPT ![e] = c] /\ c.code = codes'
                             /\ c.attempts = 0 /\ c.guessed = 0
  <2>1. PICK b \in BOOLEAN : chal' = [chal EXCEPT ![e] = [Row(codes') EXCEPT !.known = b]]
    BY DEF Ask
  <2>2. codes' \in Nat
    BY <1>1
  <2> QED
    BY <2>1, <2>2, RowTypes
<1>3. FormShape'
  <2>1. codes' \in 0 .. MaxCodes /\ \A n \in Nat : n <= codes => n <= codes'
    BY <1>1, BoundsAssumed
  <2>2. chal' \in [Email -> Challenge] /\ \A f \in Email : chal'[f].code <= codes'
    BY <1>1, <1>2, <2>1 DEF FormShape, Challenge
  <2> QED
    BY <1>1, <2>1, <2>2 DEF FormShape
<1>4. AnswersAreAboutCodes'
  <2>1. \A n \in 1 .. codes : n \in 1 .. codes'
    BY <1>1
  <2> QED
    BY <1>1, <2>1 DEF AnswersAreAboutCodes
<1>5. GuessesAreCounted'
  <2>1. c.code # 0 /\ c.code > codes
    BY <1>1, <1>2
  <2> QED
    BY <1>1, <1>2, <2>1, RowRenewed
<1>6. AdmittedAreVouched' /\ ClaimsAreTheirOwn' /\ KeysAgree'
  BY <1>1, AdmissionStays
<1> QED
  BY <1>3, <1>4, <1>5, <1>6

LEMMA RowExpires ==
  ASSUME FormShape, FormInv, NEW e \in Email, CoolsDown(e) \/ Lapses(e)
  PROVE  FormShape' /\ FormInv'
<1> USE DEF FormInv
<1>1. UNCHANGED <<account, key, gone, gate, codes, redeemed, holder, try, tries, free>>
  BY DEF CoolsDown, Lapses, sessionVars, store
<1>2. chal' \in [Email -> Challenge] /\ \A f \in Email : chal'[f].code <= codes
  <2>1. codes \in Nat
    BY BoundsAssumed DEF FormShape
  <2>2. PICK c \in Challenge : chal' = [chal EXCEPT ![e] = c] /\ c.code <= codes
    <3>1. chal[e] \in Challenge /\ chal[e].code <= codes
      BY DEF FormShape
    <3>2. CASE CoolsDown(e)
      <4> DEFINE c == [chal[e] EXCEPT !.cooling = FALSE]
      <4>1. chal' = [chal EXCEPT ![e] = c]
        BY <3>2 DEF CoolsDown
      <4>2. c \in Challenge /\ c.code = chal[e].code
        BY <3>1, RowTypes
      <4> HIDE DEF c
      <4> QED
        BY <3>1, <4>1, <4>2
    <3>3. CASE Lapses(e)
      <4>1. chal' = [chal EXCEPT ![e] = NoRow]
        BY <3>3 DEF Lapses
      <4>2. NoRow \in Challenge /\ NoRow.code <= codes
        BY <2>1, RowTypes
      <4> QED
        BY <4>1, <4>2
    <3> QED
      BY <3>2, <3>3
  <2> QED
    BY <2>2 DEF FormShape
<1>3. FormShape'
  BY <1>1, <1>2 DEF FormShape
<1>4. AnswersAreAboutCodes'
  BY <1>1 DEF AnswersAreAboutCodes
<1>5. GuessesAreCounted'
  <2>1. CASE CoolsDown(e)
    BY <1>1, <2>1, RowCools
  <2>2. CASE Lapses(e)
    BY <1>1, <2>2, RowTypes, RowRenewed DEF Lapses
  <2> QED
    BY <2>1, <2>2
<1>6. AdmittedAreVouched' /\ ClaimsAreTheirOwn' /\ KeysAgree'
  BY <1>1, AdmissionStays
<1> QED
  BY <1>3, <1>4, <1>5, <1>6

LEMMA AnswerKeeps ==
  ASSUME FormShape, FormInv, NEW s \in Try, NEW e \in Email, NEW verdict \in {"right", "wrong"},
         Answer(s, e, verdict)
  PROVE  FormShape' /\ FormInv'
<1> USE DEF FormInv
<1>1. /\ UNCHANGED <<account, key, gone, gate, codes, redeemed, holder, free>>
      /\ tries' = tries + 1 /\ tries < MaxTries /\ chal[e].code # 0 /\ try[s].pc = "idle"
  BY DEF Answer, sessionVars, store
<1>2. /\ tries \in Nat /\ codes \in Nat /\ chal[e] \in Challenge /\ chal[e].code \in 1 .. codes
      /\ chal[e].code \in 0 .. MaxCodes
  BY <1>1, BoundsAssumed DEF FormShape, Challenge
<1>3. chal[e].attempts \in 0 .. MaxTries
  <2>1. /\ chal[e].attempts \in Nat /\ Cardinality(Guessing(e)) \in Nat
        /\ chal[e].attempts + Cardinality(Guessing(e)) <= tries
    BY <1>2, GuessingSizes DEF GuessesAreCounted, Challenge
  <2> QED
    BY <1>1, <1>2, <2>1, BoundsAssumed
<1>4. PICK a \in Answering : /\ try' = [try EXCEPT ![s] = a]
                             /\ a.pc = verdict /\ a.email = e /\ a.code = chal[e].code
  <2> DEFINE a == [pc |-> verdict, email |-> e, code |-> chal[e].code, seen |-> chal[e].attempts,
                   gated |-> gate, key |-> None]
  <2>1. gate \in BOOLEAN
    BY DEF FormShape
  <2>2. a \in Answering
    BY <1>2, <1>3, <2>1 DEF Answering
  <2>3. try' = [try EXCEPT ![s] = a]
    BY DEF Answer
  <2> QED
    BY <2>2, <2>3
<1>5. /\ try' \in [Try -> Answering] /\ try'[s].pc = verdict /\ try'[s].email = e
      /\ try'[s].code = chal[e].code /\ \A q \in Try \ {s} : try'[q] = try[q]
  BY <1>4 DEF FormShape
<1>6. chal' \in [Email -> Challenge] /\ \A f \in Email : chal'[f].code <= codes
  BY <1>2, RowTypes DEF Answer, FormShape
<1>7. FormShape'
  <2>1. tries' \in 0 .. MaxTries
    BY <1>1, <1>2, BoundsAssumed
  <2> QED
    BY <1>1, <1>5, <1>6, <2>1 DEF FormShape
<1>8. AnswersAreAboutCodes'
  BY <1>1, <1>2, <1>5 DEF AnswersAreAboutCodes
<1>9. GuessesAreCounted'
  <2>1. CASE verdict = "wrong"
    BY <2>1, GuessGiven
  <2>2. CASE verdict = "right"
    BY <1>1, <1>5, <2>2, GuessesStay DEF Answer
  <2> QED
    BY <2>1, <2>2
<1>10. AdmittedAreVouched' /\ ClaimsAreTheirOwn' /\ KeysAgree'
  BY <1>1, <1>5, AdmissionStays
<1> QED
  BY <1>7, <1>8, <1>9, <1>10

\* A wrong answer that is written, or never will be.
LEMMA WrongKeeps ==
  ASSUME FormShape, FormInv, NEW s \in Try, Wrong(s) \/ (Dies(s) /\ try[s].pc = "wrong")
  PROVE  FormShape' /\ FormInv'
<1> USE DEF FormInv
<1>1. /\ UNCHANGED <<account, key, gone, gate, codes, redeemed, holder, tries, free>>
      /\ Ends(s) /\ try[s].pc = "wrong"
  BY DEF Wrong, Dies, sessionVars, store, Ends
<1>2. /\ try' \in [Try -> Answering] /\ try'[s].pc = "idle"
      /\ \A q \in Try \ {s} : try'[q] = try[q]
  BY <1>1, EndsMoves
<1>3. PICK e \in Email : e = try[s].email
  BY <1>1 DEF AnswersAreAboutCodes
<1>4. /\ chal \in [Email -> Challenge] /\ chal[e] \in Challenge /\ try[s].code \in 1 .. codes
      /\ try[s].seen \in Nat /\ codes \in Nat /\ chal[e].code \in Nat /\ chal[e].code <= codes
  BY <1>1, <1>3, BoundsAssumed DEF FormShape, AnswersAreAboutCodes, Answering, Challenge
<1>5. PICK c \in Challenge :
        /\ chal' = [chal EXCEPT ![e] = c] /\ (c = NoRow \/ c.code = chal[e].code)
        /\ \/ c = NoRow
           \/ /\ c.code = chal[e].code /\ c.code # 0 /\ try[s].seen + 1 < MaxAttempts
              /\ c.attempts = chal[e].attempts + 1 /\ c.guessed = chal[e].guessed
           \/ /\ c = chal[e] /\ try[s].code # chal[e].code
           \/ /\ c.code = chal[e].code /\ c.code = try[s].code
              /\ c.attempts = chal[e].attempts /\ c.guessed = chal[e].guessed - 1
  <2>1. CASE Wrong(s) /\ try[s].seen + 1 >= MaxAttempts
    BY <1>3, <2>1, RowTypes DEF Wrong
  <2>2. CASE Wrong(s) /\ ~(try[s].seen + 1 >= MaxAttempts) /\ chal[e].code # 0
    <3> DEFINE c == [chal[e] EXCEPT !.attempts = @ + 1]
    <3>1. chal' = [chal EXCEPT ![e] = c]
      BY <1>3, <2>2 DEF Wrong
    <3>2. /\ c \in Challenge /\ c.code = chal[e].code /\ c.attempts = chal[e].attempts + 1
          /\ c.guessed = chal[e].guessed
      BY <1>4, RowTypes
    <3>3. try[s].seen + 1 < MaxAttempts
      BY <1>4, <2>2, BoundsAssumed
    <3> HIDE DEF c
    <3> QED
      BY <2>2, <3>1, <3>2, <3>3
  <2>3. CASE Wrong(s) /\ ~(try[s].seen + 1 >= MaxAttempts) /\ chal[e].code = 0
    <3>1. chal' = chal
      BY <1>3, <2>3 DEF Wrong
    <3>2. chal' = [chal EXCEPT ![e] = chal[e]]
      BY <1>4, <3>1
    <3>3. try[s].code # chal[e].code
      BY <1>4, <2>3
    <3> QED
      BY <1>4, <3>2, <3>3
  <2>4. CASE Dies(s) /\ chal[e].code = try[s].code
    <3> DEFINE c == [chal[e] EXCEPT !.guessed = @ - 1]
    <3>1. chal' = [chal EXCEPT ![e] = c]
      BY <1>1, <1>3, <2>4 DEF Dies
    <3>2. chal[e].guessed >= 1
      <4>1. s \in Current(e)
        BY <1>1, <1>3, <2>4 DEF Current, Guessing
      <4>2. Cardinality(Current(e)) >= 1 /\ Cardinality(Current(e)) \in Nat
        BY <4>1, GuessingSizes, Sizes
      <4> QED
        BY <1>4, <4>2 DEF GuessesAreCounted, Challenge
    <3>3. /\ c \in Challenge /\ c.code = chal[e].code /\ c.attempts = chal[e].attempts
          /\ c.guessed = chal[e].guessed - 1
      BY <1>4, <3>2, RowTypes
    <3> HIDE DEF c
    <3> QED
      BY <2>4, <3>1, <3>3
  <2>5. CASE Dies(s) /\ chal[e].code # try[s].code
    <3>1. chal' = chal
      BY <1>3, <2>5 DEF Dies
    <3>2. chal' = [chal EXCEPT ![e] = chal[e]]
      BY <1>4, <3>1
    <3> QED
      BY <1>4, <2>5, <3>2
  <2> QED
    BY <2>1, <2>2, <2>3, <2>4, <2>5
<1>6. FormShape'
  <2>1. c.code <= codes
    BY <1>4, <1>5, RowTypes
  <2>2. chal' \in [Email -> Challenge] /\ \A f \in Email : chal'[f].code <= codes
    BY <1>4, <1>5, <2>1 DEF FormShape
  <2> QED
    BY <1>1, <1>2, <2>2 DEF FormShape
<1>7. AnswersAreAboutCodes'
  BY <1>1, <1>2, AnswersStay
<1>8. GuessesAreCounted'
  BY <1>1, <1>2, <1>3, <1>5, GuessSettled
<1>9. AdmittedAreVouched' /\ ClaimsAreTheirOwn' /\ KeysAgree'
  BY <1>1, <1>2, AdmissionStays
<1> QED
  BY <1>6, <1>7, <1>8, <1>9

\* The capacity and the invite are looked at.
LEMMA RightKeeps ==
  ASSUME FormShape, FormInv, NEW s \in Try, Right(s)
  PROVE  FormShape' /\ FormInv'
<1> USE DEF FormInv
<1>1. /\ UNCHANGED <<account, key, gone, gate, codes, chal, redeemed, holder, tries, free>>
      /\ try[s].pc = "right"
  BY DEF Right, sessionVars, store
<1>2. /\ try' \in [Try -> Answering] /\ try'[s].pc \in {"idle", "redeem", "admit"}
      /\ \A q \in Try \ {s} : try'[q] = try[q]
      /\ try'[s].pc # "idle" => try'[s].code = try[s].code /\ try'[s].email = try[s].email
      /\ try'[s].pc = "admit" => ~try'[s].gated \/ Registered(try'[s].email)
  <2>1. CASE Ends(s)
    BY <2>1, EndsMoves
  <2>2. CASE Step(s, IF try[s].gated /\ ~Registered(try[s].email) THEN "redeem" ELSE "admit")
    <3>1. PICK pc \in Pc : /\ Step(s, pc) /\ pc \in {"redeem", "admit"}
                           /\ pc = "admit" => ~try[s].gated \/ Registered(try[s].email)
      BY <2>2 DEF Pc
    <3> QED
      BY <3>1, StepMoves
  <2> QED
    BY <2>1, <2>2 DEF Right
<1>3. FormShape'
  BY <1>1, <1>2 DEF FormShape
<1>4. AnswersAreAboutCodes'
  BY <1>1, <1>2, AnswersStay
<1>5. GuessesAreCounted'
  BY <1>1, <1>2, GuessesStay
<1>6. AdmittedAreVouched'
  <2>1. try[s].email \in Email
    BY <1>1 DEF AnswersAreAboutCodes
  <2>2. \A e : Registered(e)' = Registered(e) /\ Vouched(e)' = Vouched(e)
    BY <1>1 DEF Registered, Vouched
  <2>3. try'[s].pc = "admit" /\ try'[s].gated => Vouched(try'[s].email)
    BY <1>2, <2>1 DEF AdmittedAreVouched
  <2> QED
    BY <1>1, <1>2, <2>2, <2>3 DEF AdmittedAreVouched
<1>7. ClaimsAreTheirOwn' /\ KeysAgree'
  BY <1>1, <1>2 DEF ClaimsAreTheirOwn, KeysAgree, Registered
<1> QED
  BY <1>3, <1>4, <1>5, <1>6, <1>7

LEMMA RedeemKeeps ==
  ASSUME FormShape, FormInv, NEW s \in Try, NEW i \in Invite, Redeem(s, i)
  PROVE  FormShape' /\ FormInv'
<1> USE DEF FormInv
<1>1. /\ UNCHANGED <<account, key, gone, gate, codes, chal, holder, tries, free>>
      /\ try[s].pc = "redeem" /\ Step(s, "admit")
      /\ redeemed[i] = {} /\ redeemed' = [redeemed EXCEPT ![i] = {try[s].email}]
  BY DEF Redeem, sessionVars, store
<1>2. /\ try' \in [Try -> Answering] /\ try'[s].pc = "admit"
      /\ \A q \in Try \ {s} : try'[q] = try[q]
      /\ try'[s].code = try[s].code /\ try'[s].email = try[s].email
  BY <1>1, StepMoves DEF Pc
<1>3. try[s].email \in Email
  BY <1>1 DEF AnswersAreAboutCodes
<1>4. /\ redeemed' \in [Invite -> SUBSET Email] /\ redeemed'[i] = {try[s].email}
      /\ \A j \in Invite \ {i} : redeemed'[j] = redeemed[j]
  BY <1>1, <1>3 DEF FormShape
<1>5. FormShape'
  BY <1>1, <1>2, <1>4 DEF FormShape
<1>6. AnswersAreAboutCodes'
  BY <1>1, <1>2, AnswersStay
<1>7. GuessesAreCounted'
  BY <1>1, <1>2, GuessesStay
<1>8. AdmittedAreVouched'
  <2>1. /\ \A e : Registered(e)' = Registered(e) /\ (Vouched(e) => Vouched(e)')
        /\ \A e : e = try[s].email => Vouched(e)'
    BY <1>1, <1>4 DEF Registered, Vouched
  <2>2. \A j \in Invite : redeemed'[j] = {} \/ \E e \in Email : redeemed'[j] = {e}
    BY <1>3, <1>4 DEF AdmittedAreVouched
  <2>3. \A q \in Try : try'[q].pc = "admit" /\ try'[q].gated => Vouched(try[q].email)'
    BY <1>2, <2>1 DEF AdmittedAreVouched, Vouched
  <2>4. \A e \in Email : Registered(e)' => Vouched(e)'
    BY <2>1 DEF AdmittedAreVouched
  <2> QED
    BY <2>2, <2>3, <2>4 DEF AdmittedAreVouched
<1>9. ClaimsAreTheirOwn' /\ KeysAgree'
  BY <1>1, <1>2 DEF ClaimsAreTheirOwn, KeysAgree, Registered
<1> QED
  BY <1>5, <1>6, <1>7, <1>8, <1>9

\* The account is made, or found as it is.
LEMMA AdmitKeeps ==
  ASSUME FormShape, FormInv, SessionsTypeOK, NEW s \in Try, Admit(s)
  PROVE  FormShape' /\ FormInv'
<1> USE DEF FormInv
<1>1. /\ UNCHANGED <<key, gone, gate, codes, chal, redeemed, holder, tries>>
      /\ try[s].pc = "admit" /\ (Ends(s) \/ Step(s, "consume"))
  BY DEF Admit
<1>2. /\ try' \in [Try -> Answering] /\ try'[s].pc \in {"idle", "consume"}
      /\ \A q \in Try \ {s} : try'[q] = try[q]
      /\ try'[s].pc # "idle" => try'[s].code = try[s].code /\ try'[s].email = try[s].email
  BY <1>1, StepMoves, EndsMoves DEF Pc
<1>3. PICK e \in Email : e = try[s].email
  BY <1>1 DEF AnswersAreAboutCodes
<1>4. /\ account' = [account EXCEPT ![e] = IF Registered(e) THEN @ ELSE "active"]
      /\ free' = IF Registered(e) \/ try[s].gated THEN free ELSE free \cup {e}
  BY <1>3 DEF Admit
<1>5. /\ Registered(e)' /\ free \subseteq free' /\ free' \subseteq Email
      /\ \A f \in Email : f # e => Registered(f)' = Registered(f)
  BY <1>4 DEF SessionsTypeOK, FormShape, Registered
<1>6. FormShape'
  BY <1>1, <1>2, <1>5 DEF FormShape
<1>7. AnswersAreAboutCodes'
  BY <1>1, <1>2, AnswersStay
<1>8. GuessesAreCounted'
  BY <1>1, <1>2, GuessesStay
<1>9. AdmittedAreVouched'
  <2>1. \A f : Vouched(f) => Vouched(f)'
    BY <1>1, <1>5 DEF Vouched
  <2>2. Vouched(e)'
    <3>1. CASE Registered(e) \/ try[s].gated
      BY <1>1, <1>3, <2>1, <3>1 DEF AdmittedAreVouched
    <3>2. CASE ~(Registered(e) \/ try[s].gated)
      BY <1>4, <3>2 DEF Vouched
    <3> QED
      BY <3>1, <3>2
  <2>3. \A f \in Email : Registered(f)' => Vouched(f)'
    BY <1>5, <2>1, <2>2 DEF AdmittedAreVouched
  <2>4. \A q \in Try : try'[q].pc = "admit" /\ try'[q].gated => Vouched(try[q].email)'
    BY <1>2, <2>1 DEF AdmittedAreVouched, Vouched
  <2> QED
    BY <1>1, <2>3, <2>4 DEF AdmittedAreVouched
<1>10. ClaimsAreTheirOwn'
  <2>1. \A q \in Try : try'[q].pc \in {"consume", "claim", "claiming", "issue"} =>
          (Registered(try[q].email) \/ try[q].email \in gone)'
    <3> SUFFICES ASSUME NEW q \in Try, try'[q].pc \in {"consume", "claim", "claiming", "issue"}
                 PROVE  (Registered(try[q].email) \/ try[q].email \in gone)'
      OBVIOUS
    <3>1. CASE q = s
      BY <1>2, <1>3, <1>5, <3>1 DEF Registered
    <3>2. CASE q # s
      <4>1. try'[q] = try[q] /\ try[q].email \in Email
        BY <1>2, <3>2 DEF AnswersAreAboutCodes
      <4> QED
        BY <1>1, <1>3, <1>5, <4>1 DEF ClaimsAreTheirOwn, Registered
    <3> QED
      BY <3>1, <3>2
  <2> QED
    BY <1>1, <1>2, <2>1 DEF ClaimsAreTheirOwn
<1>11. KeysAgree'
  BY <1>1 DEF KeysAgree
<1> QED
  BY <1>6, <1>7, <1>8, <1>9, <1>10, <1>11

LEMMA ConsumeKeeps ==
  ASSUME FormShape, FormInv, NEW s \in Try, Consume(s)
  PROVE  FormShape' /\ FormInv'
<1> USE DEF FormInv
<1>1. /\ UNCHANGED <<account, key, gone, gate, codes, redeemed, holder, tries, free>>
      /\ try[s].pc = "consume" /\ Step(s, "claim")
  BY DEF Consume, sessionVars, store
<1>2. /\ try' \in [Try -> Answering] /\ try'[s].pc = "claim"
      /\ \A q \in Try \ {s} : try'[q] = try[q]
      /\ try'[s].code = try[s].code /\ try'[s].email = try[s].email
  BY <1>1, StepMoves DEF Pc
<1>3. PICK e \in Email : e = try[s].email
  BY <1>1 DEF AnswersAreAboutCodes
<1>4. chal' = [chal EXCEPT ![e] = NoRow]
  BY <1>3 DEF Consume
<1>5. FormShape'
  <2>1. NoRow \in Challenge /\ NoRow.code <= codes
    BY BoundsAssumed, RowTypes DEF FormShape
  <2>2. chal' \in [Email -> Challenge] /\ \A f \in Email : chal'[f].code <= codes
    BY <1>4, <2>1 DEF FormShape
  <2> QED
    BY <1>1, <1>2, <2>2 DEF FormShape
<1>6. AnswersAreAboutCodes'
  BY <1>1, <1>2, AnswersStay
<1>7. GuessesAreCounted'
  <2>1. NoRow \in Challenge /\ NoRow.code = 0 /\ NoRow.attempts = 0 /\ NoRow.guessed = 0
    BY RowTypes
  <2> QED
    BY <1>1, <1>2, <1>4, <2>1, RowRenewed
<1>8. AdmittedAreVouched'
  BY <1>1, <1>2 DEF AdmittedAreVouched, Registered, Vouched
<1>9. ClaimsAreTheirOwn' /\ KeysAgree'
  BY <1>1, <1>2 DEF ClaimsAreTheirOwn, KeysAgree, Registered
<1> QED
  BY <1>5, <1>6, <1>7, <1>8, <1>9

LEMMA FieldsWritten ==
  ASSUME NEW f \in [Try -> Answering], NEW s \in Try, NEW pc, NEW k,
         NEW g, g = [f EXCEPT ![s].pc = pc, ![s].key = k]
  PROVE  g = [f EXCEPT ![s] = [[f[s] EXCEPT !.pc = pc] EXCEPT !.key = k]]
OBVIOUS

\* What an answer becomes as it takes a key or lets go of it.
LEMMA KeyWritten ==
  ASSUME FormShape, NEW s \in Try, NEW pc \in Pc, NEW k \in Key \cup {None},
         try' = [try EXCEPT ![s].pc = pc, ![s].key = k]
  PROVE  /\ try' \in [Try -> Answering]
         /\ try'[s].pc = pc /\ try'[s].email = try[s].email /\ try'[s].code = try[s].code
         /\ try'[s].key = k /\ \A q \in Try \ {s} : try'[q] = try[q]
<1>1. PICK a \in Answering : a = try[s]
  BY DEF FormShape
<1>2. PICK b \in Answering : /\ b = [a EXCEPT !.pc = pc]
                             /\ b.pc = pc /\ b.email = a.email /\ b.code = a.code
  <2>1. LET b == [a EXCEPT !.pc = pc] IN
          b \in Answering /\ b.pc = pc /\ b.email = a.email /\ b.code = a.code
    BY BoundsAssumed DEF Answering, Pc
  <2> QED
    BY <2>1, Zenon
<1>3. PICK c \in Answering : /\ c = [b EXCEPT !.key = k] /\ c.key = k
                             /\ c.pc = pc /\ c.email = a.email /\ c.code = a.code
  <2>1. LET c == [b EXCEPT !.key = k] IN
          c \in Answering /\ c.key = k /\ c.pc = b.pc /\ c.email = b.email /\ c.code = b.code
    BY BoundsAssumed DEF Answering
  <2>2. PICK c \in Answering : /\ c = [b EXCEPT !.key = k] /\ c.key = k
                              /\ c.pc = b.pc /\ c.email = b.email /\ c.code = b.code
    BY <2>1, Zenon
  <2> QED
    BY <1>2, <2>2, Zenon
<1>4. try' = [try EXCEPT ![s] = c]
  <2>1. try' = [try EXCEPT ![s] = [[try[s] EXCEPT !.pc = pc] EXCEPT !.key = k]]
    BY FieldsWritten DEF FormShape
  <2> QED
    BY <1>1, <1>2, <1>3, <2>1, Zenon
<1> QED
  BY <1>1, <1>3, <1>4 DEF FormShape

LEMMA ClaimKeeps ==
  ASSUME FormShape, FormInv, NEW s \in Try, Claim(s)
  PROVE  FormShape' /\ FormInv'
<1> USE DEF FormInv
<1>1. /\ UNCHANGED <<account, key, gone, gate, codes, chal, redeemed, holder, tries, free>>
      /\ try[s].pc = "claim"
      /\ \/ Step(s, "issue")
         \/ \E k \in Pool : try' = [try EXCEPT ![s].pc = "claiming", ![s].key = k]
  BY DEF Claim, sessionVars, store
<1>2. /\ try' \in [Try -> Answering] /\ try'[s].pc \in {"claiming", "issue"}
      /\ \A q \in Try \ {s} : try'[q] = try[q]
      /\ try'[s].code = try[s].code /\ try'[s].email = try[s].email
      /\ try'[s].pc = "claiming" => try'[s].key \in Pool
  <2>1. CASE Step(s, "issue")
    BY <2>1, StepMoves DEF Pc
  <2>2. ASSUME NEW k \in Pool, try' = [try EXCEPT ![s].pc = "claiming", ![s].key = k]
        PROVE  /\ try' \in [Try -> Answering] /\ try'[s].pc \in {"claiming", "issue"}
               /\ \A q \in Try \ {s} : try'[q] = try[q]
               /\ try'[s].code = try[s].code /\ try'[s].email = try[s].email
               /\ try'[s].key \in Pool
    <3>1. k \in Key \cup {None} /\ "claiming" \in Pc
      BY DEF Pool, Unheld, Pc
    <3> QED
      BY <2>2, <3>1, KeyWritten
  <2> QED
    BY <1>1, <2>1, <2>2
<1>3. FormShape'
  BY <1>1, <1>2 DEF FormShape
<1>4. AnswersAreAboutCodes'
  BY <1>1, <1>2, AnswersStay
<1>5. GuessesAreCounted'
  BY <1>1, <1>2, GuessesStay
<1>6. AdmittedAreVouched'
  BY <1>1, <1>2 DEF AdmittedAreVouched, Registered, Vouched
<1>7. ClaimsAreTheirOwn'
  <2>1. \A k \in Pool : /\ k \in Key /\ holder[k] = None
                        /\ \A q \in Try : try[q].pc = "claiming" => try[q].key # k
    BY DEF Pool, Unheld, Locked
  <2>2. \A q \in Try : try'[q].pc = "claiming" => try'[q].key \in Key /\ holder'[try'[q].key] = None
    BY <1>1, <1>2, <2>1 DEF ClaimsAreTheirOwn
  <2>3. \A p, q \in Try : try'[p].pc = "claiming" /\ try'[q].pc = "claiming"
                            /\ try'[p].key = try'[q].key => p = q
    BY <1>1, <1>2, <2>1 DEF ClaimsAreTheirOwn
  <2> QED
    BY <1>1, <1>2, <2>2, <2>3 DEF ClaimsAreTheirOwn, Registered
<1>8. KeysAgree'
  BY <1>1 DEF KeysAgree
<1> QED
  BY <1>3, <1>4, <1>5, <1>6, <1>7, <1>8

LEMMA ClaimWritesKeeps ==
  ASSUME FormShape, FormInv, SessionsTypeOK, NEW s \in Try, ClaimWrites(s)
  PROVE  /\ FormShape' /\ FormInv' /\ key' \in [Email -> Key \cup {None}]
<1> USE DEF FormInv
<1>1. /\ UNCHANGED <<account, gone, gate, codes, chal, redeemed, tries, free>>
      /\ try[s].pc = "claiming"
      /\ try' = [try EXCEPT ![s].pc = "issue", ![s].key = None]
  BY DEF ClaimWrites
<1>2. /\ try' \in [Try -> Answering] /\ try'[s].pc = "issue"
      /\ \A q \in Try \ {s} : try'[q] = try[q]
      /\ try'[s].code = try[s].code /\ try'[s].email = try[s].email
  BY <1>1, KeyWritten DEF Pc
<1>3. PICK e \in Email : e = try[s].email
  BY <1>1 DEF AnswersAreAboutCodes
<1>4. PICK k \in Key : k = try[s].key /\ holder[k] = None
  BY <1>1 DEF ClaimsAreTheirOwn
<1>5. /\ holder \in [Key -> Email \cup {None}] /\ key \in [Email -> Key \cup {None}]
      /\ None \notin Email \cup Key
  BY SessionsAssumption DEF FormShape, SessionsTypeOK
<1>6. /\ holder' \in [Key -> Email \cup {None}] /\ key' \in [Email -> Key \cup {None}]
      /\ \A h \in Key \ {k} : holder'[h] = holder[h]
  BY <1>3, <1>4, <1>5 DEF ClaimWrites
<1>7. FormShape'
  BY <1>1, <1>2, <1>6 DEF FormShape
<1>8. AnswersAreAboutCodes'
  BY <1>1, <1>2, AnswersStay
<1>9. GuessesAreCounted'
  BY <1>1, <1>2, GuessesStay
<1>10. AdmittedAreVouched'
  BY <1>1, <1>2 DEF AdmittedAreVouched, Registered, Vouched
<1>11. ClaimsAreTheirOwn'
  BY <1>1, <1>2, <1>4, <1>6 DEF ClaimsAreTheirOwn, Registered
<1>12. KeysAgree'
  <2>1. CASE \E h \in Key : holder[h] = e
    <3>1. UNCHANGED <<holder, key>>
      BY <1>3, <2>1 DEF ClaimWrites
    <3> QED
      BY <1>1, <3>1 DEF KeysAgree
  <2>2. CASE \A h \in Key : holder[h] # e
    <3>1. /\ holder' = [holder EXCEPT ![k] = e]
          /\ key' = IF Registered(e) THEN [key EXCEPT ![e] = k] ELSE key
      BY <1>3, <1>4, <2>2 DEF ClaimWrites
    <3>2. key[e] = None
      BY <1>5, <2>2 DEF KeysAgree
    <3>3. holder'[k] = e /\ \A f \in Email \ {e} : key'[f] = key[f]
      BY <1>5, <3>1
    <3>4. key'[e] = IF Registered(e) THEN k ELSE None
      BY <1>5, <3>1, <3>2
    <3>5. \A f \in Email : key'[f] # None => holder'[key'[f]] = f
      <4> SUFFICES ASSUME NEW f \in Email, key'[f] # None PROVE holder'[key'[f]] = f
        OBVIOUS
      <4>1. CASE f = e
        BY <3>3, <3>4, <4>1
      <4>2. CASE f # e
        <5>1. key'[f] = key[f] /\ key[f] \in Key /\ holder[key[f]] = f
          BY <1>5, <3>3, <4>2 DEF KeysAgree
        <5> QED
          BY <1>4, <1>5, <1>6, <5>1
      <4> QED
        BY <4>1, <4>2
    <3>6. \A h \in Key : holder'[h] \in Email \ gone => key'[holder'[h]] = h
      <4> SUFFICES ASSUME NEW h \in Key, holder'[h] \in Email \ gone PROVE key'[holder'[h]] = h
        OBVIOUS
      <4>1. CASE h = k
        BY <1>1, <1>3, <3>3, <3>4, <4>1 DEF ClaimsAreTheirOwn
      <4>2. CASE h # k
        BY <1>6, <2>2, <3>3, <4>2 DEF KeysAgree
      <4> QED
        BY <4>1, <4>2
    <3> QED
      BY <1>1, <3>5, <3>6 DEF KeysAgree
  <2> QED
    BY <2>1, <2>2
<1> QED
  BY <1>6, <1>7, <1>8, <1>9, <1>10, <1>11, <1>12

\* A session begins.
LEMMA IssueKeeps ==
  ASSUME FormShape, FormInv, SessionsTypeOK, SessionsInv, NEW s \in Try, Issue(s)
  PROVE  FormShape' /\ FormInv' /\ SessionsTypeOK' /\ SessionsInv'
<1> USE DEF FormInv
<1>1. /\ UNCHANGED <<account, key, gone, ended, req, op, gate, codes, chal, redeemed, holder,
                     tries, free>>
      /\ try[s].pc = "issue" /\ Ends(s)
      /\ minted < MaxTokens /\ minted' = minted + 1 /\ rows' = rows \cup {minted'}
  BY DEF Issue, store
<1>2. /\ try' \in [Try -> Answering] /\ try'[s].pc = "idle"
      /\ \A q \in Try \ {s} : try'[q] = try[q]
  BY <1>1, EndsMoves
<1>3. FormShape'
  BY <1>1, <1>2 DEF FormShape
<1>4. AnswersAreAboutCodes'
  BY <1>1, <1>2, AnswersStay
<1>5. GuessesAreCounted'
  BY <1>1, <1>2, GuessesStay
<1>6. AdmittedAreVouched' /\ ClaimsAreTheirOwn' /\ KeysAgree'
  BY <1>1, <1>2, AdmissionStays
<1>7. PICK e \in Email : e = try[s].email
  BY <1>1 DEF AnswersAreAboutCodes
<1>8. /\ minted \in 0 .. MaxTokens /\ MaxTokens \in Nat /\ minted' \in Token
      /\ minted' \in 0 .. MaxTokens /\ minted' \notin 1 .. minted
      /\ \A t \in 1 .. minted' : t \in 1 .. minted \/ t = minted'
      /\ \A t \in 1 .. minted : t \in 1 .. minted' /\ t \in Token /\ t # minted'
  BY <1>1, BoundsAssumed DEF SessionsTypeOK, Token
<1>9. /\ tok' \in [Token -> Kept] /\ tok'[minted'].email = e /\ tok'[minted'].root = minted'
      /\ \A t \in 1 .. minted : tok'[t] = tok[t]
  <2>1. Fresh(e, minted') \in Kept /\ Fresh(e, minted').email = e /\ Fresh(e, minted').root = minted'
    BY <1>8 DEF Fresh, Kept
  <2>2. tok' = [tok EXCEPT ![minted'] = Fresh(e, minted')] /\ tok \in [Token -> Kept]
    BY <1>7 DEF Issue, SessionsTypeOK, Kept
  <2> QED
    BY <1>8, <2>1, <2>2
<1>10. SessionsTypeOK'
  <2>1. minted' \in 1 .. minted' /\ rows \subseteq 1 .. minted
    BY <1>1, <1>8 DEF SessionsTypeOK
  <2>2. rows' \subseteq 1 .. minted'
    BY <1>1, <1>8, <2>1
  <2> QED
    BY <1>1, <1>8, <1>9, <2>2 DEF SessionsTypeOK, Kept
<1>11. /\ TokensHaveRoots /\ RotationsGoOn /\ LateFindNothing /\ SpentHaveOneNext /\ OneFresh
       /\ EndedStaysOut /\ ConsoleIsNamed /\ rows \subseteq 1 .. minted
  BY DEF SessionsInv, TokensInv, SessionsTypeOK
<1>12. \A t \in 1 .. minted : tok[t].root \in 1 .. minted /\ tok[t].root # minted'
  BY <1>8, <1>11 DEF TokensHaveRoots
<1>13. minted' \notin ended
  BY <1>8, <1>11 DEF TokensHaveRoots
<1>14. TokensHaveRoots'
  <2>1. \A t \in 1 .. minted' : tok'[t].root \in 1 .. minted' /\ tok'[t].email = tok'[tok'[t].root].email
    <3> SUFFICES ASSUME NEW t \in 1 .. minted'
                 PROVE  tok'[t].root \in 1 .. minted' /\ tok'[t].email = tok'[tok'[t].root].email
      OBVIOUS
    <3>1. CASE t = minted'
      BY <1>9, <3>1
    <3>2. CASE t # minted'
      <4>1. t \in 1 .. minted
        BY <1>8, <3>2
      <4> QED
        BY <1>8, <1>9, <1>11, <4>1 DEF TokensHaveRoots
    <3> QED
      BY <3>1, <3>2
  <2>2. ended' \subseteq 1 .. minted'
    BY <1>1, <1>8, <1>11 DEF TokensHaveRoots
  <2> QED
    BY <2>1, <2>2 DEF TokensHaveRoots
<1>15. RotationsGoOn'
  BY <1>1, <1>8, <1>9, <1>11 DEF RotationsGoOn
<1>16. LateFindNothing'
  BY <1>1, <1>8, <1>9, <1>11 DEF LateFindNothing
<1>17. SpentHaveOneNext'
  BY <1>1, <1>8, <1>9, <1>11 DEF SpentHaveOneNext
<1>18. OneFresh'
  <2> SUFFICES ASSUME NEW t \in 1 .. minted', NEW u \in 1 .. minted',
                      tok'[t].state = "fresh", tok'[u].state = "fresh", tok'[t].root = tok'[u].root
               PROVE  t = u
    BY DEF OneFresh
  <2>1. CASE t \in 1 .. minted /\ u \in 1 .. minted
    BY <1>9, <1>11, <2>1 DEF OneFresh
  <2>2. CASE t = minted' /\ u \in 1 .. minted
    BY <1>9, <1>12, <2>2
  <2>3. CASE u = minted' /\ t \in 1 .. minted
    BY <1>9, <1>12, <2>3
  <2> QED
    BY <1>8, <2>1, <2>2, <2>3
<1>19. EndedStaysOut'
  <2>1. ended' \cap rows' = {}
    BY <1>1, <1>8, <1>9, <1>11, <1>13 DEF EndedStaysOut
  <2> QED
    BY <1>1, <1>11, <2>1 DEF EndedStaysOut
<1>20. ConsoleIsNamed'
  BY <1>1, <1>11 DEF ConsoleIsNamed
<1> QED
  BY <1>3, <1>4, <1>5, <1>6, <1>10, <1>14, <1>15, <1>16, <1>17, <1>18, <1>19, <1>20
     DEF SessionsInv, TokensInv

\* Any other answer that is never given; and the console's setting.
LEMMA DiesKeeps ==
  ASSUME FormShape, FormInv, NEW s \in Try, Dies(s)
  PROVE  FormShape' /\ FormInv'
<1> USE DEF FormInv
<1>1. CASE try[s].pc = "wrong"
  BY <1>1, WrongKeeps
<1>2. CASE try[s].pc # "wrong"
  <2>1. /\ UNCHANGED <<account, key, gone, gate, codes, chal, redeemed, holder, tries, free>>
        /\ Ends(s)
    BY <1>2 DEF Dies, sessionVars, store
  <2>2. /\ try' \in [Try -> Answering] /\ try'[s].pc = "idle"
        /\ \A q \in Try \ {s} : try'[q] = try[q]
    BY <2>1, EndsMoves
  <2>3. FormShape'
    BY <2>1, <2>2 DEF FormShape
  <2>4. AnswersAreAboutCodes'
    BY <2>1, <2>2, AnswersStay
  <2>5. GuessesAreCounted'
    BY <1>2, <2>1, <2>2, GuessesStay
  <2>6. AdmittedAreVouched' /\ ClaimsAreTheirOwn' /\ KeysAgree'
    BY <2>1, <2>2, AdmissionStays
  <2> QED
    BY <2>3, <2>4, <2>5, <2>6
<1> QED
  BY <1>1, <1>2

LEMMA SetAccessKeeps ==
  ASSUME FormShape, FormInv, SetAccess
  PROVE  FormShape' /\ FormInv'
<1>1. UNCHANGED <<account, key, gone, codes, chal, redeemed, holder, try, tries, free>>
  BY DEF SetAccess, sessionVars, store
<1>2. FormShape'
  BY <1>1, SignInAssumption DEF SetAccess, FormShape
<1>3. AdmittedAreVouched' /\ ClaimsAreTheirOwn' /\ KeysAgree'
  BY <1>1, AdmissionStays DEF FormInv
<1>4. AnswersAreAboutCodes'
  BY <1>1 DEF FormInv, AnswersAreAboutCodes
<1>5. GuessesAreCounted'
  BY <1>1 DEF FormInv, GuessesAreCounted, Guessing, Counting, Current
<1> QED
  BY <1>2, <1>3, <1>4, <1>5 DEF FormInv

\* What becomes of an account and of its sessions, seen from the form.
LEMMA SessionsKeepForm ==
  ASSUME FormShape, FormInv, SessionsTypeOK, SessionsInv, SessionsNext, UNCHANGED formVars
  PROVE  FormShape' /\ FormInv'
<1> USE DEF FormInv
<1>1. UNCHANGED <<gate, codes, chal, redeemed, holder, try, tries, free>>
  BY DEF formVars
<1>2. /\ account \in [Email -> {"none", "active", "disabled"}] /\ key \in [Email -> Key \cup {None}]
      /\ gone \subseteq Email
  BY DEF SessionsTypeOK
<1>3. \/ UNCHANGED store
      \/ \E o \in Operator : SetDisabled(o) \/ Erase(o)
  BY DEF SessionsNext, Present, Store, StoreFails, Replay, ReadAccount, Ages, Sweep, SignOut,
         Toggle, StartErase, Suspended, OperatorDies
<1>4. /\ gone \subseteq gone'
      /\ \A e \in Email : /\ Registered(e)' => Registered(e)
                          /\ Registered(e) => Registered(e)' \/ e \in gone'
                          /\ key'[e] = key[e] \/ (key'[e] = None /\ e \in gone')
  <2>1. CASE UNCHANGED store
    BY <2>1 DEF store, Registered
  <2>2. ASSUME NEW o \in Operator, SetDisabled(o) PROVE  <1>4!:
    <3>1. op[o].email \in Email /\ UNCHANGED <<key, gone>>
      BY <2>2 DEF SetDisabled, SessionsInv, ConsoleIsNamed
    <3> QED
      BY <1>2, <2>2, <3>1 DEF SetDisabled, Registered
  <2>3. ASSUME NEW o \in Operator, Erase(o) PROVE  <1>4!:
    <3>1. op[o].email \in Email
      BY <2>3 DEF Erase, SessionsInv, ConsoleIsNamed
    <3> QED
      BY <1>2, <2>3, <3>1 DEF Erase, Registered
  <2> QED
    BY <1>3, <2>1, <2>2, <2>3
<1>5. FormShape'
  BY <1>1 DEF FormShape
<1>6. AnswersAreAboutCodes' /\ GuessesAreCounted'
  BY <1>1 DEF AnswersAreAboutCodes, GuessesAreCounted, Guessing, Counting, Current
<1>7. AdmittedAreVouched'
  BY <1>1, <1>4 DEF AdmittedAreVouched, Vouched
<1>8. ClaimsAreTheirOwn'
  <2>1. \A s \in Try : try[s].pc \in {"consume", "claim", "claiming", "issue"} =>
          (Registered(try[s].email) \/ try[s].email \in gone)'
    BY <1>1, <1>4 DEF ClaimsAreTheirOwn, AnswersAreAboutCodes, Registered
  <2> QED
    BY <1>1, <2>1 DEF ClaimsAreTheirOwn, Registered
<1>9. KeysAgree'
  BY <1>1, <1>4 DEF KeysAgree
<1> QED
  BY <1>5, <1>6, <1>7, <1>8, <1>9

LEMMA FormKeepsSessions ==
  ASSUME FormShape, FormInv, SessionsTypeOK, SessionsInv, FormNext
  PROVE  SessionsTypeOK' /\ SessionsInv'
<1>1. ASSUME UNCHANGED <<gone, minted, rows, tok, ended, req, op>>,
             account' \in [Email -> {"none", "active", "disabled"}],
             key' \in [Email -> Key \cup {None}]
      PROVE  SessionsTypeOK' /\ SessionsInv'
  BY <1>1 DEF SessionsTypeOK, SessionsInv, TokensInv, TokensHaveRoots, RotationsGoOn,
              LateFindNothing, SpentHaveOneNext, OneFresh, EndedStaysOut, ConsoleIsNamed
<1>2. account \in [Email -> {"none", "active", "disabled"}] /\ key \in [Email -> Key \cup {None}]
  BY DEF SessionsTypeOK
<1>3. CASE UNCHANGED sessionVars
  BY <1>1, <1>2, <1>3 DEF sessionVars, store, tokens
<1>4. ASSUME NEW s \in Try, Admit(s) PROVE SessionsTypeOK' /\ SessionsInv'
  BY <1>1, <1>2, <1>4 DEF Admit, tokens
<1>5. ASSUME NEW s \in Try, ClaimWrites(s) PROVE SessionsTypeOK' /\ SessionsInv'
  <2>1. key' \in [Email -> Key \cup {None}]
    BY <1>5, ClaimWritesKeeps
  <2> QED
    BY <1>1, <1>2, <1>5, <2>1 DEF ClaimWrites, tokens
<1>6. ASSUME NEW s \in Try, Issue(s) PROVE SessionsTypeOK' /\ SessionsInv'
  BY <1>6, IssueKeeps
<1> QED
  BY <1>3, <1>4, <1>5, <1>6
     DEF FormNext, Ask, CoolsDown, Lapses, Answer, Wrong, Right, Consume, Claim, Dies, Redeem,
         SetAccess

LEMMA FormStep ==
  ASSUME FormShape, FormInv, SessionsTypeOK, SessionsInv, FormNext
  PROVE  FormShape' /\ FormInv'
BY AskKeeps, RowExpires, AnswerKeeps, WrongKeeps, RightKeeps, RedeemKeeps, AdmitKeeps,
   ConsumeKeeps, ClaimKeeps, ClaimWritesKeeps, IssueKeeps, DiesKeeps, SetAccessKeeps DEF FormNext

LEMMA StepKeepsIInv == IInv /\ [Next]_vars => IInv'
<1> SUFFICES ASSUME SessionsTypeOK, SessionsInv, FormShape, FormInv, [Next]_vars PROVE IInv'
  BY DEF IInv
<1>1. CASE SessionsNext /\ UNCHANGED formVars
  BY <1>1, SessionsStep, SessionsKeepForm DEF IInv
<1>2. CASE FormNext
  BY <1>2, FormStep, FormKeepsSessions DEF IInv
<1>3. CASE UNCHANGED vars
  <2>1. UNCHANGED <<account, key, gone, minted, rows, tok, ended, req, op,
                    gate, codes, chal, redeemed, holder, try, tries, free>>
    BY <1>3 DEF vars, sessionVars, store, tokens, formVars
  <2>2. SessionsTypeOK' /\ SessionsInv'
    BY <2>1 DEF SessionsTypeOK, SessionsInv, TokensInv, TokensHaveRoots, RotationsGoOn,
                LateFindNothing, SpentHaveOneNext, OneFresh, EndedStaysOut, ConsoleIsNamed
  <2>3. FormShape' /\ FormInv'
    BY <2>1 DEF FormShape, FormInv, AnswersAreAboutCodes, GuessesAreCounted, Guessing, Counting,
                Current, AdmittedAreVouched, Vouched, Registered, ClaimsAreTheirOwn, KeysAgree
  <2> QED
    BY <2>2, <2>3 DEF IInv
<1> QED
  BY <1>1, <1>2, <1>3 DEF Next

LEMMA InitIsIInv == Init => IInv
<1> SUFFICES ASSUME Init PROVE IInv
  OBVIOUS
<1>1. PICK owner \in [1 .. Cardinality(Founder) -> Founder] : SessionsInit(Founder, owner)
  BY DEF Init
<1>2. /\ Cardinality(Founder) \in Nat /\ Cardinality(Founder) <= MaxTokens
      /\ Founder \subseteq Email /\ Gates \subseteq BOOLEAN
  BY FS_CardinalityType, SignInAssumption
<1>3. /\ account = [e \in Email |-> IF e \in Founder THEN "active" ELSE "none"]
      /\ key = [e \in Email |-> None]
      /\ minted = Cardinality(Founder) /\ rows = 1 .. minted
      /\ ended = {} /\ gone = {}
      /\ req = [r \in Request |-> [pc |-> "idle", tok |-> 0, new |-> 0, late |-> FALSE]]
      /\ op = [o \in Operator |-> [pc |-> "idle", email |-> None]]
  BY <1>1 DEF SessionsInit
<1>4. /\ gate \in BOOLEAN /\ chal = [e \in Email |-> NoRow]
      /\ redeemed = [i \in Invite |-> {}] /\ holder = [k \in Key |-> None]
      /\ try = [s \in Try |-> Nobody] /\ tries = 0 /\ codes = 0 /\ free = {}
  BY <1>2 DEF Init
<1>5. minted \in 0 .. MaxTokens /\ \A t \in 1 .. minted : t \in Token /\ t \in 0 .. MaxTokens
  BY <1>2, <1>3, BoundsAssumed DEF Token
<1>6. /\ tok \in [Token -> Kept]
      /\ \A t \in 1 .. minted : tok[t].root = t
  <2>1. tok = [t \in Token |-> IF t <= minted THEN Fresh(owner[t], t)
                               ELSE [email |-> None, root |-> 0, next |-> 0, state |-> "stale"]]
    BY <1>1 DEF SessionsInit
  <2>2. [email |-> None, root |-> 0, next |-> 0, state |-> "stale"] \in Kept
    BY BoundsAssumed DEF Kept
  <2>3. \A t \in Token : t <= minted => Fresh(owner[t], t) \in Kept /\ Fresh(owner[t], t).root = t
    <3> SUFFICES ASSUME NEW t \in Token, t <= minted
                 PROVE  Fresh(owner[t], t) \in Kept /\ Fresh(owner[t], t).root = t
      OBVIOUS
    <3>1. t \in 0 .. MaxTokens /\ 0 \in 0 .. MaxTokens /\ owner[t] \in Email
      BY <1>2, <1>3, BoundsAssumed DEF Token
    <3> QED
      BY <3>1 DEF Fresh, Kept
  <2>4. \A t \in 1 .. minted : t \in Token /\ t <= minted
    BY <1>5
  <2> QED
    BY <2>1, <2>2, <2>3, <2>4
<1>7. SessionsTypeOK
  <2>1. [pc |-> "idle", tok |-> 0, new |-> 0, late |-> FALSE] \in Asking
    BY BoundsAssumed DEF Asking
  <2>2. req \in [Request -> Asking] /\ op \in [Operator -> Tasks]
    BY <1>3, <2>1 DEF Tasks
  <2> QED
    BY <1>3, <1>5, <1>6, <2>2 DEF SessionsTypeOK, Kept, Asking, Tasks
<1>8. SessionsInv
  <2>1. TokensHaveRoots /\ OneFresh
    BY <1>3, <1>6 DEF TokensHaveRoots, OneFresh
  <2>2. RotationsGoOn /\ LateFindNothing /\ SpentHaveOneNext /\ EndedStaysOut
    BY <1>3 DEF RotationsGoOn, LateFindNothing, SpentHaveOneNext, EndedStaysOut
  <2>3. ConsoleIsNamed
    BY <1>3 DEF ConsoleIsNamed
  <2> QED
    BY <2>1, <2>2, <2>3 DEF SessionsInv, TokensInv
<1>9. FormShape
  <2>1. NoRow \in Challenge /\ NoRow.code = 0 /\ Nobody \in Answering
    BY RowTypes, BoundsAssumed DEF Nobody, Answering
  <2> QED
    BY <1>4, <2>1, BoundsAssumed DEF FormShape
<1>10. GuessesAreCounted
  <2> SUFFICES ASSUME NEW e \in Email
               PROVE  /\ chal[e].code = 0 => chal[e] = NoRow
                      /\ Cardinality(Current(e)) <= chal[e].guessed
                      /\ chal[e].guessed <= chal[e].attempts + Cardinality(Current(e))
                      /\ chal[e].attempts + Cardinality(Counting(e)) <= MaxAttempts + Cardinality(Try) - 2
                      /\ chal[e].attempts + Cardinality(Guessing(e)) <= tries
    BY DEF GuessesAreCounted
  <2>1. chal[e] = NoRow /\ NoRow.attempts = 0 /\ NoRow.guessed = 0
    BY <1>4, RowTypes
  <2>2. Guessing(e) = {} /\ Current(e) = {}
    BY <1>4 DEF Guessing, Current, Nobody
  <2>3. /\ Cardinality(Guessing(e)) = 0 /\ Cardinality(Current(e)) = 0
        /\ Cardinality(Counting(e)) \in Nat
        /\ Cardinality(Counting(e)) <= MaxAttempts + Cardinality(Try) - 2
    BY <1>9, <2>2, GuessingSizes, FS_EmptySet
  <2> QED
    BY <1>4, <2>1, <2>3
<1>11. AnswersAreAboutCodes /\ AdmittedAreVouched /\ ClaimsAreTheirOwn /\ KeysAgree
  <2>1. \A s \in Try : try[s].pc = "idle"
    BY <1>4 DEF Nobody
  <2>2. AnswersAreAboutCodes /\ ClaimsAreTheirOwn
    BY <2>1 DEF AnswersAreAboutCodes, ClaimsAreTheirOwn
  <2>3. AdmittedAreVouched
    BY <1>3, <1>4, <2>1 DEF AdmittedAreVouched, Registered, Vouched
  <2>4. KeysAgree
    BY <1>3, <1>4, SessionsAssumption DEF KeysAgree
  <2> QED
    BY <2>2, <2>3, <2>4
<1> QED
  BY <1>7, <1>8, <1>9, <1>10, <1>11 DEF IInv, FormInv

LEMMA Invariance == Spec => []IInv
BY InitIsIInv, StepKeepsIInv, PTL DEF Spec

(***************************************************************************)
(* Every variable of the accounts, the sessions and the form keeps its     *)
(* type; the count of wrong guesses on a row stays below what the answers  *)
(* under way can add to the last count that lets the row live              *)
(* (verification.js, answer).                                              *)
(***************************************************************************)
THEOREM TypeCorrect == Spec => []TypeOK
<1>1. IInv => TypeOK
  <2> SUFFICES ASSUME IInv PROVE TypeOK
    OBVIOUS
  <2>1. /\ SessionsTypeOK /\ FormShape /\ GuessesAreCounted
    BY DEF IInv, FormInv
  <2>2. ASSUME NEW e \in Email
        PROVE  /\ chal[e].code \in 0 .. codes
               /\ chal[e].attempts \in 0 .. MaxAttempts + Cardinality(Try)
               /\ chal[e].attempts < MaxAttempts + Cardinality(Try) - 1
               /\ chal[e].guessed \in 0 .. MaxTries
    <3>1. /\ Cardinality(Guessing(e)) \in Nat /\ Cardinality(Counting(e)) \in Nat
          /\ Cardinality(Current(e)) \in Nat /\ Cardinality(Current(e)) <= Cardinality(Guessing(e))
      BY <2>1, GuessingSizes
    <3>2. /\ chal[e].guessed <= chal[e].attempts + Cardinality(Current(e))
          /\ chal[e].attempts + Cardinality(Counting(e)) <= MaxAttempts + Cardinality(Try) - 2
          /\ chal[e].attempts + Cardinality(Guessing(e)) <= tries
      BY <2>1 DEF GuessesAreCounted
    <3>3. /\ chal[e].code \in Nat /\ chal[e].attempts \in Nat /\ chal[e].guessed \in Nat
          /\ chal[e].code <= codes /\ codes \in Nat /\ tries \in Nat /\ tries <= MaxTries
      BY <2>1, BoundsAssumed DEF FormShape, Challenge
    <3> QED
      BY <3>1, <3>2, <3>3, BoundsAssumed
  <2>3. chal \in [Email -> [code : 0 .. codes, known : BOOLEAN, cooling : BOOLEAN,
                            attempts : 0 .. MaxAttempts + Cardinality(Try), guessed : 0 .. MaxTries]]
    BY <2>1, <2>2 DEF FormShape, Challenge
  <2>4. \A e \in Email : chal[e].attempts < MaxAttempts + Cardinality(Try) - 1
    BY <2>2
  <2> QED
    BY <2>1, <2>3, <2>4 DEF TypeOK, FormShape, Answering
<1> QED
  BY Invariance, <1>1, PTL

(***************************************************************************)
(* A revocation (revoke.js, revokeAllFor) ends every token of its account  *)
(* there is, spent, replaced, in its grace period or of a sign-in that is  *)
(* rotating, for good: none gets its row back and no request that presents *)
(* one afterwards gets in, for any number of requests and consoles.  Only  *)
(* a replacement whose INSERT is still under way is not a token yet        *)
(* (tokens.js:154).                                                        *)
(***************************************************************************)
THEOREM RevocationIsFinal == Spec => []EndedStaysOut
<1>1. IInv => EndedStaysOut
  BY DEF IInv, SessionsInv, TokensInv
<1> QED
  BY Invariance, <1>1, PTL

(***************************************************************************)
(* However many requests present one refresh token at once, those let in   *)
(* get the same replacement, and of one sign-in one token at most can be   *)
(* spent (tokens.js, spendRefresh).                                        *)
(***************************************************************************)
THEOREM RotationHasOneHeir == Spec => []OneSuccessor
<1>1. IInv => OneSuccessor
  <2> SUFFICES ASSUME IInv PROVE OneSuccessor
    OBVIOUS
  <2>1. SpentHaveOneNext /\ OneFresh /\ rows \subseteq 1 .. minted
    BY DEF IInv, SessionsInv, TokensInv, SessionsTypeOK
  <2>2. \A t \in rows : Usable(t) => t \in 1 .. minted /\ tok[t].state = "fresh"
    BY <2>1 DEF Usable
  <2>3. \A t, u \in rows : (Usable(t) /\ Usable(u) /\ tok[t].root = tok[u].root) => t = u
    BY <2>1, <2>2 DEF OneFresh
  <2> QED
    BY <2>1, <2>3 DEF OneSuccessor, SpentHaveOneNext
<1> QED
  BY Invariance, <1>1, PTL

(***************************************************************************)
(* A code dies after MAX_ATTEMPTS wrong guesses and at most two more for   *)
(* each answer that was under way beside the last (verification.js).       *)
(***************************************************************************)
THEOREM CodesAreGuessedRarely == Spec => []GuessesBounded
<1>1. IInv => GuessesBounded
  <2> SUFFICES ASSUME IInv, NEW e \in Email
               PROVE  chal[e].guessed <= MaxAttempts + 2 * (Cardinality(Try) - 1)
    BY DEF GuessesBounded
  <2>1. FormShape /\ GuessesAreCounted
    BY DEF IInv, FormInv
  <2>2. /\ Cardinality(Counting(e)) \in Nat /\ Cardinality(Current(e)) \in Nat
        /\ Cardinality(Current(e)) <= Cardinality(Try)
    BY <2>1, GuessingSizes, Sizes
  <2>3. /\ chal[e].guessed <= chal[e].attempts + Cardinality(Current(e))
        /\ chal[e].attempts + Cardinality(Counting(e)) <= MaxAttempts + Cardinality(Try) - 2
    BY <2>1 DEF GuessesAreCounted
  <2>4. chal[e].attempts \in Nat /\ chal[e].guessed \in Nat
    BY <2>1 DEF FormShape, Challenge
  <2> QED
    BY <2>2, <2>3, <2>4, BoundsAssumed
<1> QED
  BY Invariance, <1>1, PTL

(***************************************************************************)
(* Behind the gate, an account has an invite of its own, whatever forms,   *)
(* erasures and settings interleaved, and an invite admits one address     *)
(* (sign-in.js, invites.js).                                               *)
(***************************************************************************)
THEOREM RegistrationIsGranted == Spec => []EveryoneWasInvited
<1>1. IInv => EveryoneWasInvited
  <2> SUFFICES ASSUME IInv PROVE EveryoneWasInvited
    OBVIOUS
  <2>1. AdmittedAreVouched
    BY DEF IInv, FormInv
  <2>2. ASSUME NEW i \in Invite PROVE Cardinality(redeemed[i]) <= 1
    <3>1. CASE redeemed[i] = {}
      BY <3>1, FS_EmptySet
    <3>2. CASE \E e \in Email : redeemed[i] = {e}
      <4>1. PICK e \in Email : redeemed[i] = {e}
        BY <3>2
      <4>2. Cardinality({e}) = 1
        BY FS_Singleton
      <4> QED
        BY <4>1, <4>2
    <3> QED
      BY <2>1, <3>1, <3>2 DEF AdmittedAreVouched
  <2> QED
    BY <2>1, <2>2 DEF EveryoneWasInvited, AdmittedAreVouched, Vouched
<1> QED
  BY Invariance, <1>1, PTL

(***************************************************************************)
(* The pool of model keys and the accounts agree on who has which key,     *)
(* though a claim is a snapshot and a write (model-keys.js, claim).        *)
(***************************************************************************)
THEOREM KeysAreAccountedFor == Spec => []KeysAgree
<1>1. IInv => KeysAgree
  BY DEF IInv, FormInv
<1> QED
  BY Invariance, <1>1, PTL
=============================================================================
