---------------------------- MODULE TunnelProofs ----------------------------
(***************************************************************************)
(* What holds of the tunnel for any number of requests, sockets, agents,   *)
(* dials and inputs, and for every cap of the messages that are held.      *)
(***************************************************************************)
EXTENDS Tunnel, TLAPS

(***************************************************************************)
(* Generations: only the newest may still be open at the sandbox's end,    *)
(* and the one in the registry is open at the gateway's.                   *)
(***************************************************************************)
WireInv ==
  /\ \A g \in Gen : g < gen => box[g] = "closed"
  /\ \A g \in Gen : g > gen => box[g] = "none" /\ gate[g] = "none"
  /\ \A g \in Gen : box[g] = "open" => gate[g] # "none"
  /\ gen # 0 => box[gen] # "none"
  /\ current # 0 => gate[current] = "open"
  /\ NewestServes

\* An end that is gone, or not there yet, has nothing under way to it.
QueueInv ==
  \A g \in Gen :
    /\ gate[g] # "open" \/ box[g] \in {"none", "dialing"} => up[g] = <<>>
    /\ gate[g] = "none" \/ box[g] \in {"none", "closed"} => down[g] = <<>>

UpFrame ==
  {f \in Frame : \/ f.t \in {"httpres", "resend", "reserr"} /\ f.id \in Http
                 \/ f.t \in {"wsopenok", "wsfail", "wsclosed"} /\ f.id \in Ws
                 \/ f.t = "wsmsg" /\ f.id \in Ws /\ f.n # 0
                 \/ f.t \in {"busy", "idle"}}
DownFrame ==
  {f \in Frame : \/ f.t \in {"http", "abort"} /\ f.id \in Http
                 \/ f.t \in {"wsopen", "wsclose"} /\ f.id \in Ws}
FrameTypes ==
  /\ up \in [Gen -> Seq(UpFrame)] /\ down \in [Gen -> Seq(DownFrame)]
  /\ \A w \in Ws : sent[w] <= inputs

(***************************************************************************)
(* Streams: what the gateway has in its maps is carried by the tunnel in   *)
(* the registry, and nobody was told of an end it is not rid of.           *)
(***************************************************************************)
StreamInv ==
  /\ \A s \in Stream : on[s] = 0 <=> told[s] = "idle"
  /\ \A s \in Stream : on[s] <= gen
  /\ \A s \in reg : on[s] = current /\ current # 0
  /\ \A h \in Http : /\ told[h] = "waiting" => h \in reg
                     /\ h \in reg => told[h] \in {"waiting", "begun"}
  /\ \A w \in Ws : w \in reg => told[w] \in {"waiting", "begun", "left"}
  /\ \A w \in Ws :
       /\ opened[w] # "done" => told[w] \in {"idle", "waiting", "left"}
       /\ opened[w] \in {"yes", "no"} => told[w] # "idle"
       /\ opened[w] = "done" => told[w] # "waiting" /\ told[w] # "idle"
       /\ told[w] = "begun" => w \in reg \/ local[w] = "failed"

(***************************************************************************)
(* The sandbox's end: it works for the newest generation only, on what it  *)
(* was asked to start and has not ended.                                   *)
(***************************************************************************)
BoxInv ==
  /\ \A s \in mapped : /\ on[s] = gen /\ gen # 0 /\ box[gen] = "open"
                       /\ local[s] \in {"started", "open", "broken"}
  /\ \A s \in Stream : local[s] \in {"started", "open"} => s \in mapped
  /\ \A s \in Stream : local[s] # "none" => on[s] # 0 /\ (on[s] = gen => box[gen] # "dialing")
  /\ \A h \in Http : told[h] = "begun" => local[h] # "none"

\* The state of the sandbox's own socket or request a frame tells of.
Tells(f) ==
  /\ f.t \in {"httpres", "wsopenok", "wsmsg"} => local[f.id] \notin {"none", "started"}
  /\ f.t \in {"resend", "reserr"} => local[f.id] = "ended"
  /\ f.t = "wsfail" => local[f.id] = "failed"
  /\ f.t = "wsclosed" => local[f.id] \in {"ended", "failed"}

UpInv == \A g \in Gen : \A f \in UnderWay(up[g]) : Tells(f)

(***************************************************************************)
(* A stream is started once, on its own generation, and the frame that     *)
(* ends it comes later.                                                    *)
(***************************************************************************)
Starts == {"http", "wsopen"}
Ends == {"abort", "wsclose"}
DownInv ==
  \A g \in Gen :
    /\ \A f \in UnderWay(down[g]) : on[f.id] = g /\ (f.t \in Starts => local[f.id] = "none")
    /\ \A i, j \in DOMAIN down[g] :
         i < j /\ down[g][i].id = down[g][j].id => down[g][j].t \in Ends

\* What is told to end has left the gateway's maps.
EndInv == \A g \in Gen : \A f \in UnderWay(down[g]) : f.t \in Ends => f.id \notin reg

Wanted(s) ==
  \/ s \in reg
  \/ gate[gen] = "closed"
  \/ \E f \in UnderWay(down[gen]) : f.id = s /\ f.t \in Ends
  \/ s \in Http /\ told[s] = "504"
  \/ s \in Ws /\ opened[s] # "yes" /\ told[s] \in {"waiting", "502", "left"}
WorkInv ==
  /\ \A s \in mapped : Wanted(s)
  /\ gen # 0 => \A f \in UnderWay(down[gen]) : f.t \in Starts => Wanted(f.id)

(***************************************************************************)
(* An answer that has begun, or is about to, is still being worked on, or  *)
(* its end is under way.                                                   *)
(***************************************************************************)
Begun(h) == told[h] = "begun" \/ \E f \in UnderWay(up[on[h]]) : f.id = h /\ f.t = "httpres"
Ending(h) == \E f \in UnderWay(up[on[h]]) : f.id = h /\ f.t \in {"resend", "reserr"}
AnswerInv ==
  \A h \in Http : h \in reg /\ BothOpen(on[h]) /\ Begun(h) => h \in mapped \/ Ending(h)

(***************************************************************************)
(* The last word on the agents that is under way is true, or if there is   *)
(* none, what the gateway believes.                                        *)
(***************************************************************************)
Word(f) == f.t \in {"busy", "idle"}
LastWord(q, i) == i \in DOMAIN q /\ Word(q[i]) /\ \A j \in DOMAIN q : j > i => ~Word(q[j])
TrueWord(q, believed, a) ==
  \/ \E i \in DOMAIN q : LastWord(q, i) /\ (q[i].t = "busy" <=> a # {})
  \/ (\A i \in DOMAIN q : ~Word(q[i])) /\ believed = (a # {})
BusyInv == gen # 0 /\ BothOpen(gen) => TrueWord(up[gen], busy[gen], agents)

(***************************************************************************)
(* Messages come in the order they were pushed in; while none was dropped  *)
(* at the cap, what was given and what is held are the first ones, and the *)
(* rest is under way.                                                      *)
(***************************************************************************)
Message(f, w) == f.t = "wsmsg" /\ f.id = w
Rising(q) ==
  \A i, j \in DOMAIN q :
    i < j /\ q[i].t = "wsmsg" /\ q[j].t = "wsmsg" /\ q[i].id = q[j].id => q[i].n < q[j].n
MessageInv ==
  \A g \in Gen :
    /\ \A f \in UnderWay(up[g]) : f.t = "wsmsg" => on[f.id] = g /\ f.n <= sent[f.id]
    /\ Rising(up[g])

Had(w) == Len(got[w]) + Len(pending[w])
Counts(q) == \A i \in DOMAIN q : q[i] = i
Complete(w) ==
  /\ Counts(pending[w])
  /\ Had(w) <= sent[w]
  /\ \A f \in UnderWay(up[on[w]]) : Message(f, w) => f.n > Had(w)
  /\ \/ Had(w) >= MaxPending
     \/ \A n \in Had(w) + 1 .. sent[w] : \E f \in UnderWay(up[on[w]]) : Message(f, w) /\ f.n = n
EventAt(w) ==
  /\ told[w] \in {"idle", "waiting", "left"} => got[w] = <<>>
  /\ told[w] \in {"idle", "begun"} => pending[w] = <<>>
  /\ local[w] \in {"none", "started"} => sent[w] = 0
  /\ sent[w] <= MaxPending + 1 => Counts(got[w])
  /\ w \in reg /\ sent[w] <= MaxPending + 1 => Complete(w)
EventInv == \A w \in Ws : EventAt(w)

IInv ==
  /\ TypeOK /\ FrameTypes /\ WireInv /\ QueueInv /\ StreamInv /\ BoxInv /\ UpInv /\ DownInv
  /\ EndInv /\ WorkInv /\ AnswerInv /\ BusyInv /\ MessageInv /\ EventInv

LEMMA BoundsAssumed == MaxPending \in Nat /\ MaxGen \in Nat /\ MaxInputs \in Nat
BY TunnelAssumption

LEMMA Kinds ==
  /\ \A s \in Stream : s # None /\ (s \in Http \/ s \in Ws) /\ ~(s \in Http /\ s \in Ws)
  /\ Http \subseteq Stream /\ Ws \subseteq Stream
BY TunnelAssumption DEF Stream

-----------------------------------------------------------------------------
(***************************************************************************)
(* Queues of frames: one taken at the front, some joined at the end.       *)
(***************************************************************************)
LEMMA Nothing ==
  /\ \A S : <<>> \in Seq(S)
  /\ Len(<<>>) = 0 /\ DOMAIN <<>> = {} /\ UnderWay(<<>>) = {}
BY DEF UnderWay

Join(q, fs) == q \o fs

LEMMA JoinedUnderWay ==
  ASSUME NEW S, NEW q \in Seq(S), NEW fs \in Seq(S), NEW w, w = Join(q, fs)
  PROVE  w \in Seq(S) /\ UnderWay(w) = UnderWay(q) \cup UnderWay(fs)
<1>1. /\ w \in Seq(S) /\ Len(w) = Len(q) + Len(fs) /\ Len(q) \in Nat /\ Len(fs) \in Nat
      /\ \A i \in 1 .. Len(q) : w[i] = q[i]
      /\ \A i \in 1 .. Len(w) : w[i] = IF i <= Len(q) THEN q[i] ELSE fs[i - Len(q)]
  BY DEF Join
<1>2. ASSUME NEW i \in 1 .. Len(fs) PROVE w[Len(q) + i] = fs[i]
  <2>1. Len(q) + i \in 1 .. Len(w) /\ ~(Len(q) + i <= Len(q)) /\ Len(q) + i - Len(q) = i
    BY <1>1
  <2> QED
    BY <1>1, <2>1
<1>3. UnderWay(w) \subseteq UnderWay(q) \cup UnderWay(fs)
  <2> SUFFICES ASSUME NEW i \in 1 .. Len(w) PROVE w[i] \in UnderWay(q) \cup UnderWay(fs)
    BY DEF UnderWay
  <2>1. CASE i \in 1 .. Len(q)
    BY <1>1, <2>1 DEF UnderWay
  <2>2. CASE i \notin 1 .. Len(q)
    <3>1. i - Len(q) \in 1 .. Len(fs) /\ Len(q) + (i - Len(q)) = i
      BY <1>1, <2>2
    <3>2. w[i] = fs[i - Len(q)]
      BY <1>2, <3>1
    <3> QED
      BY <3>1, <3>2 DEF UnderWay
  <2> QED
    BY <2>1, <2>2
<1>4. UnderWay(q) \subseteq UnderWay(w)
  <2>1. ASSUME NEW i \in 1 .. Len(q) PROVE i \in 1 .. Len(w) /\ w[i] = q[i]
    BY <1>1
  <2> QED
    BY <2>1 DEF UnderWay
<1>5. UnderWay(fs) \subseteq UnderWay(w)
  <2>1. ASSUME NEW i \in 1 .. Len(fs) PROVE Len(q) + i \in 1 .. Len(w)
    BY <1>1
  <2> QED
    BY <1>2, <2>1 DEF UnderWay
<1> QED
  BY <1>1, <1>3, <1>4, <1>5

LEMMA Single ==
  ASSUME NEW S, NEW f \in S
  PROVE  <<f>> \in Seq(S) /\ UnderWay(<<f>>) = {f} /\ Len(<<f>>) = 1 /\ <<f>>[1] = f
BY DEF UnderWay

LEMMA Pair ==
  ASSUME NEW S, NEW f \in S, NEW e \in S
  PROVE  <<f, e>> \in Seq(S) /\ UnderWay(<<f, e>>) = {f, e}
<1>1. <<f, e>> \in Seq(S) /\ Len(<<f, e>>) = 2 /\ <<f, e>>[1] = f /\ <<f, e>>[2] = e
  OBVIOUS
<1>2. 1 .. 2 = {1, 2}
  OBVIOUS
<1> QED
  BY <1>1, <1>2 DEF UnderWay

With(q, f) == Append(q, f)

LEMMA Appended ==
  ASSUME NEW S, NEW q \in Seq(S), NEW f \in S, NEW w, w = With(q, f)
  PROVE  w \in Seq(S) /\ UnderWay(w) = UnderWay(q) \cup {f}
<1>1. w = Join(q, <<f>>)
  BY DEF Join, With
<1>2. PICK fs : fs = <<f>>
  OBVIOUS
<1>3. fs \in Seq(S) /\ w = Join(q, fs)
  BY <1>1, <1>2
<1>4. UnderWay(fs) = {f}
  BY <1>2 DEF UnderWay
<1>5. w \in Seq(S) /\ UnderWay(w) = UnderWay(q) \cup UnderWay(fs)
  BY <1>3, JoinedUnderWay
<1> QED
  BY <1>4, <1>5

LEMMA Dequeued ==
  ASSUME NEW S, NEW q \in Seq(S), q # <<>>, NEW w, w = Tail(q)
  PROVE  /\ w \in Seq(S) /\ Len(q) \in Nat \ {0} /\ Len(w) = Len(q) - 1
         /\ DOMAIN q = 1 .. Len(q) /\ DOMAIN w = 1 .. Len(q) - 1
         /\ \A i \in 1 .. Len(q) - 1 : w[i] = q[i + 1]
         /\ Head(q) = q[1] /\ Head(q) \in S /\ 1 \in DOMAIN q /\ Head(q) \in UnderWay(q)
         /\ UnderWay(w) \subseteq UnderWay(q)
         /\ UnderWay(q) \subseteq UnderWay(w) \cup {Head(q)}
<1>1. /\ w \in Seq(S) /\ Len(q) \in Nat \ {0} /\ Len(w) = Len(q) - 1
      /\ DOMAIN q = 1 .. Len(q) /\ DOMAIN w = 1 .. Len(q) - 1
      /\ \A i \in 1 .. Len(q) - 1 : w[i] = q[i + 1]
      /\ Head(q) = q[1]
  OBVIOUS
<1>2. 1 \in 1 .. Len(q) /\ q[1] \in S /\ q[1] \in UnderWay(q)
  BY <1>1 DEF UnderWay
<1>3. UnderWay(w) \subseteq UnderWay(q)
  <2>1. ASSUME NEW i \in 1 .. Len(w) PROVE i + 1 \in 1 .. Len(q) /\ w[i] = q[i + 1]
    BY <1>1
  <2> QED
    BY <2>1 DEF UnderWay
<1>4. UnderWay(q) \subseteq UnderWay(w) \cup {Head(q)}
  <2> SUFFICES ASSUME NEW i \in 1 .. Len(q), i # 1 PROVE q[i] \in UnderWay(w)
    BY <1>1 DEF UnderWay
  <2>1. i - 1 \in 1 .. Len(w) /\ i - 1 \in 1 .. Len(q) - 1 /\ (i - 1) + 1 = i
    BY <1>1
  <2>2. w[i - 1] = q[i]
    BY <1>1, <2>1
  <2> QED
    BY <2>1, <2>2 DEF UnderWay
<1> QED
  BY <1>1, <1>2, <1>3, <1>4

-----------------------------------------------------------------------------
(***************************************************************************)
(* What a step does to the queues.                                         *)
(***************************************************************************)
WireTypes ==
  /\ gen \in 0 .. MaxGen /\ current \in 0 .. MaxGen
  /\ box \in [Gen -> {"none", "dialing", "open", "closed"}]
  /\ gate \in [Gen -> {"none", "open", "closed"}]
StreamTypes ==
  /\ on \in [Stream -> 0 .. MaxGen] /\ reg \subseteq Stream
  /\ told \in [Stream -> {"idle", "waiting", "begun", "closing", "over", "cut",
                          "502", "504", "left"}]
  /\ opened \in [Ws -> {"asked", "yes", "no", "done"}]
  /\ pending \in [Ws -> Seq(1 .. MaxInputs)] /\ got \in [Ws -> Seq(1 .. MaxInputs)]
  /\ \A w \in Ws : Len(pending[w]) <= MaxPending
BoxTypes ==
  /\ busy \in [Gen -> BOOLEAN] /\ mapped \subseteq Stream
  /\ local \in [Stream -> {"none", "started", "open", "broken", "ending", "ended", "failed"}]
  /\ sent \in [Ws -> 0 .. MaxInputs] /\ agents \subseteq Agent /\ inputs \in 0 .. MaxInputs
Types == WireTypes /\ StreamTypes /\ BoxTypes /\ FrameTypes

LEMMA TypesSplit ==
  /\ TypeOK /\ FrameTypes => Types
  /\ Types => TypeOK /\ FrameTypes
<1>1. TypeOK /\ FrameTypes => Types
  BY DEF TypeOK, Types, WireTypes, StreamTypes, BoxTypes
<1>2. ASSUME NEW S, NEW T, S \subseteq T, NEW q \in [Gen -> Seq(S)] PROVE q \in [Gen -> Seq(T)]
  <2>1. ASSUME NEW r \in Seq(S) PROVE r \in Seq(T)
    <3>1. Len(r) \in Nat /\ \A i \in 1 .. Len(r) : r[i] \in T
      BY <1>2
    <3> QED
      BY <3>1
  <2> QED
    BY <1>2, <2>1
<1>3. UpFrame \subseteq Frame /\ DownFrame \subseteq Frame
  BY DEF UpFrame, DownFrame
<1>4. ASSUME Types PROVE up \in [Gen -> Seq(Frame)] /\ down \in [Gen -> Seq(Frame)]
  BY <1>2, <1>3, <1>4 DEF Types, FrameTypes
<1>5. Types => TypeOK /\ FrameTypes
  BY <1>4 DEF TypeOK, Types, WireTypes, StreamTypes, BoxTypes
<1> QED
  BY <1>1, <1>5

LEMMA FrameKinds ==
  /\ \A h \in Http : F("httpres", h) \in UpFrame /\ F("resend", h) \in UpFrame
                     /\ F("reserr", h) \in UpFrame
                     /\ F("http", h) \in DownFrame /\ F("abort", h) \in DownFrame
  /\ \A w \in Ws : F("wsopenok", w) \in UpFrame /\ F("wsfail", w) \in UpFrame
                   /\ F("wsclosed", w) \in UpFrame
                   /\ F("wsopen", w) \in DownFrame /\ F("wsclose", w) \in DownFrame
  /\ F("busy", None) \in UpFrame /\ F("idle", None) \in UpFrame
  /\ \A t, s : F(t, s).t = t /\ F(t, s).id = s /\ F(t, s).n = 0
BY BoundsAssumed, Kinds DEF UpFrame, DownFrame, Frame, F

LEMMA Dials ==
  ASSUME WireTypes
  PROVE  /\ gen \in Nat /\ current \in Nat /\ (gen # 0 => gen \in Gen)
         /\ (current # 0 => current \in Gen) /\ \A g \in Gen : g \in Nat \ {0} /\ g <= MaxGen
BY BoundsAssumed DEF WireTypes, Gen

LEMMA Heard ==
  ASSUME FrameTypes, NEW g \in Gen, NEW kinds, Comes(g, kinds)
  PROVE  /\ up' \in [Gen -> Seq(UpFrame)] /\ \A k \in Gen \ {g} : up'[k] = up[k]
         /\ gate[g] = "open" /\ up[g] \in Seq(UpFrame) /\ up[g] # <<>> /\ up'[g] = Tail(up[g])
         /\ Head(up[g]) \in UpFrame /\ Head(up[g]) \in UnderWay(up[g])
         /\ Head(up[g]).t \in kinds
         /\ UnderWay(up'[g]) \subseteq UnderWay(up[g])
         /\ UnderWay(up[g]) \subseteq UnderWay(up'[g]) \cup {Head(up[g])}
<1>1. up[g] \in Seq(UpFrame) /\ up[g] # <<>> /\ up' = [up EXCEPT ![g] = Tail(up[g])]
      /\ gate[g] = "open" /\ Head(up[g]).t \in kinds
  BY DEF Comes, FrameTypes
<1>2. PICK w : w = Tail(up[g])
  OBVIOUS
<1>3. up'[g] = w /\ \A k \in Gen \ {g} : up'[k] = up[k]
  BY <1>1, <1>2 DEF FrameTypes
<1>4. /\ w \in Seq(UpFrame) /\ Head(up[g]) \in UpFrame /\ Head(up[g]) \in UnderWay(up[g])
      /\ UnderWay(w) \subseteq UnderWay(up[g])
      /\ UnderWay(up[g]) \subseteq UnderWay(w) \cup {Head(up[g])}
  BY <1>1, <1>2, Dequeued
<1>5. up' \in [Gen -> Seq(UpFrame)]
  BY <1>1, <1>2, <1>4 DEF FrameTypes
<1> QED
  BY <1>1, <1>2, <1>3, <1>4, <1>5

LEMMA Taken ==
  ASSUME WireTypes, FrameTypes, NEW kinds, Take(kinds)
  PROVE  /\ gen \in Gen /\ gen # 0 /\ box[gen] = "open"
         /\ down' \in [Gen -> Seq(DownFrame)] /\ \A k \in Gen \ {gen} : down'[k] = down[k]
         /\ down[gen] \in Seq(DownFrame) /\ down[gen] # <<>> /\ down'[gen] = Tail(down[gen])
         /\ Head(down[gen]) \in DownFrame /\ Head(down[gen]) \in UnderWay(down[gen])
         /\ Head(down[gen]).t \in kinds
         /\ UnderWay(down'[gen]) \subseteq UnderWay(down[gen])
         /\ UnderWay(down[gen]) \subseteq UnderWay(down'[gen]) \cup {Head(down[gen])}
<1>0. gen \in Gen
  BY Dials DEF Take
<1>1. down[gen] \in Seq(DownFrame) /\ down[gen] # <<>> /\ down' = [down EXCEPT ![gen] = Tail(down[gen])]
      /\ gen # 0 /\ box[gen] = "open" /\ Head(down[gen]).t \in kinds
  BY <1>0 DEF Take, FrameTypes
<1>2. PICK w : w = Tail(down[gen])
  OBVIOUS
<1>3. down'[gen] = w /\ \A k \in Gen \ {gen} : down'[k] = down[k]
  BY <1>0, <1>1, <1>2 DEF FrameTypes
<1>4. /\ w \in Seq(DownFrame) /\ Head(down[gen]) \in DownFrame /\ Head(down[gen]) \in UnderWay(down[gen])
      /\ UnderWay(w) \subseteq UnderWay(down[gen])
      /\ UnderWay(down[gen]) \subseteq UnderWay(w) \cup {Head(down[gen])}
  BY <1>1, <1>2, Dequeued
<1>5. down' \in [Gen -> Seq(DownFrame)]
  BY <1>1, <1>2, <1>4 DEF FrameTypes
<1> QED
  BY <1>0, <1>1, <1>2, <1>3, <1>4, <1>5

LEMMA SentUp ==
  ASSUME WireTypes, FrameTypes, NEW fs \in Seq(UpFrame), up' = Upward(fs)
  PROVE  /\ up' \in [Gen -> Seq(UpFrame)] /\ \A k \in Gen : k # gen => up'[k] = up[k]
         /\ \/ /\ gen # 0 /\ gen \in Gen /\ BothOpen(gen) /\ up'[gen] = Join(up[gen], fs)
               /\ UnderWay(up'[gen]) = UnderWay(up[gen]) \cup UnderWay(fs)
            \/ up' = up /\ (gen # 0 => ~BothOpen(gen))
<1>1. CASE gen # 0 /\ box[gen] = "open" /\ gate[gen] = "open"
  <2>1. gen \in Gen /\ up[gen] \in Seq(UpFrame) /\ up' = [up EXCEPT ![gen] = Join(up[gen], fs)]
    BY <1>1, Dials DEF Upward, FrameTypes, Join
  <2>2. PICK w : w = Join(up[gen], fs)
    OBVIOUS
  <2>3. w \in Seq(UpFrame) /\ UnderWay(w) = UnderWay(up[gen]) \cup UnderWay(fs)
    BY <2>1, <2>2, JoinedUnderWay
  <2>4. up'[gen] = w /\ (\A k \in Gen : k # gen => up'[k] = up[k]) /\ up' \in [Gen -> Seq(UpFrame)]
    BY <2>1, <2>2, <2>3 DEF FrameTypes
  <2> QED
    BY <1>1, <2>1, <2>2, <2>3, <2>4 DEF BothOpen
<1>2. CASE ~(gen # 0 /\ box[gen] = "open" /\ gate[gen] = "open")
  <2>1. up' = up
    BY <1>2 DEF Upward
  <2> QED
    BY <1>2, <2>1 DEF BothOpen, FrameTypes
<1> QED
  BY <1>1, <1>2

LEMMA SentDown ==
  ASSUME FrameTypes, NEW g \in Gen, NEW f \in DownFrame, down' = Downward(g, f)
  PROVE  /\ down' \in [Gen -> Seq(DownFrame)] /\ \A k \in Gen \ {g} : down'[k] = down[k]
         /\ \/ /\ gate[g] = "open" /\ box[g] # "closed" /\ down'[g] = Join(down[g], <<f>>)
               /\ UnderWay(down'[g]) = UnderWay(down[g]) \cup {f}
            \/ down' = down /\ ~(gate[g] = "open" /\ box[g] # "closed")
<1>1. CASE gate[g] = "open" /\ box[g] # "closed"
  <2>1. down[g] \in Seq(DownFrame) /\ down' = [down EXCEPT ![g] = With(down[g], f)]
    BY <1>1 DEF Downward, FrameTypes, With
  <2>2. PICK w : w = With(down[g], f)
    OBVIOUS
  <2>3. w = Join(down[g], <<f>>)
    BY <2>1, <2>2 DEF Join, With
  <2>4. w \in Seq(DownFrame) /\ UnderWay(w) = UnderWay(down[g]) \cup {f}
    BY <2>1, <2>2, Appended
  <2>5. down'[g] = w /\ (\A k \in Gen \ {g} : down'[k] = down[k]) /\ down' \in [Gen -> Seq(DownFrame)]
    BY <2>1, <2>2, <2>4 DEF FrameTypes
  <2> QED
    BY <1>1, <2>3, <2>4, <2>5
<1>2. CASE ~(gate[g] = "open" /\ box[g] # "closed")
  <2>1. down' = down
    BY <1>2 DEF Downward
  <2> QED
    BY <1>2, <2>1 DEF FrameTypes
<1> QED
  BY <1>1, <1>2

LEMMA Cleared ==
  ASSUME NEW S, NEW q \in [Gen -> Seq(S)], NEW g \in Gen, NEW w, w = [q EXCEPT ![g] = <<>>]
  PROVE  w \in [Gen -> Seq(S)] /\ w[g] = <<>> /\ \A k \in Gen \ {g} : w[k] = q[k]
BY Nothing

-----------------------------------------------------------------------------
(***************************************************************************)
(* A local request or socket goes on by one step, and says so.             *)
(***************************************************************************)
LocalActs(s) ==
  \/ s \in Http /\ (LocalResponds(s) \/ LocalFinishes(s) \/ LocalErrs(s) \/ LocalBreaks(s))
  \/ s \in Ws /\ (LocalOpens(s) \/ LocalPushes(s) \/ LocalCloses(s) \/ LocalFails(s))

\* What the frames fs say of s is so, and of an end of its answer they say it.
Says(s, fs) ==
  /\ \A f \in UnderWay(fs) : f.id = s /\ ~Word(f) /\ Tells(f)'
  /\ s \in Http /\ local'[s] = "ended" =>
       UnderWay(fs) # {} /\ \A f \in UnderWay(fs) : f.t \in {"resend", "reserr"}

\* Nothing is pushed, or the one message it is.
Pushed(s, fs) ==
  \/ (\A f \in UnderWay(fs) : f.t # "wsmsg") /\ UNCHANGED <<sent, inputs>>
  \/ /\ s \in Ws /\ local[s] = "open" /\ \E m \in UpFrame :
        /\ Message(m, s) /\ m.n = sent'[s] /\ fs = <<m>>
     /\ sent'[s] = sent[s] + 1 /\ sent' = [sent EXCEPT ![s] = sent[s] + 1]
     /\ Input

LEMMA Said ==
  ASSUME NEW s, NEW f \in UpFrame, f.id = s, ~Word(f), Tells(f)',
         s \in Http /\ local'[s] = "ended" => f.t \in {"resend", "reserr"}
  PROVE  /\ <<f>> \in Seq(UpFrame) /\ Says(s, <<f>>)
         /\ f.t # "wsmsg" /\ UNCHANGED <<sent, inputs>> => Pushed(s, <<f>>)
<1>1. <<f>> \in Seq(UpFrame)
  OBVIOUS
<1>2. PICK fs : fs = <<f>>
  OBVIOUS
<1>3. UnderWay(fs) = {f}
  BY <1>2 DEF UnderWay
<1>4. Says(s, fs)
  BY <1>3 DEF Says
<1>5. f.t # "wsmsg" /\ UNCHANGED <<sent, inputs>> => Pushed(s, fs)
  BY <1>3 DEF Pushed
<1> QED
  BY <1>1, <1>2, <1>4, <1>5

LEMMA LocalSteps ==
  ASSUME Types, NEW s \in Stream, LocalActs(s)
  PROVE  /\ UNCHANGED <<wire, down, busy, streams, agents>>
         /\ local[s] \in {"started", "open", "ending"}
         /\ local'[s] \in {"open", "broken", "ended", "failed"} /\ (s \in Http => local'[s] # "failed")
         /\ DOMAIN local' = Stream /\ \A r \in Stream \ {s} : local'[r] = local[r]
         /\ \/ local'[s] \in {"ended", "failed"} /\ mapped' = mapped \ {s}
            \/ /\ local'[s] \in {"open", "broken"} /\ mapped' = mapped
               /\ local[s] \in {"started", "open"}
         /\ \E fs \in Seq(UpFrame) : up' = Upward(fs) /\ Says(s, fs) /\ Pushed(s, fs)
<1>0. local \in [Stream -> {"none", "started", "open", "broken", "ending", "ended", "failed"}]
  BY DEF Types, BoxTypes
<1>1. ASSUME NEW t, F(t, s) \in UpFrame, t \in {"httpres", "resend", "reserr", "wsopenok", "wsclosed"},
             Tells(F(t, s))', UNCHANGED <<sent, inputs>>,
             s \in Http /\ local'[s] = "ended" => t \in {"resend", "reserr"},
             up' = Upward(<<F(t, s)>>)
      PROVE  \E fs \in Seq(UpFrame) : up' = Upward(fs) /\ Says(s, fs) /\ Pushed(s, fs)
  <2>1. PICK f : f = F(t, s)
    OBVIOUS
  <2>2. f \in UpFrame /\ f.id = s /\ f.t = t /\ ~Word(f) /\ f.t # "wsmsg"
    BY <1>1, <2>1, FrameKinds DEF Word
  <2>3. Tells(f)' /\ up' = Upward(<<f>>)
    BY <1>1, <2>1, Zenon
  <2>4. <<f>> \in Seq(UpFrame) /\ Says(s, <<f>>) /\ Pushed(s, <<f>>)
    BY <1>1, <2>2, <2>3, Said
  <2> QED
    BY <2>3, <2>4
<1>2. ASSUME NEW S, S \subseteq {"started", "open", "ending"},
             NEW v \in {"open", "broken", "ended", "failed"}, local[s] \in S,
             local' = [local EXCEPT ![s] = v]
      PROVE  /\ local[s] \in S /\ local'[s] = v /\ DOMAIN local' = Stream
             /\ \A r \in Stream \ {s} : local'[r] = local[r]
  BY <1>0, <1>2
<1>3. CASE s \in Http /\ LocalResponds(s)
  <2>1. /\ UNCHANGED <<wire, down, busy, streams, agents, mapped, sent, inputs>>
        /\ up' = Upward(<<F("httpres", s)>>) /\ local[s] = "started"
        /\ local' = [local EXCEPT ![s] = "open"]
    BY <1>3 DEF LocalResponds, Report
  <2>2. local'[s] = "open" /\ DOMAIN local' = Stream /\ \A r \in Stream \ {s} : local'[r] = local[r]
    BY <1>0, <2>1
  <2>3. F("httpres", s) \in UpFrame /\ Tells(F("httpres", s))'
    BY <1>3, <2>2, FrameKinds DEF Tells
  <2>4. \E fs \in Seq(UpFrame) : up' = Upward(fs) /\ Says(s, fs) /\ Pushed(s, fs)
    BY <1>1, <2>1, <2>2, <2>3
  <2> QED
    BY <2>1, <2>2, <2>4
<1>4. CASE s \in Http /\ (LocalFinishes(s) \/ LocalErrs(s))
  <2>1. PICK t \in {"resend", "reserr"} :
          /\ UNCHANGED <<wire, down, busy, streams, agents, sent, inputs>>
          /\ up' = Upward(<<F(t, s)>>) /\ local[s] \in {"started", "open", "ending"}
          /\ local' = [local EXCEPT ![s] = "ended"] /\ mapped' = mapped \ {s}
    BY <1>4 DEF LocalFinishes, LocalErrs, Report
  <2>2. local'[s] = "ended" /\ DOMAIN local' = Stream /\ \A r \in Stream \ {s} : local'[r] = local[r]
    BY <1>0, <2>1
  <2>3. F(t, s) \in UpFrame /\ Tells(F(t, s))'
    BY <1>4, <2>1, <2>2, FrameKinds DEF Tells
  <2>4. \E fs \in Seq(UpFrame) : up' = Upward(fs) /\ Says(s, fs) /\ Pushed(s, fs)
    BY <1>1, <2>1, <2>2, <2>3
  <2> QED
    BY <2>1, <2>2, <2>4
<1>5. CASE s \in Http /\ LocalBreaks(s)
  <2>1. /\ UNCHANGED <<wire, up, down, busy, streams, agents, mapped, sent, inputs>>
        /\ local[s] = "open" /\ local' = [local EXCEPT ![s] = "broken"]
    BY <1>5 DEF LocalBreaks, frames, work
  <2>2. local'[s] = "broken" /\ DOMAIN local' = Stream /\ \A r \in Stream \ {s} : local'[r] = local[r]
    BY <1>0, <2>1
  <2>3. up' = Upward(<<>>)
    <3>1. ASSUME gen # 0 PROVE up[gen] \o <<>> = up[gen] /\ up = [up EXCEPT ![gen] = up[gen]]
      <4>1. gen \in Gen /\ up \in [Gen -> Seq(UpFrame)]
        BY <3>1, Dials DEF Types, FrameTypes
      <4>2. up[gen] \in Seq(UpFrame)
        BY <4>1
      <4> QED
        BY <4>1, <4>2
    <3> QED
      BY <2>1, <3>1 DEF Upward
  <2>4. <<>> \in Seq(UpFrame) /\ UnderWay(<<>>) = {}
    BY Nothing
  <2>5. Says(s, <<>>) /\ Pushed(s, <<>>)
    BY <2>1, <2>2, <2>4 DEF Says, Pushed
  <2> QED
    BY <2>1, <2>2, <2>3, <2>4, <2>5
<1>6. CASE s \in Ws /\ LocalOpens(s)
  <2>1. /\ UNCHANGED <<wire, down, busy, streams, agents, mapped, sent, inputs>>
        /\ up' = Upward(<<F("wsopenok", s)>>) /\ local[s] = "started"
        /\ local' = [local EXCEPT ![s] = "open"]
    BY <1>6 DEF LocalOpens, Report
  <2>2. local'[s] = "open" /\ DOMAIN local' = Stream /\ \A r \in Stream \ {s} : local'[r] = local[r]
    BY <1>0, <2>1
  <2>3. F("wsopenok", s) \in UpFrame /\ Tells(F("wsopenok", s))'
    BY <1>6, <2>2, FrameKinds DEF Tells
  <2>4. \E fs \in Seq(UpFrame) : up' = Upward(fs) /\ Says(s, fs) /\ Pushed(s, fs)
    BY <1>1, <2>1, <2>2, <2>3
  <2> QED
    BY <2>1, <2>2, <2>4
<1>7. CASE s \in Ws /\ LocalCloses(s)
  <2>1. /\ UNCHANGED <<wire, down, busy, streams, agents, sent, inputs>>
        /\ up' = Upward(<<F("wsclosed", s)>>) /\ local[s] \in {"open", "ending"}
        /\ local' = [local EXCEPT ![s] = "ended"] /\ mapped' = mapped \ {s}
    BY <1>7 DEF LocalCloses, Report
  <2>2. local'[s] = "ended" /\ DOMAIN local' = Stream /\ \A r \in Stream \ {s} : local'[r] = local[r]
    BY <1>0, <2>1
  <2>3. F("wsclosed", s) \in UpFrame /\ Tells(F("wsclosed", s))' /\ s \notin Http
    BY <1>7, <2>2, FrameKinds, Kinds DEF Tells
  <2>4. \E fs \in Seq(UpFrame) : up' = Upward(fs) /\ Says(s, fs) /\ Pushed(s, fs)
    BY <1>1, <2>1, <2>2, <2>3
  <2> QED
    BY <2>1, <2>2, <2>4
<1>8. CASE s \in Ws /\ LocalFails(s)
  <2>1. /\ UNCHANGED <<wire, down, busy, streams, agents, sent, inputs>>
        /\ up' = Upward(<<F("wsfail", s), F("wsclosed", s)>>) /\ local[s] \in {"started", "open"}
        /\ local' = [local EXCEPT ![s] = "failed"] /\ mapped' = mapped \ {s}
    BY <1>8 DEF LocalFails, Report
  <2>2. local'[s] = "failed" /\ DOMAIN local' = Stream /\ \A r \in Stream \ {s} : local'[r] = local[r]
    BY <1>0, <2>1
  <2>3. /\ F("wsfail", s) \in UpFrame /\ F("wsclosed", s) \in UpFrame /\ s \notin Http
        /\ \A f \in {F("wsfail", s), F("wsclosed", s)} :
             f.id = s /\ ~Word(f) /\ Tells(f)' /\ f.t # "wsmsg"
    BY <1>8, <2>2, FrameKinds, Kinds DEF Tells, Word
  <2>4. PICK fs : fs = <<F("wsfail", s), F("wsclosed", s)>>
    OBVIOUS
  <2>5. fs \in Seq(UpFrame) /\ UnderWay(fs) = {F("wsfail", s), F("wsclosed", s)}
    BY <2>3, <2>4, Pair
  <2>6. Says(s, fs) /\ Pushed(s, fs)
    BY <2>1, <2>3, <2>5 DEF Says, Pushed
  <2>7. up' = Upward(fs)
    BY <2>1, <2>4, Zenon
  <2> QED
    BY <1>8, <2>1, <2>2, <2>3, <2>5, <2>6, <2>7
<1>9. CASE s \in Ws /\ LocalPushes(s)
  <2>1. /\ UNCHANGED <<wire, down, busy, streams, agents, mapped, local>> /\ local[s] = "open"
        /\ Input /\ sent' = [sent EXCEPT ![s] = sent[s] + 1]
        /\ up' = Upward(<<[F("wsmsg", s) EXCEPT !.n = sent'[s]]>>)
    BY <1>9 DEF LocalPushes, Report
  <2>2. sent \in [Ws -> 0 .. MaxInputs] /\ sent[s] <= inputs /\ inputs < MaxInputs /\ inputs \in Nat
        /\ sent[s] \in Nat
    BY <1>9, <2>1, BoundsAssumed DEF Types, BoxTypes, FrameTypes, Input
  <2>3. sent'[s] = sent[s] + 1
    BY <1>9, <2>1, <2>2
  <2>4. sent'[s] \in 0 .. MaxInputs /\ sent'[s] # 0
    BY <2>2, <2>3, BoundsAssumed
  <2>5. PICK m : m = [F("wsmsg", s) EXCEPT !.n = sent'[s]]
    OBVIOUS
  <2>6. F("wsmsg", s) \in Frame /\ F("wsmsg", s).t = "wsmsg" /\ F("wsmsg", s).id = s
    BY BoundsAssumed DEF F, Frame
  <2>7. m \in Frame /\ m.t = "wsmsg" /\ m.id = s /\ m.n = sent'[s]
    BY <2>4, <2>5, <2>6 DEF Frame
  <2>8. m \in UpFrame /\ Message(m, s) /\ ~Word(m)
    BY <1>9, <2>4, <2>7 DEF UpFrame, Message, Word
  <2>9. Tells(m)' /\ s \notin Http
    BY <1>9, <2>1, <2>7, Kinds DEF Tells
  <2>10. up' = Upward(<<m>>)
    BY <2>1, <2>5, Zenon
  <2>11. <<m>> \in Seq(UpFrame) /\ Says(s, <<m>>)
    BY <2>7, <2>8, <2>9, Said
  <2>12. Pushed(s, <<m>>)
    BY <1>9, <2>1, <2>3, <2>7, <2>8 DEF Pushed
  <2> QED
    BY <1>0, <2>1, <2>9, <2>10, <2>11, <2>12
<1> QED
  BY <1>3, <1>4, <1>5, <1>6, <1>7, <1>8, <1>9 DEF LocalActs

-----------------------------------------------------------------------------
(***************************************************************************)
(* The steps, and what each may change.                                    *)
(***************************************************************************)
Registers(s) == \E t \in Starts : F(t, s) \in DownFrame /\ Register(s, t)
WireActs(g) == Accept(g) \/ BoxOpens(g) \/ BoxCloses(g) \/ GateCloses(g)
EndsForBrowser(s) == (s \in Http /\ BrowserLeaves(s)) \/ (s \in Ws /\ BrowserCloses(s))
WaitsNoLonger(s) ==
  (s \in Http /\ Timeout(s)) \/ (s \in Ws /\ (OpenTimeout(s) \/ Upgrade(s) \/ BrowserGivesUp(s)))
Hears(g) == HearActivity(g) \/ HearHttp(g) \/ HearOpened(g) \/ HearFailed(g) \/ HearMessage(g)
              \/ HearClosed(g)

LEMMA Steps ==
  ASSUME agents \subseteq Agent, Next
  PROVE  \/ Dial \/ Start \/ Stop
         \/ \E g \in Gen : WireActs(g) \/ Hears(g)
         \/ \E s \in Stream : Registers(s) \/ EndsForBrowser(s) \/ WaitsNoLonger(s) \/ LocalActs(s)
         \/ \E next \in SUBSET Agent : AgentsBecome(next)
<1>1. CASE WireStep
  BY <1>1 DEF WireStep, WireActs
<1>2. CASE BrowserStep
  <2>1. ASSUME NEW h \in Http, ProxyHttp(h) PROVE h \in Stream /\ Registers(h)
    BY <2>1, FrameKinds, Kinds DEF ProxyHttp, Registers, Starts
  <2>2. ASSUME NEW w \in Ws, OpenWebSocket(w) PROVE w \in Stream /\ Registers(w)
    BY <2>2, FrameKinds, Kinds DEF OpenWebSocket, Registers, Starts
  <2> QED
    BY <1>2, <2>1, <2>2, Kinds DEF BrowserStep, EndsForBrowser, WaitsNoLonger
<1>3. CASE TimerStep
  BY <1>3, Kinds DEF TimerStep, WaitsNoLonger
<1>4. CASE FrameStep
  BY <1>4 DEF FrameStep, Hears
<1>5. CASE BoxStep
  <2>1. ASSUME NEW a \in Agent, AgentRuns(a) \/ AgentStops(a)
        PROVE  \E next \in SUBSET Agent : AgentsBecome(next)
    BY <2>1 DEF AgentRuns, AgentStops
  <2> QED
    BY <1>5, <2>1, Kinds DEF BoxStep, LocalActs
<1> QED
  BY <1>1, <1>2, <1>3, <1>4, <1>5 DEF Next

(***************************************************************************)
(* destroy() as a step of each stream.                                     *)
(***************************************************************************)
LEMMA Destroyed ==
  ASSUME StreamTypes, NEW g \in Gen, Destroy(g)
  PROVE  /\ StreamTypes' /\ UNCHANGED <<on, pending, got>>
         /\ reg' = {s \in reg : on[s] # g}
         /\ \A s \in Stream : s \notin reg \/ on[s] # g => told'[s] = told[s]
         /\ \A h \in Http : h \in reg /\ on[h] = g =>
              told'[h] = IF told[h] = "waiting" THEN "502" ELSE "cut"
         /\ \A w \in Ws : w \in reg /\ on[w] = g =>
              told'[w] = IF told[w] = "begun" THEN "closing" ELSE told[w]
         /\ \A w \in Ws : opened'[w] = opened[w]
              \/ (opened[w] = "asked" /\ opened'[w] = "no" /\ w \in reg /\ on[w] = g)
<1> USE DEF StreamTypes
<1>1. reg' = {s \in reg : on[s] # g} /\ UNCHANGED <<on, pending, got>>
  BY DEF Destroy, Carried
<1>2. \A s \in Stream :
        told'[s] = (IF s \notin Carried(g) THEN told[s]
                   ELSE IF s \in Http THEN (IF told[s] = "waiting" THEN "502" ELSE "cut")
                   ELSE IF told[s] = "begun" THEN "closing" ELSE told[s])
  BY DEF Destroy
<1>3. \A s \in Stream : s \in Carried(g) <=> s \in reg /\ on[s] = g
  BY DEF Carried
<1>4. told' \in [Stream -> {"idle", "waiting", "begun", "closing", "over", "cut",
                           "502", "504", "left"}]
  <2>1. told' = [s \in Stream |-> told'[s]]
    BY DEF Destroy
  <2>2. \A s \in Stream : told'[s] \in {"idle", "waiting", "begun", "closing", "over", "cut",
                                       "502", "504", "left"}
    BY <1>2
  <2> QED
    BY <2>1, <2>2
<1>5. /\ \A s \in Stream : s \notin reg \/ on[s] # g => told'[s] = told[s]
      /\ \A h \in Http : h \in reg /\ on[h] = g =>
              told'[h] = IF told[h] = "waiting" THEN "502" ELSE "cut"
      /\ \A w \in Ws : w \in reg /\ on[w] = g =>
              told'[w] = IF told[w] = "begun" THEN "closing" ELSE told[w]
  BY <1>2, <1>3, Kinds
<1>6. /\ opened' \in [Ws -> {"asked", "yes", "no", "done"}]
      /\ \A w \in Ws : opened'[w] = opened[w]
           \/ (opened[w] = "asked" /\ opened'[w] = "no" /\ w \in reg /\ on[w] = g)
  BY DEF Destroy, Carried
<1> QED
  BY <1>1, <1>4, <1>5, <1>6

(***************************************************************************)
(* Types.                                                                  *)
(***************************************************************************)
LEMMA WireTypesKept ==
  ASSUME Types, Next
  PROVE  WireTypes'
<1> USE DEF WireTypes
<1>0. WireTypes /\ agents \subseteq Agent
  BY DEF Types, BoxTypes
<1>1. CASE UNCHANGED wire
  BY <1>0, <1>1 DEF wire
<1>2. CASE Dial
  <2>1. gen + 1 \in 0 .. MaxGen
    BY <1>0, <1>2, BoundsAssumed DEF Dial
  <2>2. gen' = gen + 1 /\ UNCHANGED <<gate, current>> /\ box' = [box EXCEPT ![gen'] = "dialing"]
    BY <1>2 DEF Dial
  <2> QED
    BY <1>0, <2>1, <2>2
<1>3. ASSUME NEW g \in Gen, WireActs(g) PROVE WireTypes'
  <2>1. g \in 0 .. MaxGen /\ 0 \in 0 .. MaxGen
    BY <1>0, Dials, BoundsAssumed DEF Gen
  <2> QED
    BY <1>0, <1>3, <2>1 DEF WireActs, Accept, BoxOpens, BoxCloses, GateCloses
<1> QED
  BY <1>0, <1>1, <1>2, <1>3, Steps, LocalSteps
     DEF Start, Stop, Hears, HearActivity, HearHttp, HearOpened, HearFailed, HearMessage, HearClosed,
         Registers, Register, EndsForBrowser, BrowserLeaves, BrowserCloses, WaitsNoLonger, Timeout,
         OpenTimeout, Upgrade, BrowserGivesUp, AgentsBecome

LEMMA BoxTypesKept ==
  ASSUME Types, Next
  PROVE  BoxTypes' /\ \A w \in Ws : sent'[w] <= inputs'
<1> USE DEF BoxTypes
<1>0. BoxTypes /\ (\A w \in Ws : sent[w] <= inputs) /\ inputs \in Nat
      /\ (\A w \in Ws : sent[w] \in Nat)
  BY BoundsAssumed DEF Types, FrameTypes
<1>1. CASE UNCHANGED <<busy, inside, work>>
  BY <1>0, <1>1 DEF inside, work
<1>2. ASSUME Input PROVE inputs' \in 0 .. MaxInputs /\ inputs' = inputs + 1 /\ inputs' \in Nat
  BY <1>0, <1>2, BoundsAssumed DEF Input
<1>3. ASSUME NEW g \in Gen, HearActivity(g) PROVE BoxTypes' /\ \A w \in Ws : sent'[w] <= inputs'
  BY <1>0, <1>3 DEF HearActivity, inside, work
<1>4. CASE Start \/ Stop
  <2>1. gen \in Gen /\ Head(down[gen]) \in DownFrame
    BY <1>4, Taken DEF Types, Start, Stop
  <2>2. Head(down[gen]).id \in Stream
    BY <2>1, Kinds DEF DownFrame
  <2>3. UNCHANGED <<busy, sent, agents, inputs>>
    BY <1>4 DEF Start, Stop, work
  <2>4. mapped' \subseteq Stream
    BY <1>0, <1>4, <2>2 DEF Start, Stop
  <2>5. local' \in [Stream -> {"none", "started", "open", "broken", "ending", "ended", "failed"}]
    BY <1>0, <1>4, <2>2 DEF Start, Stop
  <2> QED
    BY <1>0, <2>3, <2>4, <2>5
<1>5. ASSUME NEW g \in Gen, BoxCloses(g) PROVE BoxTypes' /\ \A w \in Ws : sent'[w] <= inputs'
  <2>1. UNCHANGED <<busy, sent, agents, inputs>> /\ mapped' = {}
        /\ local' = [s \in Stream |-> IF s \in mapped /\ local[s] # "broken"
                                     THEN "ending" ELSE local[s]]
    BY <1>5 DEF BoxCloses, Abandon, work
  <2>2. local' \in [Stream -> {"none", "started", "open", "broken", "ending", "ended", "failed"}]
    BY <1>0, <2>1
  <2> QED
    BY <1>0, <2>1, <2>2
<1>6. ASSUME NEW s \in Stream, Registers(s) PROVE BoxTypes' /\ \A w \in Ws : sent'[w] <= inputs'
  <2>1. UNCHANGED <<busy, inside, agents>> /\ Input
    BY <1>6 DEF Registers, Register
  <2>2. inputs' \in 0 .. MaxInputs /\ \A w \in Ws : sent[w] <= inputs'
    BY <1>0, <1>2, <2>1
  <2> QED
    BY <1>0, <2>1, <2>2 DEF inside
<1>7. ASSUME NEW next \in SUBSET Agent, AgentsBecome(next)
      PROVE  BoxTypes' /\ \A w \in Ws : sent'[w] <= inputs'
  <2>1. UNCHANGED <<busy, inside>> /\ Input /\ agents' = next
    BY <1>7 DEF AgentsBecome
  <2>2. inputs' \in 0 .. MaxInputs /\ \A w \in Ws : sent[w] <= inputs'
    BY <1>0, <1>2, <2>1
  <2> QED
    BY <1>0, <1>7, <2>1, <2>2 DEF inside
<1>8. ASSUME NEW s \in Stream, LocalActs(s) PROVE BoxTypes' /\ \A w \in Ws : sent'[w] <= inputs'
  <2>1. /\ UNCHANGED <<busy, agents>> /\ mapped' \subseteq mapped
        /\ local'[s] \in {"open", "broken", "ended", "failed"}
        /\ DOMAIN local' = Stream /\ \A r \in Stream \ {s} : local'[r] = local[r]
        /\ \E fs \in Seq(UpFrame) : Pushed(s, fs)
    BY <1>8, LocalSteps
  <2>2. local' \in [Stream -> {"none", "started", "open", "broken", "ending", "ended", "failed"}]
    <3>1. local' = [r \in Stream |-> local'[r]]
      BY <1>8, <1>0
         DEF LocalActs, LocalResponds, LocalFinishes, LocalErrs, LocalBreaks, LocalOpens,
             LocalPushes, LocalCloses, LocalFails
    <3> QED
      BY <1>0, <2>1, <3>1
  <2>3. CASE UNCHANGED <<sent, inputs>>
    BY <1>0, <2>1, <2>2, <2>3
  <2>4. CASE s \in Ws /\ sent' = [sent EXCEPT ![s] = sent[s] + 1] /\ Input
    <3>1. inputs' \in 0 .. MaxInputs /\ inputs' = inputs + 1 /\ inputs' \in Nat
      BY <1>2, <2>4
    <3>2. sent[s] + 1 <= inputs' /\ sent[s] + 1 \in 0 .. MaxInputs
      BY <1>0, <2>4, <3>1, BoundsAssumed
    <3>3. sent' \in [Ws -> 0 .. MaxInputs] /\ \A w \in Ws : sent'[w] = sent[w] \/ sent'[w] = sent[s] + 1
      BY <1>0, <2>4, <3>2
    <3>4. \A w \in Ws : sent[w] <= inputs'
      BY <1>0, <3>1
    <3> QED
      BY <1>0, <2>1, <2>2, <3>1, <3>2, <3>3, <3>4
  <2> QED
    BY <2>1, <2>3, <2>4 DEF Pushed
<1> QED
  BY <1>0, <1>1, <1>3, <1>4, <1>5, <1>6, <1>7, <1>8, Steps
     DEF Dial, WireActs, Accept, BoxOpens, GateCloses, Hears, HearHttp, HearOpened, HearFailed,
         HearMessage, HearClosed, EndsForBrowser, BrowserLeaves, BrowserCloses, WaitsNoLonger,
         Timeout, OpenTimeout, Upgrade, BrowserGivesUp

LEMMA HttpHeard ==
  ASSUME Types, NEW g \in Gen, HearHttp(g)
  PROVE  /\ UNCHANGED <<wire, down, busy, on, opened, pending, got, inside, work>>
         /\ \E f \in UpFrame, h \in Http :
              /\ f = Head(up[g]) /\ f.id = h /\ f.t \in {"httpres", "resend", "reserr"}
              /\ \/ ~Known(g, h) /\ UNCHANGED <<reg, told>>
                 \/ Known(g, h) /\ f.t = "httpres" /\ reg' = reg
                    /\ told' = [told EXCEPT ![h] = "begun"]
                 \/ Known(g, h) /\ f.t # "httpres" /\ reg' = reg \ {h}
                    /\ \E v \in {"over", "502", "cut"} : told' = [told EXCEPT ![h] = v]
                         /\ (v = "502" => told[h] = "waiting") /\ (v = "cut" => told[h] # "waiting")
<1>1. PICK f \in UpFrame : f = Head(up[g]) /\ f.t \in {"httpres", "resend", "reserr"}
  BY Heard DEF HearHttp, Types
<1>2. f.id \in Http
  BY <1>1, Kinds DEF UpFrame
<1>3. PICK h \in Http : h = f.id
  BY <1>2
<1>4. /\ reg' = IF f.t # "httpres" /\ Known(g, h) THEN reg \ {h} ELSE reg
      /\ told' = IF ~Known(g, h) THEN told
                 ELSE [told EXCEPT ![h] =
                      CASE f.t = "httpres" -> "begun"
                        [] f.t = "resend"  -> "over"
                        [] f.t = "reserr"  -> IF told[h] = "waiting" THEN "502" ELSE "cut"]
  BY <1>1, <1>3 DEF HearHttp
<1>5. UNCHANGED <<wire, down, busy, on, opened, pending, got, inside, work>>
  BY DEF HearHttp
<1>6. \/ ~Known(g, h) /\ UNCHANGED <<reg, told>>
      \/ Known(g, h) /\ f.t = "httpres" /\ reg' = reg
         /\ told' = [told EXCEPT ![h] = "begun"]
      \/ Known(g, h) /\ f.t # "httpres" /\ reg' = reg \ {h}
         /\ \E v \in {"over", "502", "cut"} : told' = [told EXCEPT ![h] = v]
              /\ (v = "502" => told[h] = "waiting") /\ (v = "cut" => told[h] # "waiting")
  <2>1. CASE ~Known(g, h)
    BY <1>4, <2>1
  <2>2. CASE Known(g, h) /\ f.t = "httpres"
    BY <1>4, <2>2
  <2>3. CASE Known(g, h) /\ f.t = "resend"
    <3>1. reg' = reg \ {h} /\ told' = [told EXCEPT ![h] = "over"]
      BY <1>4, <2>3
    <3> QED
      BY <2>3, <3>1
  <2>4. CASE Known(g, h) /\ f.t = "reserr"
    <3>1. reg' = reg \ {h}
          /\ told' = [told EXCEPT ![h] = IF told[h] = "waiting" THEN "502" ELSE "cut"]
      BY <1>4, <2>4
    <3> QED
      BY <2>4, <3>1
  <2> QED
    BY <1>1, <2>1, <2>2, <2>3, <2>4
<1> QED
  BY <1>1, <1>3, <1>5, <1>6

LEMMA StreamTypesKept ==
  ASSUME Types, Next
  PROVE  StreamTypes'
<1>0. StreamTypes /\ WireTypes /\ FrameTypes /\ agents \subseteq Agent
  BY DEF Types, BoxTypes
<1>1. CASE UNCHANGED streams
  BY <1>0, <1>1 DEF StreamTypes, streams
<1>2. ASSUME NEW g \in Gen, WireActs(g) PROVE StreamTypes'
  <2>1. UNCHANGED streams \/ Destroy(g) \/ (current # 0 /\ Destroy(current))
    BY <1>2 DEF WireActs, Accept, BoxOpens, BoxCloses, GateCloses
  <2> QED
    BY <1>0, <1>1, <2>1, Destroyed, Dials
<1>3. ASSUME NEW g \in Gen, Hears(g) PROVE StreamTypes'
  <2>0. PICK kinds : Comes(g, kinds)
    BY <1>3 DEF Hears, HearActivity, HearHttp, HearOpened, HearFailed, HearMessage, HearClosed
  <2>1. Head(up[g]) \in UpFrame
    BY <1>0, <2>0, Heard
  <2>2. CASE HearActivity(g)
    BY <1>1, <2>2 DEF HearActivity
  <2>3. CASE HearHttp(g)
    <3>1. /\ UNCHANGED <<on, opened, pending, got>> /\ reg' \subseteq reg
          /\ told' = told \/ \E h \in Http, v \in {"begun", "over", "502", "cut"} :
                               told' = [told EXCEPT ![h] = v]
      BY <2>3, HttpHeard
    <3> QED
      BY <1>0, <3>1 DEF StreamTypes
  <2>4. CASE HearOpened(g) \/ HearFailed(g)
    <3>1. UNCHANGED <<on, told, pending, got>> /\ reg' \subseteq reg
      BY <2>4 DEF HearOpened, HearFailed
    <3>2. opened' \in [Ws -> {"asked", "yes", "no", "done"}]
      BY <1>0, <2>4 DEF HearOpened, HearFailed, Settled, StreamTypes
    <3> QED
      BY <1>0, <3>1, <3>2 DEF StreamTypes
  <2>5. CASE HearMessage(g)
    <3>1. PICK f \in UpFrame : f = Head(up[g]) /\ f.t = "wsmsg"
      BY <2>1, <2>5 DEF HearMessage, Comes
    <3>2. f.id \in Ws /\ f.n \in 1 .. MaxInputs
      BY <3>1, BoundsAssumed DEF UpFrame, Frame
    <3>3. /\ UNCHANGED <<on, reg, told, opened>>
          /\ \/ pending' = pending
             \/ Len(pending[f.id]) < MaxPending
                /\ pending' = [pending EXCEPT ![f.id] = Append(pending[f.id], f.n)]
          /\ got' = got \/ got' = [got EXCEPT ![f.id] = Append(got[f.id], f.n)]
      BY <1>0, <2>5, <3>1, <3>2 DEF HearMessage, StreamTypes
    <3>4. pending[f.id] \in Seq(1 .. MaxInputs) /\ got[f.id] \in Seq(1 .. MaxInputs)
      BY <1>0, <3>2 DEF StreamTypes
    <3>5. /\ Append(pending[f.id], f.n) \in Seq(1 .. MaxInputs)
          /\ Append(got[f.id], f.n) \in Seq(1 .. MaxInputs)
          /\ Len(Append(pending[f.id], f.n)) = Len(pending[f.id]) + 1 /\ Len(pending[f.id]) \in Nat
      BY <3>2, <3>4
    <3>6. pending' \in [Ws -> Seq(1 .. MaxInputs)] /\ got' \in [Ws -> Seq(1 .. MaxInputs)]
      BY <1>0, <3>2, <3>3, <3>5 DEF StreamTypes
    <3>7. \A w \in Ws : Len(pending'[w]) <= MaxPending
      <4>1. CASE pending' = pending
        BY <1>0, <4>1 DEF StreamTypes
      <4>2. CASE Len(pending[f.id]) < MaxPending
                 /\ pending' = [pending EXCEPT ![f.id] = Append(pending[f.id], f.n)]
        <5>1. pending'[f.id] = Append(pending[f.id], f.n)
              /\ \A w \in Ws \ {f.id} : pending'[w] = pending[w]
          BY <1>0, <3>2, <4>2 DEF StreamTypes
        <5>2. Len(pending'[f.id]) <= MaxPending
          BY <3>5, <4>2, <5>1, BoundsAssumed
        <5> QED
          BY <1>0, <5>1, <5>2 DEF StreamTypes
      <4> QED
        BY <3>3, <4>1, <4>2
    <3> QED
      BY <1>0, <3>3, <3>6, <3>7 DEF StreamTypes
  <2>6. CASE HearClosed(g)
    BY <1>0, <2>6 DEF HearClosed, StreamTypes
  <2> QED
    BY <1>3, <2>2, <2>3, <2>4, <2>5, <2>6 DEF Hears
<1>4. ASSUME NEW s \in Stream, Registers(s) PROVE StreamTypes'
  BY <1>0, <1>4 DEF Registers, Register, StreamTypes, WireTypes
<1>5. ASSUME NEW s \in Stream, EndsForBrowser(s) PROVE StreamTypes'
  BY <1>0, <1>5 DEF EndsForBrowser, BrowserLeaves, BrowserCloses, StreamTypes
<1>6. ASSUME NEW s \in Stream, WaitsNoLonger(s) PROVE StreamTypes'
  <2>1. CASE s \in Http /\ Timeout(s)
    BY <1>0, <2>1 DEF Timeout, StreamTypes
  <2>2. CASE s \in Ws /\ (OpenTimeout(s) \/ BrowserGivesUp(s))
    BY <1>0, <2>2 DEF OpenTimeout, BrowserGivesUp, StreamTypes
  <2>3. CASE s \in Ws /\ Upgrade(s)
    <3>1. /\ on' = on /\ reg' \subseteq reg /\ opened' = [opened EXCEPT ![s] = "done"]
          /\ got' = got \/ got' = [got EXCEPT ![s] = pending[s]]
          /\ pending' = pending \/ pending' = [pending EXCEPT ![s] = <<>>]
      BY <2>3 DEF Upgrade
    <3>2. told' \in [Stream -> {"idle", "waiting", "begun", "closing", "over", "cut",
                              "502", "504", "left"}]
      BY <1>0, <2>3 DEF Upgrade, StreamTypes
    <3>3. <<>> \in Seq(1 .. MaxInputs) /\ Len(<<>>) <= MaxPending
      BY Nothing, BoundsAssumed
    <3>4. pending' \in [Ws -> Seq(1 .. MaxInputs)] /\ \A w \in Ws : Len(pending'[w]) <= MaxPending
      BY <1>0, <3>1, <3>3 DEF StreamTypes
    <3>5. got' \in [Ws -> Seq(1 .. MaxInputs)]
      BY <1>0, <2>3, <3>1 DEF StreamTypes
    <3> QED
      BY <1>0, <2>3, <3>1, <3>2, <3>4, <3>5 DEF StreamTypes
  <2> QED
    BY <1>6, <2>1, <2>2, <2>3 DEF WaitsNoLonger
<1> QED
  BY <1>0, <1>1, <1>2, <1>3, <1>4, <1>5, <1>6, Steps, LocalSteps
     DEF Dial, Start, Stop, AgentsBecome

(***************************************************************************)
(* Which queues change, and how.                                           *)
(***************************************************************************)
LEMMA UpSteps ==
  ASSUME Types, Next
  PROVE  \/ UNCHANGED up
         \/ \E g \in Gen : Hears(g) \/ BoxOpens(g) \/ GateCloses(g)
         \/ \E s \in Stream : LocalActs(s)
         \/ \E next \in SUBSET Agent : AgentsBecome(next)
<1>1. agents \subseteq Agent
  BY DEF Types, BoxTypes
<1> QED
  BY <1>1, Steps
     DEF Dial, Start, Stop, WireActs, Accept, BoxCloses, Registers, Register, EndsForBrowser,
         BrowserLeaves, BrowserCloses, WaitsNoLonger, Timeout, OpenTimeout, Upgrade,
         BrowserGivesUp, frames

LEMMA DownSteps ==
  ASSUME Types, Next
  PROVE  \/ UNCHANGED down
         \/ Start \/ Stop
         \/ \E g \in Gen : BoxCloses(g)
         \/ \E s \in Stream : Registers(s) \/ EndsForBrowser(s)
<1>1. agents \subseteq Agent
  BY DEF Types, BoxTypes
<1> QED
  BY <1>1, Steps, LocalSteps
     DEF Dial, WireActs, Accept, BoxOpens, GateCloses, Hears, HearActivity, HearHttp, HearOpened,
         HearFailed, HearMessage, HearClosed, WaitsNoLonger, Timeout, OpenTimeout, Upgrade,
         BrowserGivesUp, AgentsBecome, frames

LEMMA Comings ==
  ASSUME NEW g, Hears(g)
  PROVE  \E kinds : Comes(g, kinds)
BY DEF Hears, HearActivity, HearHttp, HearOpened, HearFailed, HearMessage, HearClosed

LEMMA ActivityFrame ==
  Activity \in UpFrame /\ Word(Activity) /\ (Activity.t = "busy" <=> agents # {})
BY FrameKinds DEF Activity, Word

LEMMA Opens ==
  ASSUME Types, NEW g \in Gen, BoxOpens(g)
  PROVE  /\ up' \in [Gen -> Seq(UpFrame)] /\ \A k \in Gen \ {g} : up'[k] = up[k]
         /\ \/ gate[g] # "open" /\ up' = up
            \/ gate[g] = "open" /\ up'[g] = With(up[g], Activity)
               /\ UnderWay(up'[g]) = UnderWay(up[g]) \cup {Activity}
<1>1. CASE gate[g] = "open"
  <2>1. up[g] \in Seq(UpFrame) /\ up' = [up EXCEPT ![g] = With(up[g], Activity)]
    BY <1>1 DEF BoxOpens, Types, FrameTypes, With
  <2>2. PICK f \in UpFrame : f = Activity
    BY ActivityFrame
  <2>3. PICK w : w = With(up[g], f)
    OBVIOUS
  <2>4. w \in Seq(UpFrame) /\ UnderWay(w) = UnderWay(up[g]) \cup {f}
    BY <2>1, <2>3, Appended
  <2>5. up'[g] = w /\ (\A k \in Gen \ {g} : up'[k] = up[k]) /\ up' \in [Gen -> Seq(UpFrame)]
    BY <2>1, <2>2, <2>3, <2>4 DEF Types, FrameTypes
  <2> QED
    BY <1>1, <2>2, <2>3, <2>4, <2>5
<1>2. CASE gate[g] # "open"
  BY <1>2 DEF BoxOpens, Types, FrameTypes
<1> QED
  BY <1>1, <1>2

LEMMA AgentsSay ==
  ASSUME Types, NEW next, AgentsBecome(next)
  PROVE  \/ up' = up /\ (agents' # {} <=> agents # {})
         \/ \E f \in UpFrame : /\ Word(f) /\ (f.t = "busy" <=> agents' # {})
                              /\ <<f>> \in Seq(UpFrame) /\ up' = Upward(<<f>>)
<1>1. CASE (next = {}) = (agents = {})
  BY <1>1 DEF AgentsBecome
<1>2. CASE (next = {}) # (agents = {})
  <2>1. PICK f : f = F(IF next = {} THEN "idle" ELSE "busy", None)
    OBVIOUS
  <2>2. f \in UpFrame /\ Word(f) /\ (f.t = "busy" <=> next # {})
    BY <2>1, FrameKinds DEF Word
  <2>3. <<f>> \in Seq(UpFrame)
    BY <2>2
  <2>4. up' = Upward(<<f>>) /\ agents' = next
    BY <1>2, <2>1 DEF AgentsBecome
  <2> QED
    BY <2>2, <2>3, <2>4
<1> QED
  BY <1>1, <1>2

LEMMA FrameTypesKept ==
  ASSUME Types, Next
  PROVE  FrameTypes'
<1>0. WireTypes /\ FrameTypes /\ StreamTypes
  BY DEF Types
<1>1. up' \in [Gen -> Seq(UpFrame)]
  <2>1. CASE UNCHANGED up
    BY <1>0, <2>1 DEF FrameTypes
  <2>2. ASSUME NEW g \in Gen, Hears(g) PROVE up' \in [Gen -> Seq(UpFrame)]
    BY <1>0, <2>2, Comings, Heard
  <2>3. ASSUME NEW g \in Gen, BoxOpens(g) PROVE up' \in [Gen -> Seq(UpFrame)]
    BY <2>3, Opens
  <2>4. ASSUME NEW g \in Gen, GateCloses(g) PROVE up' \in [Gen -> Seq(UpFrame)]
    BY <1>0, <2>4, Cleared DEF GateCloses, FrameTypes
  <2>5. ASSUME NEW s \in Stream, LocalActs(s) PROVE up' \in [Gen -> Seq(UpFrame)]
    BY <1>0, <2>5, LocalSteps, SentUp
  <2>6. ASSUME NEW next, AgentsBecome(next) PROVE up' \in [Gen -> Seq(UpFrame)]
    <3>1. up' = up \/ \E fs \in Seq(UpFrame) : up' = Upward(fs)
      BY <2>6, AgentsSay
    <3> QED
      BY <1>0, <3>1, SentUp DEF FrameTypes
  <2> QED
    BY <2>1, <2>2, <2>3, <2>4, <2>5, <2>6, UpSteps
<1>2. down' \in [Gen -> Seq(DownFrame)]
  <2>1. CASE UNCHANGED down
    BY <1>0, <2>1 DEF FrameTypes
  <2>2. CASE Start \/ Stop
    BY <1>0, <2>2, Taken DEF Start, Stop
  <2>3. ASSUME NEW g \in Gen, BoxCloses(g) PROVE down' \in [Gen -> Seq(DownFrame)]
    BY <1>0, <2>3, Cleared DEF BoxCloses, FrameTypes
  <2>4. ASSUME NEW s \in Stream, Registers(s) PROVE down' \in [Gen -> Seq(DownFrame)]
    <3>1. PICK f \in DownFrame : current \in Gen /\ down' = Downward(current, f)
      BY <1>0, <2>4, Dials DEF Registers, Register
    <3> QED
      BY <1>0, <3>1, SentDown
  <2>5. ASSUME NEW s \in Stream, EndsForBrowser(s) PROVE down' \in [Gen -> Seq(DownFrame)]
    <3>1. PICK f \in DownFrame : down' = Downward(on[s], f)
      BY <2>5, FrameKinds DEF EndsForBrowser, BrowserLeaves, BrowserCloses
    <3>2. CASE on[s] \in Gen
      BY <1>0, <3>1, <3>2, SentDown
    <3>3. CASE on[s] \notin Gen
      <4>1. [down EXCEPT ![on[s]] = Append(@, f)] = down
        BY <1>0, <3>3 DEF FrameTypes
      <4> QED
        BY <1>0, <3>1, <4>1 DEF Downward, FrameTypes
    <3> QED
      BY <3>2, <3>3
  <2> QED
    BY <2>1, <2>2, <2>3, <2>4, <2>5, DownSteps
<1> QED
  BY <1>1, <1>2, BoxTypesKept DEF FrameTypes

LEMMA TypesKept ==
  ASSUME Types, Next
  PROVE  Types'
BY WireTypesKept, StreamTypesKept, BoxTypesKept, FrameTypesKept DEF Types

-----------------------------------------------------------------------------
(***************************************************************************)
(* Generations.  What dials, opens or closes is the newest one, except     *)
(* that the gateway may see an old one close.                              *)
(***************************************************************************)
LEMMA Dialled ==
  ASSUME Types, WireInv, Dial
  PROVE  /\ gen' = gen + 1 /\ gen \in Nat /\ gen' \in Gen /\ gen' # gen /\ gen' # 0
         /\ (gen # 0 => box[gen] = "closed")
         /\ box[gen'] = "none" /\ gate[gen'] = "none" /\ box'[gen'] = "dialing"
         /\ \A k \in Gen \ {gen'} : box'[k] = box[k]
         /\ UNCHANGED <<gate, current, down, up, busy, on, reg, told, opened, pending, got,
                        local, mapped, sent, agents, inputs>>
<1>1. /\ gen < MaxGen /\ gen' = gen + 1 /\ box' = [box EXCEPT ![gen'] = "dialing"]
      /\ (gen # 0 => box[gen] = "closed")
      /\ UNCHANGED <<gate, current, down, up, busy, on, reg, told, opened, pending, got,
                     local, mapped, sent, agents, inputs>>
  BY DEF Dial, frames, streams, inside, work
<1>2. gen \in Nat /\ gen' \in Gen /\ gen' > gen
  BY <1>1, BoundsAssumed, Dials DEF Types, Gen
<1>3. box[gen'] = "none" /\ gate[gen'] = "none"
  BY <1>2 DEF WireInv
<1>4. box'[gen'] = "dialing" /\ \A k \in Gen \ {gen'} : box'[k] = box[k]
  BY <1>1, <1>2 DEF Types, WireTypes
<1> QED
  BY <1>1, <1>2, <1>3, <1>4

LEMMA NotYetClosed ==
  ASSUME Types, WireInv, NEW g \in Gen, box[g] \in {"dialing", "open"}
  PROVE  g = gen /\ gen # 0
<1>1. gen \in Nat /\ g \in Nat /\ g # 0
  BY Dials DEF Types
<1>2. ~(g < gen) /\ ~(g > gen)
  BY DEF WireInv
<1> QED
  BY <1>1, <1>2

LEMMA Accepted ==
  ASSUME Types, WireInv, NEW g \in Gen, Accept(g)
  PROVE  /\ g = gen /\ gen # 0 /\ box[gen] = "dialing" /\ gate[gen] = "none"
         /\ gate'[gen] = "open" /\ \A k \in Gen \ {gen} : gate'[k] = gate[k]
         /\ current' = gen /\ current # gen
         /\ \/ current = 0 /\ UNCHANGED <<on, reg, told, opened, pending, got>>
            \/ current # 0 /\ current \in Gen /\ Destroy(current)
         /\ UNCHANGED <<gen, box, down, up, busy, local, mapped, sent, agents, inputs>>
<1>1. /\ box[g] = "dialing" /\ gate[g] = "none" /\ gate' = [gate EXCEPT ![g] = "open"]
      /\ current' = g
      /\ IF current # 0 THEN Destroy(current) ELSE UNCHANGED <<on, reg, told, opened, pending, got>>
      /\ UNCHANGED <<gen, box, down, up, busy, local, mapped, sent, agents, inputs>>
  BY DEF Accept, frames, streams, inside, work
<1>2. g = gen /\ gen # 0
  BY <1>1, NotYetClosed
<1>3. gate'[gen] = "open" /\ \A k \in Gen \ {gen} : gate'[k] = gate[k]
  BY <1>1, <1>2 DEF Types, WireTypes
<1>4. current # gen /\ (current # 0 => current \in Gen)
  BY <1>1, <1>2, Dials DEF WireInv, Types
<1> QED
  BY <1>1, <1>2, <1>3, <1>4

LEMMA BoxOpened ==
  ASSUME Types, WireInv, NEW g \in Gen, BoxOpens(g)
  PROVE  /\ g = gen /\ gen # 0 /\ box[gen] = "dialing" /\ gate[gen] # "none"
         /\ box'[gen] = "open" /\ \A k \in Gen \ {gen} : box'[k] = box[k]
         /\ UNCHANGED <<gen, gate, current, down, busy, on, reg, told, opened, pending, got,
                        local, mapped, sent, agents, inputs>>
<1>1. /\ box[g] = "dialing" /\ gate[g] # "none" /\ box' = [box EXCEPT ![g] = "open"]
      /\ UNCHANGED <<gen, gate, current, down, busy, on, reg, told, opened, pending, got,
                     local, mapped, sent, agents, inputs>>
  BY DEF BoxOpens, streams, inside, work
<1>2. g = gen /\ gen # 0
  BY <1>1, NotYetClosed
<1> QED
  BY <1>1, <1>2 DEF Types, WireTypes

LEMMA BoxClosed ==
  ASSUME Types, WireInv, NEW g \in Gen, BoxCloses(g)
  PROVE  /\ g = gen /\ gen # 0 /\ box[gen] \in {"dialing", "open"}
         /\ box'[gen] = "closed" /\ \A k \in Gen \ {gen} : box'[k] = box[k]
         /\ down'[gen] = <<>> /\ \A k \in Gen \ {gen} : down'[k] = down[k]
         /\ mapped' = {}
         /\ \A s \in Stream : local'[s] = IF s \in mapped /\ local[s] # "broken"
                                          THEN "ending" ELSE local[s]
         /\ UNCHANGED <<gen, gate, current, up, busy, on, reg, told, opened, pending, got,
                        sent, agents, inputs>>
<1>1. /\ box[g] \in {"dialing", "open"} /\ box' = [box EXCEPT ![g] = "closed"]
      /\ down' = [down EXCEPT ![g] = <<>>] /\ mapped' = {}
      /\ local' = [s \in Stream |-> IF s \in mapped /\ local[s] # "broken"
                                   THEN "ending" ELSE local[s]]
      /\ UNCHANGED <<gen, gate, current, up, busy, on, reg, told, opened, pending, got,
                     sent, agents, inputs>>
  BY DEF BoxCloses, Abandon, streams, work
<1>2. g = gen /\ gen # 0
  BY <1>1, NotYetClosed
<1>3. down'[gen] = <<>> /\ \A k \in Gen \ {gen} : down'[k] = down[k]
  BY <1>1, <1>2 DEF Types, FrameTypes
<1>4. box'[gen] = "closed" /\ \A k \in Gen \ {gen} : box'[k] = box[k]
  BY <1>1, <1>2 DEF Types, WireTypes
<1> QED
  BY <1>1, <1>2, <1>3, <1>4

LEMMA GateClosed ==
  ASSUME Types, NEW g \in Gen, GateCloses(g)
  PROVE  /\ gate[g] = "open" /\ gate'[g] = "closed" /\ \A k \in Gen \ {g} : gate'[k] = gate[k]
         /\ up'[g] = <<>> /\ \A k \in Gen \ {g} : up'[k] = up[k]
         /\ Destroy(g) /\ ((current = g /\ current' = 0) \/ (current # g /\ current' = current))
         /\ UNCHANGED <<gen, box, down, busy, local, mapped, sent, agents, inputs>>
<1>1. /\ gate[g] = "open" /\ gate' = [gate EXCEPT ![g] = "closed"]
      /\ up' = [up EXCEPT ![g] = <<>>] /\ Destroy(g)
      /\ current' = (IF current = g THEN 0 ELSE current)
      /\ UNCHANGED <<gen, box, down, busy, local, mapped, sent, agents, inputs>>
  BY DEF GateCloses, inside, work
<1>4. (current = g /\ current' = 0) \/ (current # g /\ current' = current)
  BY <1>1
<1>2. up'[g] = <<>> /\ \A k \in Gen \ {g} : up'[k] = up[k]
  BY <1>1 DEF Types, FrameTypes
<1>3. gate'[g] = "closed" /\ \A k \in Gen \ {g} : gate'[k] = gate[k]
  BY <1>1 DEF Types, WireTypes
<1> QED
  BY <1>1, <1>2, <1>3, <1>4

LEMMA WireChanges ==
  ASSUME Types, Next
  PROVE  \/ UNCHANGED <<gen, box, gate, current>>
         \/ Dial \/ \E g \in Gen : WireActs(g)
<1>1. agents \subseteq Agent
  BY DEF Types, BoxTypes
<1> QED
  BY <1>1, Steps, LocalSteps
     DEF Start, Stop, Hears, HearActivity, HearHttp, HearOpened, HearFailed, HearMessage, HearClosed,
         Registers, Register, EndsForBrowser, BrowserLeaves, BrowserCloses, WaitsNoLonger, Timeout,
         OpenTimeout, Upgrade, BrowserGivesUp, AgentsBecome, wire

LEMMA WireKept ==
  ASSUME Types, WireInv, Next
  PROVE  WireInv'
<1> USE DEF WireInv, NewestServes
<1>0. gen \in Nat /\ current \in Nat /\ \A g \in Gen : g \in Nat \ {0}
  BY Dials DEF Types
<1>1. CASE UNCHANGED <<gen, box, gate, current>>
  BY <1>1
<1>2. CASE Dial
  <2>1. /\ gen' = gen + 1 /\ gen' \in Gen /\ gen' # 0
        /\ (gen # 0 => box[gen] = "closed")
        /\ gate[gen'] = "none" /\ box'[gen'] = "dialing"
        /\ \A k \in Gen \ {gen'} : box'[k] = box[k]
        /\ UNCHANGED <<gate, current>>
    BY <1>2, Dialled
  <2>2. ASSUME NEW g \in Gen, g < gen' PROVE box'[g] = "closed"
    <3>1. g < gen \/ g = gen
      BY <1>0, <2>1, <2>2
    <3> QED
      BY <1>0, <2>1, <3>1
  <2>3. ASSUME NEW g \in Gen, g > gen' PROVE box'[g] = "none" /\ gate'[g] = "none"
    BY <1>0, <2>1, <2>3
  <2>4. \A g \in Gen : box'[g] = "open" => gate'[g] # "none"
    BY <2>1
  <2> QED
    BY <2>1, <2>2, <2>3, <2>4
<1>3. ASSUME NEW g \in Gen, Accept(g) PROVE WireInv'
  BY <1>0, <1>3, Accepted
<1>4. ASSUME NEW g \in Gen, BoxOpens(g) PROVE WireInv'
  BY <1>0, <1>4, BoxOpened
<1>5. ASSUME NEW g \in Gen, BoxCloses(g) PROVE WireInv'
  BY <1>0, <1>5, BoxClosed
<1>6. ASSUME NEW g \in Gen, GateCloses(g) PROVE WireInv'
  BY <1>0, <1>6, GateClosed, Dials DEF Types
<1> QED
  BY <1>1, <1>2, <1>3, <1>4, <1>5, <1>6, WireChanges DEF WireActs

LEMMA QueueKept ==
  ASSUME Types, WireInv, QueueInv, Next
  PROVE  QueueInv'
<1>0. WireTypes /\ FrameTypes /\ WireInv'
  BY WireKept DEF Types
<1>1. ASSUME NEW g \in Gen PROVE gate'[g] # "open" \/ box'[g] \in {"none", "dialing"} => up'[g] = <<>>
  <2>0. gate[g] # "open" \/ box[g] \in {"none", "dialing"} => up[g] = <<>>
    BY DEF QueueInv
  <2>1. CASE UNCHANGED <<gen, box, gate, current>> /\ up'[g] = up[g]
    BY <2>0, <2>1
  <2>2. CASE Dial
    BY <2>0, <2>2, Dialled
  <2>3. ASSUME NEW k \in Gen, Accept(k) PROVE gate'[g] # "open" \/ box'[g] \in {"none", "dialing"} => up'[g] = <<>>
    BY <2>0, <2>3, Accepted
  <2>4. ASSUME NEW k \in Gen, BoxOpens(k) PROVE gate'[g] # "open" \/ box'[g] \in {"none", "dialing"} => up'[g] = <<>>
    BY <2>0, <2>4, BoxOpened, Opens
  <2>5. ASSUME NEW k \in Gen, BoxCloses(k) PROVE gate'[g] # "open" \/ box'[g] \in {"none", "dialing"} => up'[g] = <<>>
    BY <2>0, <2>5, BoxClosed
  <2>6. ASSUME NEW k \in Gen, GateCloses(k) PROVE gate'[g] # "open" \/ box'[g] \in {"none", "dialing"} => up'[g] = <<>>
    BY <2>0, <2>6, GateClosed
  <2>7. CASE UNCHANGED <<gen, box, gate, current>>
    <3>1. ASSUME NEW k \in Gen, Hears(k) PROVE up'[g] = up[g] \/ up[g] # <<>>
      BY <1>0, <3>1, Comings, Heard
    <3>2. ASSUME NEW fs \in Seq(UpFrame), up' = Upward(fs)
          PROVE  up'[g] = up[g] \/ (gate[g] = "open" /\ box[g] = "open")
      BY <1>0, <3>2, SentUp DEF BothOpen
    <3>3. ASSUME NEW s \in Stream, LocalActs(s)
          PROVE  up'[g] = up[g] \/ (gate[g] = "open" /\ box[g] = "open")
      BY <3>2, <3>3, LocalSteps
    <3>4. ASSUME NEW next, AgentsBecome(next)
          PROVE  up'[g] = up[g] \/ (gate[g] = "open" /\ box[g] = "open")
      BY <3>2, <3>4, AgentsSay
    <3>5. \A k \in Gen : ~BoxOpens(k) /\ ~GateCloses(k)
      BY <2>7, BoxOpened, GateClosed
    <3> QED
      BY <2>0, <2>7, <3>1, <3>3, <3>4, <3>5, UpSteps
  <2> QED
    BY <2>2, <2>3, <2>4, <2>5, <2>6, <2>7, WireChanges DEF WireActs
<1>2. ASSUME NEW g \in Gen PROVE gate'[g] = "none" \/ box'[g] \in {"none", "closed"} => down'[g] = <<>>
  <2>0. gate[g] = "none" \/ box[g] \in {"none", "closed"} => down[g] = <<>>
    BY DEF QueueInv
  <2>1. CASE down'[g] = down[g]
    <3>1. CASE UNCHANGED <<gen, box, gate, current>>
      BY <2>0, <2>1, <3>1
    <3>2. CASE Dial
      BY <2>0, <2>1, <3>2, Dialled
    <3>3. ASSUME NEW k \in Gen, WireActs(k), ~BoxCloses(k)
          PROVE  gate'[g] = "none" \/ box'[g] \in {"none", "closed"} => down'[g] = <<>>
      BY <2>0, <2>1, <3>3, Accepted, BoxOpened, GateClosed DEF WireActs
    <3>4. ASSUME NEW k \in Gen, BoxCloses(k)
          PROVE  gate'[g] = "none" \/ box'[g] \in {"none", "closed"} => down'[g] = <<>>
      BY <2>0, <2>1, <3>4, BoxClosed
    <3> QED
      BY <3>1, <3>2, <3>3, <3>4, WireChanges
  <2>2. CASE Start \/ Stop
    <3>1. UNCHANGED <<box, gate>>
      BY <2>2 DEF Start, Stop, wire
    <3>2. down'[g] = down[g] \/ down[g] # <<>>
      BY <1>0, <2>2, Taken DEF Start, Stop
    <3> QED
      BY <2>0, <3>1, <3>2
  <2>3. ASSUME NEW k \in Gen, BoxCloses(k)
        PROVE  gate'[g] = "none" \/ box'[g] \in {"none", "closed"} => down'[g] = <<>>
    BY <2>0, <2>3, BoxClosed
  <2>4. ASSUME NEW k, NEW f \in DownFrame, down' = Downward(k, f), UNCHANGED <<box, gate>>
        PROVE  gate'[g] = "none" \/ box'[g] \in {"none", "closed"} => down'[g] = <<>>
    <3>1. CASE k \in Gen
      <4>1. down'[g] = down[g] \/ (gate[g] = "open" /\ box[g] # "closed")
        BY <1>0, <2>4, <3>1, SentDown
      <4>2. gate[g] = "open" => box[g] # "none"
        BY <1>0, Dials DEF WireInv
      <4> QED
        BY <2>0, <2>4, <4>1, <4>2
    <3>2. CASE k \notin Gen
      <4>1. down'[g] = down[g]
        BY <1>0, <2>4, <3>2 DEF Downward, FrameTypes
      <4> QED
        BY <2>0, <2>4, <4>1
    <3> QED
      BY <3>1, <3>2
  <2>5. ASSUME NEW s \in Stream, Registers(s) \/ EndsForBrowser(s)
        PROVE  gate'[g] = "none" \/ box'[g] \in {"none", "closed"} => down'[g] = <<>>
    <3>1. UNCHANGED <<box, gate>> /\ \E k : \E f \in DownFrame : down' = Downward(k, f)
      <4>1. CASE Registers(s)
        <5>1. PICK t \in Starts : F(t, s) \in DownFrame /\ Register(s, t)
          BY <4>1 DEF Registers
        <5>2. UNCHANGED <<box, gate>> /\ down' = Downward(current, F(t, s))
          BY <5>1 DEF Register, wire
        <5> QED
          BY <5>1, <5>2
      <4>2. CASE EndsForBrowser(s)
        <5>1. PICK t \in {"abort", "wsclose"} :
                F(t, s) \in DownFrame /\ down' = Downward(on[s], F(t, s)) /\ UNCHANGED <<box, gate>>
          BY <4>2, FrameKinds DEF EndsForBrowser, BrowserLeaves, BrowserCloses, wire
        <5> QED
          BY <5>1
      <4> QED
        BY <2>5, <4>1, <4>2
    <3> QED
      BY <2>4, <3>1
  <2> QED
    BY <2>1, <2>2, <2>3, <2>5, DownSteps
<1> QED
  BY <1>1, <1>2 DEF QueueInv

-----------------------------------------------------------------------------
(***************************************************************************)
(* Inside the sandbox: what is started, stopped, and goes on by itself.    *)
(***************************************************************************)
LEMMA Started ==
  ASSUME Types, Start
  PROVE  /\ \E f \in DownFrame, s \in Stream :
              /\ f = Head(down[gen]) /\ f.id = s /\ f.t \in Starts
              /\ local'[s] = "started" /\ \A r \in Stream \ {s} : local'[r] = local[r]
              /\ mapped' = mapped \cup {s}
         /\ UNCHANGED <<gen, box, gate, current, up, busy, on, reg, told, opened, pending, got,
                        sent, agents, inputs>>
<1>0. WireTypes /\ FrameTypes /\ local \in [Stream -> {"none", "started", "open", "broken", "ending", "ended", "failed"}]
  BY DEF Types, BoxTypes
<1>1. Take({"http", "wsopen"})
  BY DEF Start
<1>2. PICK f \in DownFrame : f = Head(down[gen]) /\ f.t \in {"http", "wsopen"}
  BY <1>0, <1>1, Taken
<1>3. PICK s \in Stream : f.id = s
  BY <1>2, Kinds DEF DownFrame
<1>4. /\ local' = [local EXCEPT ![s] = "started"] /\ mapped' = mapped \cup {s}
      /\ UNCHANGED <<gen, box, gate, current, up, busy, on, reg, told, opened, pending, got,
                     sent, agents, inputs>>
  BY <1>2, <1>3 DEF Start, wire, streams, work
<1> QED
  BY <1>0, <1>2, <1>3, <1>4 DEF Starts

LEMMA Stopped ==
  ASSUME Types, Stop
  PROVE  /\ \E f \in DownFrame, s \in Stream :
              /\ f = Head(down[gen]) /\ f.id = s /\ f.t \in Ends
              /\ local'[s] = IF s \in mapped /\ local[s] # "broken" THEN "ending" ELSE local[s]
              /\ \A r \in Stream \ {s} : local'[r] = local[r]
              /\ mapped' = mapped \ {s}
         /\ UNCHANGED <<gen, box, gate, current, up, busy, on, reg, told, opened, pending, got,
                        sent, agents, inputs>>
<1>0. WireTypes /\ FrameTypes /\ local \in [Stream -> {"none", "started", "open", "broken", "ending", "ended", "failed"}]
  BY DEF Types, BoxTypes
<1>1. Take({"abort", "wsclose"})
  BY DEF Stop
<1>2. PICK f \in DownFrame : f = Head(down[gen]) /\ f.t \in {"abort", "wsclose"}
  BY <1>0, <1>1, Taken
<1>3. PICK s \in Stream : f.id = s
  BY <1>2, Kinds DEF DownFrame
<1>4. /\ local' = (IF s \in mapped /\ local[s] # "broken" THEN [local EXCEPT ![s] = "ending"] ELSE local)
      /\ mapped' = mapped \ {s}
      /\ UNCHANGED <<gen, box, gate, current, up, busy, on, reg, told, opened, pending, got,
                     sent, agents, inputs>>
  BY <1>2, <1>3 DEF Stop, wire, streams, work
<1>5. /\ local'[s] = IF s \in mapped /\ local[s] # "broken" THEN "ending" ELSE local[s]
      /\ \A r \in Stream \ {s} : local'[r] = local[r]
  BY <1>0, <1>4
<1> QED
  BY <1>2, <1>3, <1>4, <1>5 DEF Ends

LEMMA InsideSteps ==
  ASSUME Types, Next
  PROVE  \/ UNCHANGED <<local, mapped, sent>>
         \/ Start \/ Stop
         \/ \E g \in Gen : BoxCloses(g)
         \/ \E s \in Stream : LocalActs(s)
<1>1. agents \subseteq Agent
  BY DEF Types, BoxTypes
<1> QED
  BY <1>1, Steps
     DEF Dial, WireActs, Accept, BoxOpens, GateCloses, Hears, HearActivity, HearHttp, HearOpened,
         HearFailed, HearMessage, HearClosed, Registers, Register, EndsForBrowser, BrowserLeaves,
         BrowserCloses, WaitsNoLonger, Timeout, OpenTimeout, Upgrade, BrowserGivesUp, AgentsBecome,
         inside

(***************************************************************************)
(* What was started is never started again, and an end is for good.        *)
(***************************************************************************)
GoesOn(s) ==
  \/ local'[s] = local[s]
  \/ local[s] = "none" /\ local'[s] = "started" /\ s \in mapped'
  \/ /\ local[s] \in {"started", "open", "broken", "ending"}
     /\ local'[s] \in {"open", "broken", "ending", "ended", "failed"}

LEMMA LocalGoesOn ==
  ASSUME Types, WireInv, BoxInv, DownInv, Next
  PROVE  \A s \in Stream : GoesOn(s)
<1> USE DEF GoesOn
<1>1. CASE UNCHANGED <<local, mapped, sent>>
  BY <1>1
<1>2. CASE Start
  <2>1. PICK f \in DownFrame, s \in Stream :
              /\ f = Head(down[gen]) /\ f.id = s /\ f.t \in Starts
              /\ local'[s] = "started" /\ \A r \in Stream \ {s} : local'[r] = local[r]
              /\ mapped' = mapped \cup {s}
    BY <1>2, Started
  <2>2. local[s] = "none"
    BY <1>2, <2>1, Taken DEF Start, DownInv, Types
  <2> QED
    BY <2>1, <2>2
<1>3. CASE Stop
  BY <1>3, Stopped DEF BoxInv
<1>4. ASSUME NEW g \in Gen, BoxCloses(g) PROVE \A s \in Stream : GoesOn(s)
  BY <1>4, BoxClosed DEF BoxInv
<1>5. ASSUME NEW s \in Stream, LocalActs(s) PROVE \A r \in Stream : GoesOn(r)
  BY <1>5, LocalSteps
<1> QED
  BY <1>1, <1>2, <1>3, <1>4, <1>5, InsideSteps

-----------------------------------------------------------------------------
(***************************************************************************)
(* Streams at the gateway, action by action.                               *)
(***************************************************************************)
LEMMA Registered ==
  ASSUME Types, WireInv, NEW s \in Stream, Registers(s)
  PROVE  /\ told[s] = "idle" /\ told'[s] = "waiting" /\ current \in Gen /\ current # 0
         /\ current <= gen /\ gate[current] = "open"
         /\ on'[s] = current /\ reg' = reg \cup {s}
         /\ \A r \in Stream \ {s} : told'[r] = told[r] /\ on'[r] = on[r]
         /\ \E t \in Starts : F(t, s) \in DownFrame /\ down' = Downward(current, F(t, s))
         /\ UNCHANGED <<gen, box, gate, current, up, busy, opened, pending, got, local, mapped,
                        sent, agents>>
<1>1. /\ told[s] = "idle" /\ current # 0 /\ on' = [on EXCEPT ![s] = current]
      /\ reg' = reg \cup {s} /\ told' = [told EXCEPT ![s] = "waiting"]
      /\ \E t \in Starts : F(t, s) \in DownFrame /\ down' = Downward(current, F(t, s))
      /\ UNCHANGED <<gen, box, gate, current, up, busy, opened, pending, got, local, mapped,
                     sent, agents>>
  BY DEF Registers, Register, wire, inside
<1>2. current \in Gen /\ gen \in Nat /\ current \in Nat
  BY <1>1, Dials DEF Types
<1>3. gate[current] = "open" /\ ~(current > gen)
  BY <1>1, <1>2 DEF WireInv
<1> QED
  BY <1>1, <1>2, <1>3 DEF Types, StreamTypes

LEMMA EndedForBrowser ==
  ASSUME Types, NEW s \in Stream, EndsForBrowser(s)
  PROVE  /\ reg' = reg \ {s} /\ \A r \in Stream \ {s} : told'[r] = told[r]
         /\ \/ s \in Http /\ s \in reg /\ told'[s] = "left"
            \/ s \in Ws /\ told[s] \in {"begun", "closing"} /\ told'[s] = "over"
         /\ \E t \in Ends : F(t, s) \in DownFrame /\ down' = Downward(on[s], F(t, s))
         /\ UNCHANGED <<gen, box, gate, current, up, busy, on, opened, pending, got, local, mapped,
                        sent, agents, inputs>>
<1>1. CASE s \in Http /\ BrowserLeaves(s)
  <2>1. /\ s \in reg /\ reg' = reg \ {s} /\ told' = [told EXCEPT ![s] = "left"]
        /\ down' = Downward(on[s], F("abort", s)) /\ F("abort", s) \in DownFrame
        /\ UNCHANGED <<gen, box, gate, current, up, busy, on, opened, pending, got, local, mapped,
                       sent, agents, inputs>>
    BY <1>1, FrameKinds DEF BrowserLeaves, wire, inside, work
  <2> QED
    BY <1>1, <2>1 DEF Types, StreamTypes, Ends
<1>2. CASE s \in Ws /\ BrowserCloses(s)
  <2>1. /\ told[s] \in {"begun", "closing"} /\ reg' = reg \ {s} /\ told' = [told EXCEPT ![s] = "over"]
        /\ down' = Downward(on[s], F("wsclose", s)) /\ F("wsclose", s) \in DownFrame
        /\ UNCHANGED <<gen, box, gate, current, up, busy, on, opened, pending, got, local, mapped,
                       sent, agents, inputs>>
    BY <1>2, FrameKinds DEF BrowserCloses, wire, inside, work
  <2> QED
    BY <1>2, <2>1 DEF Types, StreamTypes, Ends
<1> QED
  BY <1>1, <1>2 DEF EndsForBrowser

LEMMA WaitedNoLonger ==
  ASSUME Types, NEW s \in Stream, WaitsNoLonger(s)
  PROVE  /\ UNCHANGED <<gen, box, gate, current, up, down, busy, on, local, mapped, sent, agents, inputs>>
         /\ \A r \in Stream \ {s} : told'[r] = told[r] /\ (r \in reg' <=> r \in reg)
         /\ \A w \in Ws \ {s} : opened'[w] = opened[w] /\ got'[w] = got[w] /\ pending'[w] = pending[w]
         /\ \/ /\ s \in Http /\ s \in reg /\ told[s] = "waiting" /\ told'[s] = "504" /\ reg' = reg \ {s}
               /\ UNCHANGED <<opened, pending, got>>
            \/ /\ s \in Ws /\ on[s] # 0 /\ opened[s] = "asked" /\ opened'[s] = "no"
               /\ UNCHANGED <<reg, told, pending, got>>
            \/ /\ s \in Ws /\ told[s] = "waiting" /\ told'[s] = "left"
               /\ UNCHANGED <<reg, opened, pending, got>>
            \/ /\ s \in Ws /\ opened[s] = "no" /\ opened'[s] = "done" /\ reg' = reg \ {s}
               /\ told'[s] = (IF told[s] = "left" THEN "left" ELSE "502") /\ UNCHANGED <<pending, got>>
            \/ /\ s \in Ws /\ opened[s] = "yes" /\ opened'[s] = "done" /\ reg' = reg
               /\ ~(told[s] = "waiting" /\ s \in reg)
               /\ told'[s] = (IF told[s] = "left" THEN "left" ELSE "over") /\ UNCHANGED <<pending, got>>
            \/ /\ s \in Ws /\ opened[s] = "yes" /\ opened'[s] = "done" /\ reg' = reg
               /\ told[s] = "waiting" /\ s \in reg /\ told'[s] = "begun"
               /\ got'[s] = pending[s] /\ pending'[s] = <<>>
<1> USE DEF Types, StreamTypes
<1>1. CASE s \in Http /\ Timeout(s)
  <2>1. /\ s \in reg /\ told[s] = "waiting" /\ reg' = reg \ {s} /\ told' = [told EXCEPT ![s] = "504"]
        /\ UNCHANGED <<gen, box, gate, current, up, down, busy, on, opened, pending, got, local, mapped,
                       sent, agents, inputs>>
    BY <1>1 DEF Timeout, wire, frames, inside, work
  <2> QED
    BY <1>1, <2>1
<1>2. CASE s \in Ws /\ OpenTimeout(s)
  <2>1. /\ on[s] # 0 /\ opened[s] = "asked" /\ opened' = [opened EXCEPT ![s] = "no"]
        /\ UNCHANGED <<gen, box, gate, current, up, down, busy, on, reg, told, pending, got, local, mapped,
                       sent, agents, inputs>>
    BY <1>2 DEF OpenTimeout, wire, frames, inside, work
  <2> QED
    BY <1>2, <2>1
<1>3. CASE s \in Ws /\ BrowserGivesUp(s)
  <2>1. /\ told[s] = "waiting" /\ told' = [told EXCEPT ![s] = "left"]
        /\ UNCHANGED <<gen, box, gate, current, up, down, busy, on, reg, opened, pending, got, local, mapped,
                       sent, agents, inputs>>
    BY <1>3 DEF BrowserGivesUp, wire, frames, inside, work
  <2> QED
    BY <1>3, <2>1
<1>4. CASE s \in Ws /\ Upgrade(s)
  <2>1. /\ opened[s] \in {"yes", "no"} /\ opened' = [opened EXCEPT ![s] = "done"]
        /\ reg' = (IF opened[s] = "no" THEN reg \ {s} ELSE reg)
        /\ UNCHANGED <<gen, box, gate, current, up, down, busy, on, local, mapped, sent, agents, inputs>>
    BY <1>4 DEF Upgrade, wire, frames, inside, work
  <2>2. PICK attaches : attaches = (opened[s] = "yes" /\ told[s] = "waiting" /\ s \in reg)
    OBVIOUS
  <2>3. /\ told' = [told EXCEPT ![s] = IF told[s] = "left" THEN told[s]
                                      ELSE IF opened[s] = "no" THEN "502"
                                      ELSE IF attaches THEN "begun" ELSE "over"]
        /\ got' = (IF attaches THEN [got EXCEPT ![s] = pending[s]] ELSE got)
        /\ pending' = (IF attaches THEN [pending EXCEPT ![s] = <<>>] ELSE pending)
    BY <1>4, <2>2 DEF Upgrade
  <2>4. /\ told'[s] = (IF told[s] = "left" THEN told[s]
                      ELSE IF opened[s] = "no" THEN "502"
                      ELSE IF attaches THEN "begun" ELSE "over")
        /\ \A r \in Stream \ {s} : told'[r] = told[r]
    BY <2>3
  <2>5. CASE opened[s] = "no"
    BY <1>4, <2>1, <2>2, <2>3, <2>4, <2>5
  <2>6. CASE opened[s] = "yes" /\ attaches
    BY <1>4, <2>1, <2>2, <2>3, <2>4, <2>6
  <2>7. CASE opened[s] = "yes" /\ ~attaches
    BY <1>4, <2>1, <2>2, <2>3, <2>4, <2>7
  <2> QED
    BY <2>1, <2>2, <2>5, <2>6, <2>7
<1> QED
  BY <1>1, <1>2, <1>3, <1>4 DEF WaitsNoLonger

LEMMA SocketHeard ==
  ASSUME Types, NEW g \in Gen, HearOpened(g) \/ HearFailed(g) \/ HearClosed(g)
  PROVE  /\ UNCHANGED <<gen, box, gate, current, down, busy, on, pending, got, local, mapped, sent,
                        agents, inputs>>
         /\ \E f \in UpFrame, w \in Ws :
              /\ f = Head(up[g]) /\ f.id = w /\ f.t \in {"wsopenok", "wsfail", "wsclosed"}
              /\ \A r \in Ws \ {w} : opened'[r] = opened[r]
              /\ \A r \in Stream \ {w} : told'[r] = told[r]
              /\ \/ ~Known(g, w) /\ UNCHANGED <<reg, told, opened>>
                 \/ /\ Known(g, w) /\ f.t = "wsopenok" /\ UNCHANGED <<reg, told>>
                    /\ opened'[w] = (IF opened[w] = "asked" THEN "yes" ELSE opened[w])
                 \/ /\ Known(g, w) /\ f.t = "wsfail" /\ reg' = reg \ {w} /\ UNCHANGED told
                    /\ opened'[w] = (IF opened[w] = "asked" THEN "no" ELSE opened[w])
                 \/ /\ Known(g, w) /\ f.t = "wsclosed" /\ reg' = reg \ {w} /\ UNCHANGED opened
                    /\ told'[w] = (IF told[w] = "begun" THEN "closing" ELSE told[w])
<1> USE DEF Types, StreamTypes
<1>1. PICK f \in UpFrame : f = Head(up[g]) /\ f.t \in {"wsopenok", "wsfail", "wsclosed"}
  BY Heard DEF HearOpened, HearFailed, HearClosed
<1>2. PICK w \in Ws : f.id = w
  BY <1>1, Kinds DEF UpFrame
<1>3. UNCHANGED <<gen, box, gate, current, down, busy, on, pending, got, local, mapped, sent,
                  agents, inputs>>
  BY DEF HearOpened, HearFailed, HearClosed, wire, inside, work
<1>4. CASE HearOpened(g)
  <2>1. UNCHANGED <<reg, told>> /\ f.t = "wsopenok"
        /\ opened' = IF Known(g, w) THEN Settled(w, "yes") ELSE opened
    BY <1>1, <1>2, <1>4 DEF HearOpened, Comes
  <2> QED
    BY <1>1, <1>2, <1>3, <2>1 DEF Settled
<1>5. CASE HearFailed(g)
  <2>1. UNCHANGED told /\ f.t = "wsfail"
        /\ IF Known(g, w) THEN opened' = Settled(w, "no") /\ reg' = reg \ {w}
                          ELSE UNCHANGED <<opened, reg>>
    BY <1>1, <1>2, <1>5 DEF HearFailed, Comes
  <2> QED
    BY <1>1, <1>2, <1>3, <2>1 DEF Settled
<1>6. CASE HearClosed(g)
  <2>1. UNCHANGED opened /\ f.t = "wsclosed"
        /\ reg' = (IF Known(g, w) THEN reg \ {w} ELSE reg)
        /\ told' = IF Known(g, w) /\ told[w] = "begun"
                   THEN [told EXCEPT ![w] = "closing"] ELSE told
    BY <1>1, <1>2, <1>6 DEF HearClosed, Comes
  <2> QED
    BY <1>1, <1>2, <1>3, <2>1, Kinds
<1> QED
  BY <1>4, <1>5, <1>6

LEMMA MessageHeard ==
  ASSUME Types, NEW g \in Gen, HearMessage(g)
  PROVE  /\ UNCHANGED <<gen, box, gate, current, down, busy, on, reg, told, opened, local, mapped,
                        sent, agents, inputs>>
         /\ \E f \in UpFrame, w \in Ws :
              /\ f = Head(up[g]) /\ Message(f, w) /\ f.n \in Nat \ {0} /\ f.n \in 1 .. MaxInputs
              /\ \A r \in Ws \ {w} : pending'[r] = pending[r] /\ got'[r] = got[r]
              /\ \/ Known(g, w) /\ told[w] = "begun" /\ got'[w] = With(got[w], f.n)
                    /\ pending' = pending
                 \/ Known(g, w) /\ told[w] \notin {"begun", "closing"} /\ got' = got
                    /\ Len(pending[w]) < MaxPending /\ pending'[w] = With(pending[w], f.n)
                 \/ UNCHANGED <<pending, got>>
                    /\ (Known(g, w) => told[w] = "closing" \/ Len(pending[w]) >= MaxPending)
<1> USE DEF Types, StreamTypes
<1>1. PICK f \in UpFrame : f = Head(up[g]) /\ f.t = "wsmsg"
  BY Heard DEF HearMessage
<1>2. PICK w \in Ws : f.id = w
  BY <1>1, Kinds DEF UpFrame
<1>3. f.n \in Nat \ {0} /\ f.n \in 1 .. MaxInputs
  BY <1>1, <1>2, BoundsAssumed DEF UpFrame, Frame
<1>4. /\ pending' = (IF Known(g, w) /\ told[w] \notin {"begun", "closing"} /\ Len(pending[w]) < MaxPending
                     THEN [pending EXCEPT ![w] = With(pending[w], f.n)] ELSE pending)
      /\ got' = (IF Known(g, w) /\ told[w] = "begun" THEN [got EXCEPT ![w] = With(got[w], f.n)]
                 ELSE got)
      /\ UNCHANGED <<gen, box, gate, current, down, busy, on, reg, told, opened, local, mapped,
                        sent, agents, inputs>>
  BY <1>1, <1>2 DEF HearMessage, With, wire, inside, work
<1>5. Len(pending[w]) \in Nat
  BY <1>2
<1>6. CASE Known(g, w) /\ told[w] = "begun"
  BY <1>1, <1>2, <1>3, <1>4, <1>6 DEF Message
<1>7. CASE Known(g, w) /\ told[w] \notin {"begun", "closing"} /\ Len(pending[w]) < MaxPending
  BY <1>1, <1>2, <1>3, <1>4, <1>7 DEF Message
<1>8. CASE ~(Known(g, w) /\ told[w] = "begun")
           /\ ~(Known(g, w) /\ told[w] \notin {"begun", "closing"} /\ Len(pending[w]) < MaxPending)
  <2>1. UNCHANGED <<pending, got>>
    BY <1>4, <1>8
  <2>2. Known(g, w) => told[w] = "closing" \/ Len(pending[w]) >= MaxPending
    BY <1>5, <1>8, BoundsAssumed
  <2> QED
    BY <1>1, <1>2, <1>3, <1>4, <2>1, <2>2 DEF Message
<1> QED
  BY <1>6, <1>7, <1>8

LEMMA ActivityHeard ==
  ASSUME Types, NEW g \in Gen, HearActivity(g)
  PROVE  /\ UNCHANGED <<gen, box, gate, current, down, on, reg, told, opened, pending, got, local,
                        mapped, sent, agents, inputs>>
         /\ \E f \in UpFrame : f = Head(up[g]) /\ Word(f) /\ busy'[g] = (f.t = "busy")
         /\ \A k \in Gen \ {g} : busy'[k] = busy[k]
<1>1. PICK f \in UpFrame : f = Head(up[g]) /\ f.t \in {"busy", "idle"}
  BY Heard DEF HearActivity, Types
<1>2. /\ busy' = [busy EXCEPT ![g] = (f.t = "busy")]
      /\ UNCHANGED <<gen, box, gate, current, down, on, reg, told, opened, pending, got, local,
                        mapped, sent, agents, inputs>>
  BY <1>1 DEF HearActivity, wire, streams, inside, work
<1> QED
  BY <1>1, <1>2 DEF Types, BoxTypes, Word

(***************************************************************************)
(* What a frame does to the maps: nothing, or one step of the stream it is *)
(* about.                                                                  *)
(***************************************************************************)
HearsOf(g, f, s) ==
  /\ Known(g, s) /\ f.id = s /\ \A r \in Stream \ {s} : told'[r] = told[r]
  /\ \A r \in Ws \ {s} : opened'[r] = opened[r]
  /\ \/ s \in Http /\ f.t = "httpres" /\ reg' = reg /\ told'[s] = "begun" /\ opened' = opened
     \/ s \in Http /\ f.t \in {"resend", "reserr"} /\ reg' = reg \ {s} /\ opened' = opened
        /\ told'[s] \in {"over", "502", "cut"}
        /\ (told'[s] = "502" => told[s] = "waiting") /\ (told'[s] = "cut" => told[s] # "waiting")
     \/ s \in Ws /\ f.t = "wsopenok" /\ UNCHANGED <<reg, told>>
        /\ opened'[s] = (IF opened[s] = "asked" THEN "yes" ELSE opened[s])
     \/ s \in Ws /\ f.t = "wsfail" /\ reg' = reg \ {s} /\ UNCHANGED told
        /\ opened'[s] = (IF opened[s] = "asked" THEN "no" ELSE opened[s])
     \/ s \in Ws /\ f.t = "wsclosed" /\ reg' = reg \ {s} /\ UNCHANGED opened
        /\ told'[s] = (IF told[s] = "begun" THEN "closing" ELSE told[s])

LEMMA StreamsHear ==
  ASSUME Types, NEW g \in Gen, Hears(g)
  PROVE  /\ UNCHANGED <<gen, box, gate, current, down, on, local, mapped, sent, agents, inputs>>
         /\ \/ UNCHANGED <<reg, told, opened>>
            \/ \E f \in UpFrame, s \in Stream : f = Head(up[g]) /\ HearsOf(g, f, s)
<1>1. CASE HearActivity(g)
  BY <1>1, ActivityHeard
<1>2. CASE HearMessage(g)
  BY <1>2, MessageHeard
<1>3. CASE HearHttp(g)
  <2>1. PICK f \in UpFrame, h \in Http :
              /\ f = Head(up[g]) /\ f.id = h /\ f.t \in {"httpres", "resend", "reserr"}
              /\ \/ ~Known(g, h) /\ UNCHANGED <<reg, told>>
                 \/ Known(g, h) /\ f.t = "httpres" /\ reg' = reg
                    /\ told' = [told EXCEPT ![h] = "begun"]
                 \/ Known(g, h) /\ f.t # "httpres" /\ reg' = reg \ {h}
                    /\ \E v \in {"over", "502", "cut"} : told' = [told EXCEPT ![h] = v]
                         /\ (v = "502" => told[h] = "waiting") /\ (v = "cut" => told[h] # "waiting")
    BY <1>3, HttpHeard
  <2>2. UNCHANGED <<gen, box, gate, current, down, on, opened, local, mapped, sent, agents, inputs>>
    BY <1>3 DEF HearHttp, wire, inside, work
  <2>3. h \in Stream /\ told \in [Stream -> {"idle", "waiting", "begun", "closing", "over", "cut",
                          "502", "504", "left"}]
    BY Kinds DEF Types, StreamTypes
  <2>4. CASE ~Known(g, h) /\ UNCHANGED <<reg, told>>
    BY <2>2, <2>4
  <2>5. CASE Known(g, h) /\ f.t = "httpres" /\ reg' = reg /\ told' = [told EXCEPT ![h] = "begun"]
    <3>1. told'[h] = "begun" /\ \A r \in Stream \ {h} : told'[r] = told[r]
      BY <2>3, <2>5
    <3>2. HearsOf(g, f, h)
      BY <2>1, <2>2, <2>5, <3>1 DEF HearsOf
    <3> QED
      BY <2>1, <2>2, <2>3, <3>2
  <2>6. CASE Known(g, h) /\ f.t # "httpres" /\ reg' = reg \ {h}
             /\ \E v \in {"over", "502", "cut"} : told' = [told EXCEPT ![h] = v]
                  /\ (v = "502" => told[h] = "waiting") /\ (v = "cut" => told[h] # "waiting")
    <3>1. /\ told'[h] \in {"over", "502", "cut"} /\ \A r \in Stream \ {h} : told'[r] = told[r]
          /\ (told'[h] = "502" => told[h] = "waiting") /\ (told'[h] = "cut" => told[h] # "waiting")
      BY <2>3, <2>6
    <3>2. HearsOf(g, f, h)
      BY <2>1, <2>2, <2>6, <3>1 DEF HearsOf
    <3> QED
      BY <2>1, <2>2, <2>3, <3>2
  <2> QED
    BY <2>1, <2>4, <2>5, <2>6
<1>4. CASE HearOpened(g) \/ HearFailed(g) \/ HearClosed(g)
  <2>1. UNCHANGED <<gen, box, gate, current, down, on, local, mapped, sent, agents, inputs>>
    BY <1>4, SocketHeard
  <2>2. PICK f \in UpFrame, w \in Ws :
              /\ f = Head(up[g]) /\ f.id = w /\ f.t \in {"wsopenok", "wsfail", "wsclosed"}
              /\ \A r \in Ws \ {w} : opened'[r] = opened[r]
              /\ \A r \in Stream \ {w} : told'[r] = told[r]
              /\ \/ ~Known(g, w) /\ UNCHANGED <<reg, told, opened>>
                 \/ /\ Known(g, w) /\ f.t = "wsopenok" /\ UNCHANGED <<reg, told>>
                    /\ opened'[w] = (IF opened[w] = "asked" THEN "yes" ELSE opened[w])
                 \/ /\ Known(g, w) /\ f.t = "wsfail" /\ reg' = reg \ {w} /\ UNCHANGED told
                    /\ opened'[w] = (IF opened[w] = "asked" THEN "no" ELSE opened[w])
                 \/ /\ Known(g, w) /\ f.t = "wsclosed" /\ reg' = reg \ {w} /\ UNCHANGED opened
                    /\ told'[w] = (IF told[w] = "begun" THEN "closing" ELSE told[w])
    BY <1>4, SocketHeard
  <2>3. (~Known(g, w) /\ UNCHANGED <<reg, told, opened>>) \/ HearsOf(g, f, w)
    BY <2>2 DEF HearsOf
  <2> QED
    BY <2>1, <2>2, <2>3, Kinds
<1> QED
  BY <1>1, <1>2, <1>3, <1>4 DEF Hears

LEMMA StreamSteps ==
  ASSUME Types, Next
  PROVE  \/ UNCHANGED <<on, reg, told, opened, pending, got, current>>
         \/ \E g \in Gen : Accept(g) \/ GateCloses(g) \/ Hears(g)
         \/ \E s \in Stream : Registers(s) \/ EndsForBrowser(s) \/ WaitsNoLonger(s)
<1>1. agents \subseteq Agent
  BY DEF Types, BoxTypes
<1> QED
  BY <1>1, Steps, LocalSteps
     DEF Dial, Start, Stop, WireActs, BoxOpens, BoxCloses, AgentsBecome, streams, wire

LEMMA StreamKept ==
  ASSUME Types, WireInv, StreamInv, BoxInv, UpInv, DownInv, Next
  PROVE  StreamInv'
<1>0. /\ StreamTypes /\ WireTypes /\ FrameTypes /\ gen \in Nat
      /\ \A s \in Stream : on[s] \in Nat
  BY Dials, BoundsAssumed DEF Types, StreamTypes
<1>1. gen' >= gen /\ gen' \in Nat
  <2>1. CASE Dial
    BY <1>0, <2>1 DEF Dial
  <2> QED
    BY <1>0, <2>1, WireChanges, Accepted, BoxOpened, BoxClosed, GateClosed DEF WireActs
<1>2. \A s \in Stream : local[s] = "failed" => local'[s] = "failed"
  BY LocalGoesOn DEF GoesOn
<1>3. \A s \in reg : s \in Stream /\ on[s] = current /\ current # 0 /\ current \in Gen
  BY <1>0, Dials DEF StreamInv, StreamTypes
<1>12. \A s \in Stream : on[s] <= gen'
  BY <1>0, <1>1 DEF StreamInv
<1>4. CASE UNCHANGED <<on, reg, told, opened, pending, got, current>>
  BY <1>2, <1>4, <1>12, Kinds DEF StreamInv
<1>5. ASSUME NEW g \in Gen, Destroy(g), g = current,
             \A s \in reg' : FALSE
      PROVE  StreamInv'
  <2>1. /\ on' = on
        /\ \A s \in Stream : s \notin reg \/ on[s] # g => told'[s] = told[s]
        /\ \A h \in Http : h \in reg /\ on[h] = g =>
              told'[h] = IF told[h] = "waiting" THEN "502" ELSE "cut"
        /\ \A w \in Ws : w \in reg /\ on[w] = g =>
              told'[w] = IF told[w] = "begun" THEN "closing" ELSE told[w]
        /\ \A w \in Ws : opened'[w] = opened[w]
              \/ (opened[w] = "asked" /\ opened'[w] = "no" /\ w \in reg /\ on[w] = g)
    BY <1>0, <1>5, Destroyed
  <2>2. \A s \in Stream : (s \in reg => on[s] = g) /\ (on'[s] <= gen')
    BY <1>0, <1>1, <1>3, <1>5, <2>1 DEF StreamInv
  <2>3. \A h \in Http : told'[h] # "waiting" /\ (told'[h] = "idle" <=> told[h] = "idle")
    BY <2>1, <2>2, Kinds DEF StreamInv
  <2>4. \A w \in Ws : /\ told'[w] = "idle" <=> told[w] = "idle"
                      /\ opened'[w] # "done" => told'[w] \in {"idle", "waiting", "left"}
                      /\ opened'[w] \in {"yes", "no"} => told'[w] # "idle"
                      /\ opened'[w] = "done" => told'[w] # "waiting" /\ told'[w] # "idle"
                      /\ told'[w] = "begun" => local'[w] = "failed"
    BY <1>2, <2>1, <2>2, Kinds DEF StreamInv
  <2> QED
    BY <1>5, <2>1, <2>2, <2>3, <2>4, Kinds DEF StreamInv
<1>6. ASSUME NEW g \in Gen, Accept(g) PROVE StreamInv'
  <2>1. CASE current # 0 /\ Destroy(current) /\ current \in Gen
    <3>1. \A s \in reg' : FALSE
      BY <1>0, <1>3, <2>1, Destroyed
    <3> QED
      BY <1>5, <2>1, <3>1
  <2>2. CASE current = 0 /\ UNCHANGED <<on, reg, told, opened, pending, got>>
    <3>1. \A s \in reg' : FALSE
      BY <1>3, <2>2
    <3> QED
      BY <1>2, <1>12, <2>2, <3>1, Kinds DEF StreamInv
  <2> QED
    BY <1>6, <2>1, <2>2, Accepted
<1>7. ASSUME NEW g \in Gen, GateCloses(g) PROVE StreamInv'
  <2>1. CASE g = current
    <3>1. Destroy(g) /\ \A s \in reg' : FALSE
      BY <1>0, <1>3, <1>7, <2>1, Destroyed, GateClosed
    <3> QED
      BY <1>5, <2>1, <3>1
  <2>2. CASE g # current
    <3>1. current' = current /\ Destroy(g)
      BY <1>7, <2>2, GateClosed
    <3>2. /\ UNCHANGED on /\ reg' = {s \in reg : on[s] # g}
          /\ \A s \in Stream : s \notin reg \/ on[s] # g => told'[s] = told[s]
          /\ \A w \in Ws : opened'[w] = opened[w]
              \/ (opened[w] = "asked" /\ opened'[w] = "no" /\ w \in reg /\ on[w] = g)
      BY <1>0, <3>1, Destroyed
    <3>3. /\ reg' = reg /\ (\A s \in Stream : told'[s] = told[s])
          /\ (\A w \in Ws : opened'[w] = opened[w])
      BY <1>3, <2>2, <3>2
    <3> QED
      BY <1>0, <1>1, <1>2, <3>1, <3>2, <3>3, Kinds DEF StreamInv
  <2> QED
    BY <2>1, <2>2
<1>8. ASSUME NEW g \in Gen, Hears(g) PROVE StreamInv'
  <2>1. UNCHANGED <<gen, current, on, local>>
    BY <1>8, StreamsHear
  <2>2. CASE UNCHANGED <<reg, told, opened>>
    BY <2>1, <2>2 DEF StreamInv
  <2>3. ASSUME NEW f \in UpFrame, NEW s \in Stream, f = Head(up[g]), HearsOf(g, f, s)
        PROVE  StreamInv'
    <3>1. s \in reg /\ on[s] # 0 /\ told[s] # "idle" /\ Tells(f) /\ f.id = s
      <4>1. Tells(f)
        BY <1>0, <1>8, <2>3, Comings, Heard DEF UpInv
      <4> QED
        BY <1>3, <2>3, <4>1 DEF HearsOf, Known, StreamInv
    <3>2. CASE s \in Http
      BY <2>1, <2>3, <3>1, <3>2, Kinds DEF HearsOf, StreamInv
    <3>3. CASE s \in Ws
      <4>1. f.t = "wsfail" => local[s] = "failed"
        BY <3>1 DEF Tells
      <4> QED
        BY <2>1, <2>3, <3>1, <3>3, <4>1, Kinds DEF HearsOf, StreamInv
    <3> QED
      BY <3>2, <3>3, Kinds
  <2> QED
    BY <1>8, <2>2, <2>3, StreamsHear
<1>9. ASSUME NEW s \in Stream, Registers(s) PROVE StreamInv'
  <2>1. /\ told[s] = "idle" /\ told'[s] = "waiting" /\ current # 0 /\ current <= gen
        /\ on'[s] = current /\ reg' = reg \cup {s} /\ UNCHANGED <<gen, current, opened, local>>
        /\ \A r \in Stream \ {s} : told'[r] = told[r] /\ on'[r] = on[r]
    BY <1>9, Registered
  <2>2. s \in Ws => opened[s] = "asked"
    BY <1>0, <2>1 DEF StreamInv, StreamTypes
  <2>3. /\ \A r \in Stream : on'[r] = 0 <=> told'[r] = "idle"
        /\ \A r \in Stream : on'[r] <= gen'
        /\ \A r \in reg' : on'[r] = current' /\ current' # 0
    BY <1>3, <2>1 DEF StreamInv
  <2> QED
    BY <2>1, <2>2, <2>3, Kinds DEF StreamInv
<1>10. ASSUME NEW s \in Stream, EndsForBrowser(s) PROVE StreamInv'
  BY <1>0, <1>2, <1>10, EndedForBrowser, Kinds DEF StreamInv
<1>11. ASSUME NEW s \in Stream, WaitsNoLonger(s) PROVE StreamInv'
  BY <1>0, <1>2, <1>11, WaitedNoLonger, Kinds DEF StreamInv
<1> QED
  BY <1>4, <1>6, <1>7, <1>8, <1>9, <1>10, <1>11, StreamSteps

\* No step but an answer's first frame makes an answer begin.
LEMMA Begins ==
  ASSUME Types, WireInv, UpInv, Next, NEW h \in Http, told'[h] = "begun"
  PROVE  told[h] = "begun" \/ local[h] # "none"
<1>0. StreamTypes /\ WireTypes /\ FrameTypes /\ h \in Stream /\ h \notin Ws
  BY Kinds DEF Types
<1>1. CASE UNCHANGED <<on, reg, told, opened, pending, got, current>>
  BY <1>1
<1>2. ASSUME NEW g \in Gen, Destroy(g) PROVE told[h] = "begun"
  BY <1>0, <1>2, Destroyed
<1>3. ASSUME NEW g \in Gen, Accept(g) \/ GateCloses(g) PROVE told[h] = "begun"
  BY <1>2, <1>3, Accepted, GateClosed
<1>4. ASSUME NEW g \in Gen, Hears(g) PROVE told[h] = "begun" \/ local[h] # "none"
  <2>1. CASE UNCHANGED told
    BY <2>1
  <2>2. ASSUME NEW f \in UpFrame, NEW s \in Stream, f = Head(up[g]), HearsOf(g, f, s)
        PROVE  told[h] = "begun" \/ local[h] # "none"
    <3>1. Tells(f) /\ f.id = s
      BY <1>0, <1>4, <2>2, Comings, Heard DEF UpInv, HearsOf
    <3>2. CASE s = h
      BY <1>0, <2>2, <3>1, <3>2 DEF HearsOf, Tells
    <3>3. CASE s # h
      BY <1>0, <2>2, <3>3 DEF HearsOf
    <3> QED
      BY <3>2, <3>3
  <2> QED
    BY <1>4, <2>1, <2>2, StreamsHear
<1>5. ASSUME NEW s \in Stream, Registers(s) \/ EndsForBrowser(s) \/ WaitsNoLonger(s)
      PROVE  told[h] = "begun"
  <2>1. CASE Registers(s)
    BY <1>0, <2>1, Registered
  <2>2. CASE EndsForBrowser(s)
    BY <1>0, <2>2, EndedForBrowser
  <2>3. CASE WaitsNoLonger(s)
    BY <1>0, <2>3, WaitedNoLonger
  <2> QED
    BY <1>5, <2>1, <2>2, <2>3
<1> QED
  BY <1>1, <1>3, <1>4, <1>5, StreamSteps

LEMMA OnKept ==
  ASSUME Types, WireInv, Next, NEW s \in Stream
  PROVE  \/ on'[s] = on[s]
         \/ Registers(s) /\ on'[s] = current
<1>1. CASE UNCHANGED <<on, reg, told, opened, pending, got, current>>
  BY <1>1
<1>2. ASSUME NEW g \in Gen, Accept(g) \/ GateCloses(g) PROVE on' = on
  BY <1>2, Accepted, GateClosed, Destroyed DEF Types
<1>3. ASSUME NEW g \in Gen, Hears(g) PROVE on' = on
  BY <1>3, StreamsHear
<1>4. ASSUME NEW r \in Stream, Registers(r) PROVE on'[s] = on[s] \/ (Registers(s) /\ on'[s] = current)
  BY <1>4, Registered
<1>5. ASSUME NEW r \in Stream, EndsForBrowser(r) \/ WaitsNoLonger(r) PROVE on' = on
  BY <1>5, EndedForBrowser, WaitedNoLonger
<1> QED
  BY <1>1, <1>2, <1>3, <1>4, <1>5, StreamSteps

LEMMA BoxKept ==
  ASSUME Types, WireInv, StreamInv, BoxInv, UpInv, DownInv, Next
  PROVE  BoxInv'
<1>0. /\ WireTypes /\ FrameTypes /\ gen \in Nat /\ \A s \in Stream : on[s] \in Nat
      /\ mapped \subseteq Stream
      /\ \A s \in Stream : on[s] <= gen
  BY Dials, BoundsAssumed DEF Types, StreamTypes, BoxTypes, StreamInv
<1>1. ASSUME NEW h \in Http, told'[h] = "begun" PROVE local'[h] # "none"
  <2>1. local[h] # "none" /\ h \in Stream
    BY <1>1, Begins, Kinds DEF BoxInv
  <2> QED
    BY <2>1, LocalGoesOn DEF GoesOn
<1>2. /\ \A s \in mapped' : /\ on'[s] = gen' /\ gen' # 0 /\ box'[gen'] = "open"
                           /\ local'[s] \in {"started", "open", "broken"}
      /\ \A s \in Stream : local'[s] \in {"started", "open"} => s \in mapped'
      /\ \A s \in Stream : local'[s] # "none" => on'[s] # 0 /\ (on'[s] = gen' => box'[gen'] # "dialing")
  <2>1. CASE Dial
    <3>1. mapped = {} /\ UNCHANGED <<mapped, local, on>> /\ gen' = gen + 1
      BY <1>0, <2>1, Dialled DEF BoxInv
    <3>2. \A s \in Stream : on[s] # gen'
      BY <1>0, <3>1
    <3> QED
      BY <3>1, <3>2 DEF BoxInv
  <2>2. ASSUME NEW g \in Gen, BoxOpens(g)
        PROVE  /\ mapped' = {} /\ \A s \in Stream : local'[s] \notin {"started", "open"}
               /\ \A s \in Stream : local'[s] # "none" => on'[s] # 0 /\ (on'[s] = gen' => box'[gen'] # "dialing")
    BY <1>0, <2>2, BoxOpened DEF BoxInv
  <2>3. ASSUME NEW g \in Gen, BoxCloses(g)
        PROVE  /\ mapped' = {} /\ \A s \in Stream : local'[s] \notin {"started", "open"}
               /\ \A s \in Stream : local'[s] # "none" => on'[s] # 0 /\ (on'[s] = gen' => box'[gen'] # "dialing")
    BY <1>0, <2>3, BoxClosed DEF BoxInv
  <2>4. ASSUME NEW s \in Stream, Registers(s)
        PROVE  /\ \A r \in Stream : r # s => on'[r] = on[r]
               /\ s \notin mapped /\ local[s] = "none" /\ UNCHANGED <<gen, box, mapped, local>>
    <3>1. on[s] = 0
      BY <2>4, Registered DEF StreamInv
    <3> QED
      BY <1>0, <2>4, <3>1, Registered DEF BoxInv
  <2>5. CASE UNCHANGED <<gen, box>> /\ UNCHANGED <<mapped, local>>
    <3>1. \A s \in Stream : on'[s] = on[s] \/ (s \notin mapped /\ local[s] = "none")
      BY <2>4, OnKept
    <3> QED
      BY <1>0, <2>5, <3>1 DEF BoxInv
  <2>6. CASE Start
    <3>1. PICK f \in DownFrame, s \in Stream :
              /\ f = Head(down[gen]) /\ f.id = s
              /\ local'[s] = "started" /\ \A r \in Stream \ {s} : local'[r] = local[r]
              /\ mapped' = mapped \cup {s}
      BY <2>6, Started
    <3>2. on[s] = gen /\ gen # 0 /\ box[gen] = "open" /\ UNCHANGED <<gen, box, on>>
      BY <1>0, <2>6, <3>1, Started, Taken DEF Start, DownInv
    <3> QED
      BY <1>0, <3>1, <3>2 DEF BoxInv
  <2>7. CASE Stop
    <3>1. PICK f \in DownFrame, s \in Stream :
              /\ local'[s] = (IF s \in mapped /\ local[s] # "broken" THEN "ending" ELSE local[s])
              /\ \A r \in Stream \ {s} : local'[r] = local[r]
              /\ mapped' = mapped \ {s} /\ UNCHANGED <<gen, box, on>>
      BY <2>7, Stopped
    <3> QED
      BY <1>0, <3>1 DEF BoxInv
  <2>8. ASSUME NEW s \in Stream, LocalActs(s) PROVE <1>2!1 /\ <1>2!2 /\ <1>2!3
    <3>1. /\ UNCHANGED <<gen, box, on>> /\ local[s] \in {"started", "open", "ending"}
          /\ \A r \in Stream \ {s} : local'[r] = local[r]
          /\ \/ local'[s] \in {"ended", "failed"} /\ mapped' = mapped \ {s}
             \/ /\ local'[s] \in {"open", "broken"} /\ mapped' = mapped
                /\ local[s] \in {"started", "open"}
      BY <2>8, LocalSteps DEF wire, streams
    <3> QED
      BY <1>0, <3>1 DEF BoxInv
  <2>9. UNCHANGED <<mapped, local>> => \A g \in Gen : WireActs(g) => UNCHANGED <<gen, box>>
                                                     \/ BoxOpens(g) \/ BoxCloses(g)
    BY Accepted, GateClosed DEF WireActs
  <2> QED
    BY <2>1, <2>2, <2>3, <2>5, <2>6, <2>7, <2>8, <2>9, InsideSteps, WireChanges
<1> QED
  BY <1>1, <1>2 DEF BoxInv

-----------------------------------------------------------------------------
(***************************************************************************)
(* Where a frame under way comes from.                                     *)
(***************************************************************************)
LEMMA UpGains ==
  ASSUME Types, Next, NEW g \in Gen, NEW f \in UnderWay(up'[g])
  PROVE  \/ f \in UnderWay(up[g])
         \/ f \in UpFrame /\ Word(f)
         \/ g = gen /\ BothOpen(gen) /\ \E s \in Stream, fs \in Seq(UpFrame) :
              /\ LocalActs(s) /\ up' = Upward(fs) /\ Says(s, fs) /\ Pushed(s, fs)
              /\ f \in UnderWay(fs)
<1>0. WireTypes /\ FrameTypes
  BY DEF Types
<1>1. CASE UNCHANGED up
  BY <1>1
<1>2. ASSUME NEW k \in Gen, Hears(k) PROVE f \in UnderWay(up[g])
  <2>1. UnderWay(up'[g]) \subseteq UnderWay(up[g])
    BY <1>0, <1>2, Comings, Heard
  <2> QED
    BY <2>1
<1>3. ASSUME NEW k \in Gen, BoxOpens(k) PROVE f \in UnderWay(up[g]) \/ (f \in UpFrame /\ Word(f))
  BY <1>3, Opens, ActivityFrame
<1>4. ASSUME NEW k \in Gen, GateCloses(k) PROVE f \in UnderWay(up[g])
  BY <1>4, GateClosed, Nothing
<1>5. ASSUME NEW fs \in Seq(UpFrame), up' = Upward(fs)
      PROVE  f \in UnderWay(up[g]) \/ (g = gen /\ BothOpen(gen) /\ f \in UnderWay(fs))
  BY <1>0, <1>5, SentUp
<1>6. ASSUME NEW s \in Stream, LocalActs(s)
      PROVE  \/ f \in UnderWay(up[g])
             \/ g = gen /\ BothOpen(gen) /\ \E r \in Stream, fs \in Seq(UpFrame) :
                  /\ LocalActs(r) /\ up' = Upward(fs) /\ Says(r, fs) /\ Pushed(r, fs)
                  /\ f \in UnderWay(fs)
  BY <1>5, <1>6, LocalSteps
<1>7. ASSUME NEW next, AgentsBecome(next) PROVE f \in UnderWay(up[g]) \/ (f \in UpFrame /\ Word(f))
  <2>1. CASE up' = up
    BY <2>1
  <2>2. ASSUME NEW e \in UpFrame, Word(e), <<e>> \in Seq(UpFrame), up' = Upward(<<e>>)
        PROVE  f \in UnderWay(up[g]) \/ (f \in UpFrame /\ Word(f))
    <3>1. UnderWay(<<e>>) = {e}
      BY Single
    <3> QED
      BY <1>5, <2>2, <3>1
  <2> QED
    BY <1>7, <2>1, <2>2, AgentsSay
<1> QED
  BY <1>1, <1>2, <1>3, <1>4, <1>6, <1>7, UpSteps

LEMMA InSequence ==
  ASSUME NEW S, NEW q \in Seq(S), NEW f \in UnderWay(q)
  PROVE  f \in S
BY DEF UnderWay

LEMMA TellsStill ==
  ASSUME NEW f \in UpFrame, Tells(f), \A s \in Stream : GoesOn(s)
  PROVE  Tells(f)'
<1>1. CASE f.t \in {"busy", "idle"}
  BY <1>1 DEF Tells
<1>2. CASE f.t \notin {"busy", "idle"}
  <2>1. PICK s \in Stream : s = f.id
    BY <1>2, Kinds DEF UpFrame
  <2>2. GoesOn(s)
    OBVIOUS
  <2> QED
    BY <2>1, <2>2 DEF Tells, GoesOn
<1> QED
  BY <1>1, <1>2

LEMMA UpKept ==
  ASSUME Types, WireInv, BoxInv, UpInv, DownInv, Next
  PROVE  UpInv'
<1> SUFFICES ASSUME NEW g \in Gen, NEW f \in UnderWay(up'[g]) PROVE Tells(f)'
  BY DEF UpInv
<1>1. CASE f \in UnderWay(up[g])
  <2>1. f \in UpFrame /\ Tells(f)
    BY <1>1, InSequence DEF UpInv, Types, FrameTypes
  <2> QED
    BY <2>1, TellsStill, LocalGoesOn
<1>2. CASE Word(f)
  BY <1>2 DEF Word, Tells
<1>3. ASSUME NEW s \in Stream, NEW fs, Says(s, fs), f \in UnderWay(fs) PROVE Tells(f)'
  BY <1>3 DEF Says
<1> QED
  BY <1>1, <1>2, <1>3, UpGains

\* Nothing starts but what the first frame of the newest generation asks for.
LEMMA OnlyStarts ==
  ASSUME Types, WireInv, BoxInv, Next, NEW s \in Stream, local[s] = "none"
  PROVE  local'[s] = "none" \/ (Start /\ s = Head(down[gen]).id)
<1>1. CASE UNCHANGED <<local, mapped, sent>>
  BY <1>1
<1>2. CASE Start
  BY <1>2, Started
<1>3. CASE Stop
  BY <1>3, Stopped DEF BoxInv
<1>4. ASSUME NEW g \in Gen, BoxCloses(g) PROVE local'[s] = "none"
  BY <1>4, BoxClosed DEF BoxInv
<1>5. ASSUME NEW r \in Stream, LocalActs(r) PROVE local'[s] = "none"
  BY <1>5, LocalSteps
<1> QED
  BY <1>1, <1>2, <1>3, <1>4, <1>5, InsideSteps

LEMMA DownStill ==
  ASSUME Types, WireInv, StreamInv, BoxInv, DownInv, Next,
         NEW g \in Gen, NEW f \in UnderWay(down[g])
  PROVE  /\ f \in DownFrame /\ f.id \in Stream /\ on[f.id] = g /\ on'[f.id] = g
         /\ f.t \in Starts => local'[f.id] = "none" \/ (Start /\ f.id = Head(down[gen]).id)
<1>1. f \in DownFrame /\ g # 0
  BY InSequence, Dials DEF Types, FrameTypes
<1>2. PICK s \in Stream : s = f.id
  BY <1>1, Kinds DEF DownFrame
<1>3. on[s] = g /\ (f.t \in Starts => local[s] = "none")
  BY <1>2 DEF DownInv
<1>4. ~Registers(s)
  BY <1>1, <1>3, Registered DEF StreamInv
<1>5. on'[s] = g
  BY <1>3, <1>4, OnKept
<1> QED
  BY <1>1, <1>2, <1>3, <1>5, OnlyStarts

Ordered(q) == \A i, j \in DOMAIN q : i < j /\ q[i].id = q[j].id => q[j].t \in Ends

LEMMA OrderedTail ==
  ASSUME NEW S, NEW q \in Seq(S), q # <<>>, Ordered(q), NEW w, w = Tail(q)
  PROVE  Ordered(w) /\ \A f \in UnderWay(w) : f.id = Head(q).id => f.t \in Ends
<1>1. /\ Len(q) \in Nat \ {0} /\ DOMAIN q = 1 .. Len(q) /\ DOMAIN w = 1 .. Len(q) - 1
      /\ Len(w) = Len(q) - 1 /\ Head(q) = q[1] /\ 1 \in DOMAIN q
      /\ \A i \in 1 .. Len(q) - 1 : w[i] = q[i + 1]
  BY Dequeued
<1>2. \A i \in 1 .. Len(q) - 1 : i + 1 \in 1 .. Len(q) /\ 1 < i + 1
  BY <1>1
<1>3. ASSUME NEW i \in DOMAIN w, NEW j \in DOMAIN w, i < j, w[i].id = w[j].id PROVE w[j].t \in Ends
  <2>1. i + 1 \in DOMAIN q /\ j + 1 \in DOMAIN q /\ i + 1 < j + 1
        /\ w[i] = q[i + 1] /\ w[j] = q[j + 1]
    BY <1>1, <1>3
  <2> QED
    BY <1>3, <2>1 DEF Ordered
<1>4. ASSUME NEW i \in 1 .. Len(w), w[i].id = Head(q).id PROVE w[i].t \in Ends
  <2>1. w[i] = q[i + 1] /\ i + 1 \in DOMAIN q /\ 1 < i + 1
    BY <1>1, <1>2
  <2> QED
    BY <1>1, <1>4, <2>1 DEF Ordered
<1> QED
  BY <1>3, <1>4 DEF Ordered, UnderWay

LEMMA JoinedOne ==
  ASSUME NEW S, NEW q \in Seq(S), NEW f \in S, NEW w, w = Join(q, <<f>>)
  PROVE  /\ w \in Seq(S) /\ Len(q) \in Nat /\ Len(w) = Len(q) + 1
         /\ DOMAIN q = 1 .. Len(q) /\ DOMAIN w = 1 .. Len(q) + 1
         /\ \A i \in 1 .. Len(q) : w[i] = q[i]
         /\ w[Len(q) + 1] = f
BY DEF Join

LEMMA OrderedJoin ==
  ASSUME NEW S, NEW q \in Seq(S), NEW f \in S, Ordered(q), NEW w, w = Join(q, <<f>>),
         f.t \in Ends \/ \A e \in UnderWay(q) : e.id # f.id
  PROVE  Ordered(w)
<1>3. /\ Len(q) \in Nat /\ DOMAIN q = 1 .. Len(q)
      /\ \A i \in 1 .. Len(q) : w[i] = q[i]
      /\ w[Len(q) + 1] = f /\ DOMAIN w = 1 .. Len(q) + 1
  BY JoinedOne
<1> SUFFICES ASSUME NEW i \in DOMAIN w, NEW j \in DOMAIN w, i < j, w[i].id = w[j].id
             PROVE  w[j].t \in Ends
  BY DEF Ordered
<1>5. i \in 1 .. Len(q) /\ w[i] = q[i]
  BY <1>3
<1>6. CASE j \in 1 .. Len(q)
  BY <1>3, <1>5, <1>6 DEF Ordered
<1>7. CASE j = Len(q) + 1
  BY <1>3, <1>5, <1>7 DEF UnderWay
<1> QED
  BY <1>3, <1>6, <1>7

LEMMA DownKept ==
  ASSUME Types, WireInv, StreamInv, BoxInv, UpInv, DownInv, Next
  PROVE  DownInv'
<1>0. WireTypes /\ FrameTypes /\ \A k \in Gen : down[k] \in Seq(DownFrame) /\ k # 0 /\ Ordered(down[k])
  BY Dials DEF Types, FrameTypes, DownInv, Ordered
<1> SUFFICES ASSUME NEW g \in Gen
             PROVE  /\ \A f \in UnderWay(down'[g]) :
                         on'[f.id] = g /\ (f.t \in Starts => local'[f.id] = "none")
                    /\ Ordered(down'[g])
  BY DEF DownInv, Ordered
<1>1. CASE ~Start /\ UnderWay(down'[g]) \subseteq UnderWay(down[g]) /\ Ordered(down'[g])
  BY <1>1, DownStill
<1>2. CASE UNCHANGED down
  <2>1. CASE ~Start
    BY <1>0, <1>1, <1>2, <2>1
  <2>2. CASE Start
    <3>1. /\ gen \in Gen /\ down[gen] \in Seq(DownFrame) /\ down[gen] # <<>>
          /\ down'[gen] = Tail(down[gen])
      BY <1>0, <2>2, Taken DEF Start
    <3>2. PICK w : w = down'[gen]
      OBVIOUS
    <3>3. Len(w) = Len(down[gen]) - 1 /\ Len(down[gen]) \in Nat
      BY <3>1, <3>2
    <3> QED
      BY <1>2, <3>2, <3>3
  <2> QED
    BY <2>1, <2>2
<1>3. CASE Start
  <2>1. /\ down[gen] \in Seq(DownFrame) /\ down[gen] # <<>> /\ down'[gen] = Tail(down[gen])
        /\ UnderWay(down'[gen]) \subseteq UnderWay(down[gen]) /\ gen \in Gen
        /\ \A k \in Gen \ {gen} : down'[k] = down[k]
        /\ Head(down[gen]) \in UnderWay(down[gen])
    BY <1>0, <1>3, Taken DEF Start
  <2>2. Ordered(down'[gen]) /\ \A f \in UnderWay(down'[gen]) :
          f.id = Head(down[gen]).id => f.t \in Ends
    BY <1>0, <2>1, OrderedTail
  <2>3. on[Head(down[gen]).id] = gen
    BY <2>1, DownStill
  <2>4. CASE g = gen
    <3>1. ASSUME NEW f \in UnderWay(down'[g])
          PROVE  on'[f.id] = g /\ (f.t \in Starts => local'[f.id] = "none")
      BY <2>1, <2>2, <2>4, <3>1, DownStill DEF Starts, Ends
    <3> QED
      BY <2>2, <2>4, <3>1
  <2>5. CASE g # gen
    <3>1. ASSUME NEW f \in UnderWay(down'[g])
          PROVE  on'[f.id] = g /\ (f.t \in Starts => local'[f.id] = "none")
      BY <2>1, <2>3, <2>5, <3>1, DownStill
    <3> QED
      BY <1>0, <2>1, <2>5, <3>1
  <2> QED
    BY <2>4, <2>5
<1>4. CASE Stop
  <2>1. ~Start
    BY <1>4, <1>0, Taken DEF Start, Stop
  <2>2. /\ down[gen] \in Seq(DownFrame) /\ down[gen] # <<>> /\ down'[gen] = Tail(down[gen])
        /\ UnderWay(down'[gen]) \subseteq UnderWay(down[gen]) /\ gen \in Gen
        /\ \A k \in Gen \ {gen} : down'[k] = down[k]
    BY <1>0, <1>4, Taken DEF Stop
  <2>3. Ordered(down'[gen])
    BY <1>0, <2>2, OrderedTail
  <2> QED
    BY <1>0, <1>1, <2>1, <2>2, <2>3
<1>5. ASSUME NEW k \in Gen, BoxCloses(k)
      PROVE  /\ \A f \in UnderWay(down'[g]) :
                  on'[f.id] = g /\ (f.t \in Starts => local'[f.id] = "none")
             /\ Ordered(down'[g])
  <2>1. down'[g] = down[g] \/ down'[g] = <<>>
    BY <1>5, BoxClosed
  <2>2. CASE down'[g] = <<>>
    BY <2>2, Nothing DEF Ordered
  <2>3. CASE down'[g] = down[g] /\ ~Start
    BY <1>0, <1>1, <2>3
  <2>4. ~Start
    BY <1>0, <1>5, BoxClosed, Taken, NotYetClosed DEF Start
  <2> QED
    BY <2>1, <2>2, <2>3, <2>4
<1>6. ASSUME NEW s \in Stream, NEW k \in Gen, NEW f \in DownFrame, f.id = s, on'[s] = k,
             down' = Downward(k, f), f.t \in Ends \/ (f.t \in Starts /\ on[s] = 0 /\ local'[s] = "none"),
             ~Start
      PROVE  /\ \A e \in UnderWay(down'[g]) :
                  on'[e.id] = g /\ (e.t \in Starts => local'[e.id] = "none")
             /\ Ordered(down'[g])
  <2>1. /\ \A i \in Gen \ {k} : down'[i] = down[i]
        /\ \/ /\ down'[k] = Join(down[k], <<f>>)
              /\ UnderWay(down'[k]) = UnderWay(down[k]) \cup {f}
           \/ down' = down
    BY <1>0, <1>6, SentDown
  <2>2. CASE down'[g] = down[g]
    BY <1>0, <1>1, <1>6, <2>2
  <2>3. CASE g = k /\ down'[k] = Join(down[k], <<f>>)
             /\ UnderWay(down'[k]) = UnderWay(down[k]) \cup {f}
    <3>1. \A e \in UnderWay(down[k]) : on[e.id] = k /\ on'[e.id] = k /\ k # 0
                                      /\ (e.t \in Starts => local'[e.id] = "none")
      BY <1>0, <1>6, DownStill
    <3>2. f.t \in Ends \/ \A e \in UnderWay(down[k]) : e.id # f.id
      BY <1>6, <3>1
    <3>3. Ordered(down'[k])
      BY <1>0, <1>6, <2>3, <3>2, OrderedJoin
    <3>4. f.t \in Starts => local'[f.id] = "none"
      BY <1>6 DEF Starts, Ends
    <3> QED
      BY <1>6, <2>3, <3>1, <3>3, <3>4
  <2> QED
    BY <2>1, <2>2, <2>3
<1>7. ASSUME NEW s \in Stream, Registers(s) \/ EndsForBrowser(s)
      PROVE  /\ \A f \in UnderWay(down'[g]) :
                  on'[f.id] = g /\ (f.t \in Starts => local'[f.id] = "none")
             /\ Ordered(down'[g])
  <2>1. CASE Registers(s)
    <3>1. PICK t \in Starts : F(t, s) \in DownFrame /\ down' = Downward(current, F(t, s))
      BY <2>1, Registered
    <3>2. current \in Gen /\ on'[s] = current /\ on[s] = 0 /\ local'[s] = local[s] /\ local[s] = "none"
      BY <2>1, Registered DEF StreamInv, BoxInv
    <3>3. ~Start
      BY <2>1, Registered, Started
    <3>4. F(t, s).id = s /\ F(t, s).t = t
      BY FrameKinds
    <3> QED
      BY <1>6, <3>1, <3>2, <3>3, <3>4
  <2>2. CASE EndsForBrowser(s)
    <3>1. PICK t \in Ends : F(t, s) \in DownFrame /\ down' = Downward(on[s], F(t, s))
      BY <2>2, EndedForBrowser
    <3>2. on'[s] = on[s] /\ on[s] # 0 /\ on[s] \in 0 .. MaxGen
      BY <2>2, EndedForBrowser DEF StreamInv, Types, StreamTypes
    <3>3. on[s] \in Gen
      BY <3>2, BoundsAssumed DEF Gen
    <3>4. ~Start
      BY <2>2, EndedForBrowser, Started
    <3>5. F(t, s).id = s /\ F(t, s).t = t
      BY FrameKinds
    <3> QED
      BY <1>6, <3>1, <3>2, <3>3, <3>4, <3>5
  <2> QED
    BY <1>7, <2>1, <2>2
<1> QED
  BY <1>2, <1>3, <1>4, <1>5, <1>7, DownSteps

-----------------------------------------------------------------------------
(***************************************************************************)
(* What the sandbox works on, or is about to, is wanted.                   *)
(***************************************************************************)
Works(s) == s \in mapped \/ (gen # 0 /\ \E f \in UnderWay(down[gen]) : f.id = s /\ f.t \in Starts)

LEMMA WorkMeans ==
  /\ WorkInv => \A s : Works(s) => Wanted(s)
  /\ (\A s : Works(s)' => Wanted(s)') => WorkInv'
BY DEF WorkInv, Works

LEMMA WorkOnStreams ==
  ASSUME Types', NEW s, Works(s)'
  PROVE  s \in Stream
<1>1. CASE s \in mapped'
  BY <1>1 DEF Types, BoxTypes
<1>2. ASSUME gen' # 0, NEW f \in UnderWay(down'[gen']), f.id = s PROVE s \in Stream
  <2>1. gen' \in Gen /\ down'[gen'] \in Seq(DownFrame)
    BY <1>2, BoundsAssumed DEF Types, WireTypes, FrameTypes, Gen
  <2>2. f \in DownFrame
    BY <1>2, <2>1, InSequence
  <2> QED
    BY <1>2, <2>2, Kinds DEF DownFrame
<1> QED
  BY <1>1, <1>2 DEF Works

LEMMA WorksOn ==
  ASSUME Types, WireInv, QueueInv, BoxInv, DownInv, NEW s \in Stream, Works(s)
  PROVE  /\ gen \in Gen /\ gen # 0 /\ on[s] = gen /\ gate[gen] # "none"
         /\ box[gen] \in {"dialing", "open"} /\ (s \in mapped => box[gen] = "open")
         /\ local[s] \in {"none", "started", "open", "broken"}
<1>1. gen # 0 => gen \in Gen
  BY Dials DEF Types
<1>2. CASE s \in mapped
  BY <1>1, <1>2 DEF BoxInv, WireInv
<1>3. ASSUME gen # 0, NEW f \in UnderWay(down[gen]), f.id = s, f.t \in Starts
      PROVE  on[s] = gen /\ local[s] = "none" /\ gate[gen] # "none" /\ box[gen] \in {"dialing", "open"}
  <2>1. down[gen] # <<>>
    BY <1>3, Nothing
  <2>2. gate[gen] # "none" /\ box[gen] \notin {"none", "closed"}
    BY <1>1, <1>3, <2>1 DEF QueueInv
  <2> QED
    BY <1>1, <1>3, <2>2 DEF DownInv, Types, WireTypes
<1>4. CASE gen # 0 /\ \E f \in UnderWay(down[gen]) : f.id = s /\ f.t \in Starts
  BY <1>1, <1>3, <1>4 DEF BoxInv
<1> QED
  BY <1>2, <1>4 DEF Works

\* The same work is wanted for the same reasons.
LEMMA WantedStill ==
  ASSUME NEW s \in Stream, gen' = gen, Wanted(s), s \in reg => s \in reg',
         gate[gen] = "closed" => gate'[gen] = "closed",
         \A f \in UnderWay(down[gen]) : f.id = s /\ f.t \in Ends => f \in UnderWay(down'[gen]),
         \/ told'[s] = told[s] /\ (s \in Ws => opened'[s] = opened[s])
         \/ s \in reg'
  PROVE  Wanted(s)'
BY DEF Wanted

LEMMA DownGrows ==
  ASSUME Types, Next, NEW k, NEW f \in DownFrame, down' = Downward(k, f), gen \in Gen
  PROVE  UnderWay(down[gen]) \subseteq UnderWay(down'[gen])
         /\ \A e \in UnderWay(down'[gen]) : e \in UnderWay(down[gen]) \/ e = f
<1>1. CASE k \in Gen
  BY <1>1, SentDown DEF Types
<1>2. CASE k \notin Gen
  <2>1. down'[gen] = down[gen]
    BY <1>2 DEF Downward, Types, FrameTypes
  <2> QED
    BY <2>1
<1> QED
  BY <1>1, <1>2

LEMMA WorkKept ==
  ASSUME Types, WireInv, QueueInv, StreamInv, BoxInv, UpInv, DownInv, WorkInv, Next
  PROVE  WorkInv'
<1> SUFFICES ASSUME NEW s, Works(s)' PROVE Wanted(s)'
  BY WorkMeans
<1>0. /\ WireTypes /\ FrameTypes /\ gen \in Nat /\ (gen # 0 => gen \in Gen)
      /\ s \in Stream /\ (s \in Ws \/ s \in Http) /\ ~(s \in Ws /\ s \in Http)
      /\ (Works(s) => Wanted(s))
  BY TypesKept, WorkOnStreams, WorkMeans, Dials, Kinds DEF Types
<1>1. Works(s) => /\ gen \in Gen /\ gen # 0 /\ on[s] = gen /\ gate[gen] # "none"
                  /\ box[gen] \in {"dialing", "open"} /\ (s \in mapped => box[gen] = "open")
                  /\ local[s] \in {"none", "started", "open", "broken"}
  BY <1>0, WorksOn
<1>2. CASE Dial
  <2>1. UNCHANGED <<mapped, down>> /\ gen' \in Gen /\ gate[gen'] = "none" /\ mapped = {}
    BY <1>0, <1>2, Dialled DEF BoxInv
  <2>2. down[gen'] = <<>>
    BY <2>1 DEF QueueInv
  <2> QED
    BY <2>1, <2>2, Nothing DEF Works
<1>3. ASSUME NEW g \in Gen, Accept(g) PROVE FALSE
  <2>1. g = gen /\ gen # 0 /\ box[gen] = "dialing" /\ gate[gen] = "none" /\ UNCHANGED <<gen, mapped, down>>
    BY <1>3, Accepted
  <2>2. down[gen] = <<>>
    BY <1>3, <2>1 DEF QueueInv
  <2>3. Works(s)
    BY <2>1 DEF Works
  <2> QED
    BY <1>1, <2>1, <2>3
<1>4. ASSUME NEW g \in Gen, BoxOpens(g) PROVE Wanted(s)'
  <2>1. UNCHANGED <<gen, gate, down, mapped, reg, told, opened>>
    BY <1>4, BoxOpened
  <2> QED
    BY <1>0, <2>1 DEF Works, Wanted
<1>5. ASSUME NEW g \in Gen, BoxCloses(g) PROVE FALSE
  BY <1>5, BoxClosed, Nothing DEF Works
<1>6. ASSUME NEW g \in Gen, GateCloses(g) PROVE Wanted(s)'
  <2>1. /\ gate'[g] = "closed" /\ (\A k \in Gen \ {g} : gate'[k] = gate[k])
        /\ UNCHANGED <<gen, mapped, down>> /\ Destroy(g)
    BY <1>6, GateClosed
  <2>2. Works(s)
    BY <2>1 DEF Works
  <2>3. CASE g = gen
    BY <2>1, <2>3 DEF Wanted
  <2>4. CASE g # gen
    <3>1. /\ reg' = {r \in reg : on[r] # g}
          /\ \A r \in Stream : r \notin reg \/ on[r] # g => told'[r] = told[r]
          /\ \A w \in Ws : opened'[w] = opened[w]
              \/ (opened[w] = "asked" /\ opened'[w] = "no" /\ w \in reg /\ on[w] = g)
      BY <2>1, Destroyed DEF Types
    <3>2. told'[s] = told[s] /\ (s \in Ws => opened'[s] = opened[s]) /\ (s \in reg => s \in reg')
      BY <1>0, <1>1, <2>2, <2>4, <3>1
    <3>3. gate'[gen] = gate[gen] /\ down' = down /\ gen' = gen
      BY <1>1, <2>1, <2>2, <2>4
    <3> QED
      BY <1>0, <2>2, <3>2, <3>3, WantedStill
  <2> QED
    BY <2>3, <2>4
<1>7. ASSUME NEW r \in Stream, Registers(r) PROVE Wanted(s)'
  <2>1. /\ reg' = reg \cup {r} /\ UNCHANGED <<gen, gate, opened, mapped>>
        /\ \A q \in Stream \ {r} : told'[q] = told[q]
        /\ \E t \in Starts : F(t, r) \in DownFrame /\ down' = Downward(current, F(t, r))
    BY <1>7, Registered
  <2>2. CASE r = s
    BY <2>1, <2>2 DEF Wanted
  <2>3. CASE r # s
    <3>1. PICK f \in DownFrame : f.id = r /\ down' = Downward(current, f)
      BY <2>1, FrameKinds
    <3>2. gen # 0 => /\ UnderWay(down[gen]) \subseteq UnderWay(down'[gen])
                     /\ \A e \in UnderWay(down'[gen]) : e \in UnderWay(down[gen]) \/ e = f
      BY <1>0, <3>1, DownGrows
    <3>3. Works(s)
      BY <2>1, <2>3, <3>1, <3>2 DEF Works
    <3> QED
      BY <1>0, <1>1, <2>1, <2>3, <3>2, <3>3, WantedStill
  <2> QED
    BY <2>2, <2>3
<1>8. ASSUME NEW r \in Stream, EndsForBrowser(r) PROVE Wanted(s)'
  <2>1. /\ reg' = reg \ {r} /\ UNCHANGED <<gen, gate, box, on, opened, mapped>>
        /\ \A q \in Stream \ {r} : told'[q] = told[q]
        /\ \E t \in Ends : F(t, r) \in DownFrame /\ down' = Downward(on[r], F(t, r))
    BY <1>8, EndedForBrowser
  <2>2. PICK f \in DownFrame : f.id = r /\ f.t \in Ends /\ down' = Downward(on[r], f)
    BY <2>1, FrameKinds
  <2>3. gen # 0 => /\ UnderWay(down[gen]) \subseteq UnderWay(down'[gen])
                   /\ \A e \in UnderWay(down'[gen]) : e \in UnderWay(down[gen]) \/ e = f
    BY <1>0, <2>2, DownGrows
  <2>4. Works(s)
    BY <2>1, <2>2, <2>3 DEF Works, Starts, Ends
  <2>5. CASE r # s
    BY <1>0, <1>1, <2>1, <2>3, <2>4, <2>5, WantedStill
  <2>6. CASE r = s /\ gate[gen] # "open"
    BY <1>0, <1>1, <2>1, <2>4, <2>6 DEF Wanted, Types, WireTypes
  <2>7. CASE r = s /\ gate[gen] = "open"
    <3>1. UnderWay(down'[gen]) = UnderWay(down[gen]) \cup {f}
      BY <1>0, <1>1, <2>2, <2>4, <2>7, SentDown
    <3> QED
      BY <2>1, <2>2, <2>7, <3>1 DEF Wanted
  <2> QED
    BY <2>5, <2>6, <2>7
<1>9. ASSUME NEW r \in Stream, WaitsNoLonger(r) PROVE Wanted(s)'
  <2>1. UNCHANGED <<gen, gate, down, mapped>>
    BY <1>9, WaitedNoLonger
  <2>2. Works(s) /\ Wanted(s)
    BY <1>0, <2>1 DEF Works
  <2>3. CASE r # s
    <3>1. told'[s] = told[s] /\ (s \in Ws => opened'[s] = opened[s]) /\ (s \in reg => s \in reg')
      BY <1>0, <1>9, <2>3, WaitedNoLonger
    <3> QED
      BY <1>0, <2>1, <2>2, <3>1, WantedStill
  <2>4. CASE r = s
    BY <1>0, <1>9, <2>1, <2>2, <2>4, WaitedNoLonger DEF Wanted
  <2> QED
    BY <2>3, <2>4
<1>10. ASSUME NEW g \in Gen, Hears(g) PROVE Wanted(s)'
  <2>1. UNCHANGED <<gen, gate, down, mapped>>
    BY <1>10, StreamsHear
  <2>2. Works(s) /\ Wanted(s)
    BY <1>0, <2>1 DEF Works
  <2>3. CASE UNCHANGED <<reg, told, opened>>
    BY <1>0, <2>1, <2>2, <2>3, WantedStill
  <2>4. ASSUME NEW f \in UpFrame, NEW r \in Stream, f = Head(up[g]), HearsOf(g, f, r)
        PROVE  Wanted(s)'
    <3>1. CASE r # s
      <4>1. told'[s] = told[s] /\ (s \in Ws => opened'[s] = opened[s]) /\ (s \in reg => s \in reg')
        BY <1>0, <2>4, <3>1 DEF HearsOf
      <4> QED
        BY <1>0, <2>1, <2>2, <4>1, WantedStill
    <3>2. CASE r = s
      <4>1. Tells(f) /\ f.id = s /\ s \in reg
        BY <1>0, <1>10, <2>4, <3>2, Comings, Heard DEF UpInv, HearsOf, Known
      <4>2. f.t \notin {"resend", "reserr", "wsfail", "wsclosed"}
        BY <1>1, <2>2, <4>1 DEF Tells
      <4>3. s \in reg'
        BY <2>4, <3>2, <4>1, <4>2 DEF HearsOf
      <4> QED
        BY <4>3 DEF Wanted
    <3> QED
      BY <3>1, <3>2
  <2> QED
    BY <1>10, <2>3, <2>4, StreamsHear
<1>11. CASE Start \/ Stop
  <2>1. /\ gen # 0 /\ gen \in Gen /\ down[gen] \in Seq(DownFrame) /\ down[gen] # <<>>
        /\ down'[gen] = Tail(down[gen]) /\ Head(down[gen]) \in UnderWay(down[gen])
        /\ UnderWay(down'[gen]) \subseteq UnderWay(down[gen])
        /\ UnderWay(down[gen]) \subseteq UnderWay(down'[gen]) \cup {Head(down[gen])}
    BY <1>0, <1>11, Taken DEF Start, Stop
  <2>2. UNCHANGED <<gen, gate, reg, told, opened>>
    BY <1>11, Started, Stopped
  <2>3. PICK h : h = Head(down[gen])
    OBVIOUS
  <2>4. CASE Start
    <3>1. h.t \in Starts /\ (mapped' = mapped \cup {h.id})
      BY <2>3, <2>4, Started
    <3>2. Works(s)
      BY <2>1, <2>2, <2>3, <3>1 DEF Works
    <3>3. \A f \in UnderWay(down[gen]) : f.t \in Ends => f \in UnderWay(down'[gen])
      BY <2>1, <2>3, <3>1 DEF Starts, Ends
    <3> QED
      BY <1>0, <2>2, <3>2, <3>3, WantedStill
  <2>5. CASE Stop
    <3>1. h.t \in Ends /\ mapped' = mapped \ {h.id}
      BY <2>3, <2>5, Stopped
    <3>2. \A f \in UnderWay(down'[gen]) : f.id = h.id => f.t \in Ends
      <4>1. Ordered(down[gen])
        BY <2>1 DEF DownInv, Ordered
      <4> QED
        BY <2>1, <2>3, <4>1, OrderedTail
    <3>3. Works(s) /\ s # h.id
      BY <2>1, <2>2, <3>1, <3>2 DEF Works, Starts, Ends
    <3>4. \A f \in UnderWay(down[gen]) : f.id = s => f \in UnderWay(down'[gen])
      BY <2>1, <2>3, <3>3
    <3> QED
      BY <1>0, <2>2, <3>3, <3>4, WantedStill
  <2> QED
    BY <1>11, <2>4, <2>5
<1>12. CASE UNCHANGED <<gen, gate, down, reg, told, opened>> /\ mapped' \subseteq mapped
  <2>1. Works(s)
    BY <1>12 DEF Works
  <2> QED
    BY <1>0, <1>12, <2>1, WantedStill
<1>13. ASSUME NEW r \in Stream, LocalActs(r)
       PROVE  UNCHANGED <<gen, gate, down, reg, told, opened>> /\ mapped' \subseteq mapped
  BY <1>13, LocalSteps DEF wire, streams
<1>14. ASSUME NEW next, AgentsBecome(next)
       PROVE  UNCHANGED <<gen, gate, down, reg, told, opened>> /\ mapped' \subseteq mapped
  BY <1>14 DEF AgentsBecome, wire, streams, inside
<1>15. agents \subseteq Agent
  BY DEF Types, BoxTypes
<1> QED
  BY <1>2, <1>3, <1>4, <1>5, <1>6, <1>7, <1>8, <1>9, <1>10, <1>11, <1>12, <1>13, <1>14, <1>15, Steps
     DEF WireActs

-----------------------------------------------------------------------------
(***************************************************************************)
(* An answer that has begun is worked on, or its end is under way.         *)
(***************************************************************************)
LEMMA UpLoses ==
  ASSUME Types, Next, NEW g \in Gen, NEW f \in UnderWay(up[g])
  PROVE  f \in UnderWay(up'[g]) \/ (Hears(g) /\ f = Head(up[g])) \/ GateCloses(g)
<1>0. WireTypes /\ FrameTypes
  BY DEF Types
<1>1. CASE UNCHANGED up
  BY <1>1
<1>2. ASSUME NEW k \in Gen, Hears(k) PROVE f \in UnderWay(up'[g]) \/ (Hears(g) /\ f = Head(up[g]))
  BY <1>0, <1>2, Comings, Heard
<1>3. ASSUME NEW k \in Gen, BoxOpens(k) PROVE f \in UnderWay(up'[g])
  BY <1>3, Opens
<1>4. ASSUME NEW k \in Gen, GateCloses(k) PROVE f \in UnderWay(up'[g]) \/ GateCloses(g)
  BY <1>4, GateClosed
<1>5. ASSUME NEW fs \in Seq(UpFrame), up' = Upward(fs) PROVE f \in UnderWay(up'[g])
  BY <1>0, <1>5, SentUp
<1>6. ASSUME NEW s \in Stream, LocalActs(s) PROVE f \in UnderWay(up'[g])
  BY <1>5, <1>6, LocalSteps
<1>7. ASSUME NEW next, AgentsBecome(next) PROVE f \in UnderWay(up'[g])
  BY <1>5, <1>7, AgentsSay
<1> QED
  BY <1>1, <1>2, <1>3, <1>4, <1>6, <1>7, UpSteps

LEMMA RegKept ==
  ASSUME Types, WireInv, Next, NEW s \in reg'
  PROVE  s \in reg \/ (s \in Stream /\ Registers(s))
<1>1. CASE UNCHANGED <<on, reg, told, opened, pending, got, current>>
  BY <1>1
<1>2. ASSUME NEW g \in Gen, Accept(g) \/ GateCloses(g) PROVE s \in reg
  BY <1>2, Accepted, GateClosed, Destroyed DEF Types
<1>3. ASSUME NEW g \in Gen, Hears(g) PROVE s \in reg
  BY <1>3, StreamsHear DEF HearsOf
<1>4. ASSUME NEW r \in Stream, Registers(r) PROVE s \in reg \/ (s \in Stream /\ Registers(s))
  BY <1>4, Registered
<1>5. ASSUME NEW r \in Stream, EndsForBrowser(r) \/ WaitsNoLonger(r) PROVE s \in reg
  BY <1>5, EndedForBrowser, WaitedNoLonger
<1> QED
  BY <1>1, <1>2, <1>3, <1>4, <1>5, StreamSteps

LEMMA EndKept ==
  ASSUME Types, WireInv, StreamInv, BoxInv, DownInv, EndInv, Next
  PROVE  EndInv'
<1> SUFFICES ASSUME NEW g \in Gen, NEW f \in UnderWay(down'[g]), f.t \in Ends, f.id \in reg'
             PROVE  FALSE
  BY DEF EndInv
<1>0. WireTypes /\ FrameTypes
  BY DEF Types
<1>1. CASE f \in UnderWay(down[g])
  <2>1. f.id \in Stream /\ on[f.id] = g /\ g # 0
    BY <1>0, <1>1, DownStill, Dials
  <2>2. f.id \notin reg
    BY <1>1 DEF EndInv
  <2>3. Registers(f.id)
    BY <2>1, <2>2, RegKept
  <2> QED
    BY <2>1, <2>3, Registered DEF StreamInv
<1>2. CASE f \notin UnderWay(down[g])
  <2>1. ASSUME NEW s \in Stream, Registers(s) PROVE FALSE
    <3>1. PICK e \in DownFrame : e.t \in Starts /\ down' = Downward(current, e) /\ current \in Gen
      BY <2>1, Registered, FrameKinds
    <3>2. f = e
      BY <1>0, <1>2, <3>1, SentDown
    <3> QED
      BY <3>1, <3>2 DEF Starts, Ends
  <2>2. ASSUME NEW s \in Stream, EndsForBrowser(s) PROVE FALSE
    <3>1. PICK e \in DownFrame : e.id = s /\ down' = Downward(on[s], e)
      BY <2>2, EndedForBrowser, FrameKinds
    <3>2. on[s] \in Gen \/ down'[g] = down[g]
      BY <1>0, <3>1 DEF Downward, FrameTypes
    <3>3. f = e
      <4>1. CASE on[s] \in Gen
        <5>1. PICK k \in Gen : k = on[s]
          BY <4>1
        <5>2. down' = Downward(k, e)
          BY <3>1, <5>1
        <5>3. /\ \A i \in Gen \ {k} : down'[i] = down[i]
              /\ UnderWay(down'[k]) = UnderWay(down[k]) \cup {e} \/ down' = down
          BY <1>0, <5>2, SentDown
        <5> QED
          BY <1>2, <5>3
      <4>2. CASE down'[g] = down[g]
        BY <1>2, <4>2
      <4> QED
        BY <3>2, <4>1, <4>2
    <3> QED
      BY <2>2, <3>1, <3>3, EndedForBrowser
  <2>3. CASE UNCHANGED down
    BY <1>2, <2>3
  <2>4. CASE Start \/ Stop
    BY <1>0, <1>2, <2>4, Taken DEF Start, Stop
  <2>5. ASSUME NEW k \in Gen, BoxCloses(k) PROVE FALSE
    BY <1>2, <2>5, BoxClosed, Nothing
  <2> QED
    BY <2>1, <2>2, <2>3, <2>4, <2>5, DownSteps
<1> QED
  BY <1>1, <1>2

\* A request is forgotten by the sandbox when it has ended, and not before.
LEMMA MappedLost ==
  ASSUME Types, WireInv, Next, NEW s \in mapped, s \notin mapped'
  PROVE  \/ Stop /\ s = Head(down[gen]).id
         \/ box'[gen] = "closed" /\ gen' = gen
         \/ LocalActs(s)
<1>1. CASE UNCHANGED <<local, mapped, sent>>
  BY <1>1
<1>2. CASE Start
  BY <1>2, Started
<1>3. CASE Stop
  BY <1>3, Stopped
<1>4. ASSUME NEW g \in Gen, BoxCloses(g) PROVE box'[gen] = "closed" /\ gen' = gen
  BY <1>4, BoxClosed
<1>5. ASSUME NEW r \in Stream, LocalActs(r) PROVE LocalActs(s)
  BY <1>5, LocalSteps
<1> QED
  BY <1>1, <1>2, <1>3, <1>4, <1>5, InsideSteps

LEMMA BegunWas ==
  ASSUME Types, WireInv, StreamInv, BoxInv, UpInv, Next, NEW h \in Http, h \in reg,
         on[h] = gen, on'[h] = on[h], Begun(h)'
  PROVE  Begun(h) \/ (h \in mapped /\ h \in mapped')
<1>0. WireTypes /\ FrameTypes /\ StreamTypes /\ h \in Stream /\ gen # 0 /\ gen \in Gen
  BY Kinds, Dials DEF Types, StreamInv
<1>1. ASSUME told'[h] = "begun" PROVE Begun(h)
  <2>1. CASE told[h] = "begun"
    BY <2>1 DEF Begun
  <2>2. ASSUME NEW g \in Gen, Hears(g), told[h] # "begun" PROVE Begun(h)
    <3>1. PICK f \in UpFrame, s \in Stream : f = Head(up[g]) /\ HearsOf(g, f, s)
      BY <1>1, <2>2, StreamsHear
    <3>2. s = h /\ f.t = "httpres" /\ f.id = h /\ on[h] = g
      BY <1>0, <1>1, <2>2, <3>1, Kinds DEF HearsOf, Known
    <3>3. f \in UnderWay(up[g])
      BY <1>0, <2>2, <3>1, Comings, Heard
    <3> QED
      BY <3>2, <3>3 DEF Begun
  <2>3. ASSUME NEW g \in Gen, Accept(g) \/ GateCloses(g) PROVE told[h] = "begun"
    BY <1>0, <1>1, <2>3, Accepted, GateClosed, Destroyed
  <2>4. ASSUME NEW s \in Stream, Registers(s) \/ EndsForBrowser(s) \/ WaitsNoLonger(s)
        PROVE  told[h] = "begun"
    <3>1. CASE Registers(s)
      BY <1>0, <1>1, <3>1, Registered
    <3>2. CASE EndsForBrowser(s)
      BY <1>0, <1>1, <3>2, EndedForBrowser, Kinds
    <3>3. CASE WaitsNoLonger(s)
      BY <1>0, <1>1, <3>3, WaitedNoLonger, Kinds
    <3> QED
      BY <2>4, <3>1, <3>2, <3>3
  <2>5. CASE UNCHANGED <<on, reg, told, opened, pending, got, current>>
    BY <1>1, <2>1, <2>5
  <2> QED
    BY <2>1, <2>2, <2>3, <2>4, <2>5, StreamSteps
<1>2. ASSUME NEW f \in UnderWay(up'[gen]), f.id = h, f.t = "httpres"
      PROVE  Begun(h) \/ (h \in mapped /\ h \in mapped')
  <2>1. CASE f \in UnderWay(up[gen])
    BY <1>2, <2>1 DEF Begun
  <2>2. CASE Word(f)
    BY <1>2, <2>2 DEF Word
  <2>3. ASSUME NEW s \in Stream, NEW fs, LocalActs(s), Says(s, fs), f \in UnderWay(fs)
        PROVE  h \in mapped /\ h \in mapped'
    <3>1. s = h /\ Tells(f)'
      BY <1>2, <2>3 DEF Says
    <3>2. local'[h] \notin {"ended", "failed"}
      BY <1>2, <2>3, <3>1, LocalSteps DEF Says
    <3> QED
      BY <1>0, <2>3, <3>1, <3>2, LocalSteps DEF BoxInv
  <2> QED
    BY <1>0, <2>1, <2>2, <2>3, UpGains
<1> QED
  BY <1>0, <1>1, <1>2 DEF Begun

LEMMA AnswerKept ==
  ASSUME Types, WireInv, QueueInv, StreamInv, BoxInv, UpInv, DownInv, EndInv, AnswerInv, Next
  PROVE  AnswerInv'
<1> SUFFICES ASSUME NEW h \in Http, h \in reg', BothOpen(on[h])', Begun(h)'
             PROVE  h \in mapped' \/ Ending(h)'
  BY DEF AnswerInv
<1>0. WireTypes /\ FrameTypes /\ StreamTypes /\ h \in Stream /\ h \notin Ws
  BY Kinds DEF Types
<1>1. local'[h] # "none" /\ (local'[h] = "started" => told'[h] = "begun")
  <2>1. UpInv' /\ BoxInv' /\ on'[h] \in 0 .. MaxGen
    BY <1>0, UpKept, BoxKept, StreamTypesKept DEF StreamTypes
  <2>2. on'[h] # 0
    <3>1. StreamInv' /\ StreamTypes'
      BY StreamKept, StreamTypesKept
    <3> QED
      BY <1>0, <3>1 DEF StreamInv
  <2>3. on'[h] \in Gen
    BY <2>1, <2>2, BoundsAssumed DEF Gen
  <2> QED
    BY <2>1, <2>3 DEF Begun, UpInv, Tells, BoxInv
<1>2. h \in reg /\ on'[h] = on[h]
  <2>1. ~Registers(h)
    <3>1. ASSUME Registers(h) PROVE local'[h] = "none"
      BY <1>0, <3>1, Registered DEF BoxInv, StreamInv
    <3> QED
      BY <1>1, <3>1
  <2> QED
    BY <1>0, <2>1, RegKept, OnKept
<1>3. on[h] \in Gen /\ on[h] # 0
  BY <1>2, Dials DEF StreamInv, Types
<1>4. BothOpen(on[h]) /\ on[h] = gen
  <2>1. gate'[on[h]] = "open" /\ box'[on[h]] = "open"
    BY <1>2 DEF BothOpen
  <2>2. CASE UNCHANGED <<gen, box, gate, current>>
    BY <1>3, <2>1, <2>2, NotYetClosed DEF BothOpen
  <2>3. CASE Dial
    BY <1>3, <2>1, <2>3, Dialled, NotYetClosed DEF BothOpen
  <2>4. ASSUME NEW g \in Gen, Accept(g) PROVE FALSE
    BY <1>2, <1>3, <2>1, <2>4, Accepted, NotYetClosed
  <2>5. ASSUME NEW g \in Gen, BoxOpens(g) PROVE BothOpen(on[h]) /\ on[h] = gen
    <3>1. local[h] # "none"
      BY <1>0, <1>1, <2>5, BoxOpened
    <3>2. on[h] # gen
      BY <1>0, <2>5, <3>1, BoxOpened DEF BoxInv
    <3>3. box[on[h]] = "open"
      BY <1>3, <2>1, <2>5, <3>2, BoxOpened
    <3> QED
      BY <1>3, <3>2, <3>3, NotYetClosed
  <2>6. ASSUME NEW g \in Gen, BoxCloses(g) PROVE BothOpen(on[h]) /\ on[h] = gen
    BY <1>3, <2>1, <2>6, BoxClosed, NotYetClosed
  <2>7. ASSUME NEW g \in Gen, GateCloses(g) PROVE BothOpen(on[h]) /\ on[h] = gen
    BY <1>3, <2>1, <2>7, GateClosed, NotYetClosed DEF BothOpen
  <2> QED
    BY <2>2, <2>3, <2>4, <2>5, <2>6, <2>7, WireChanges DEF WireActs
<1>5. CASE Begun(h)
  <2>1. h \in mapped \/ Ending(h)
    BY <1>2, <1>4, <1>5 DEF AnswerInv
  <2>2. CASE Ending(h)
    <3>1. PICK f \in UnderWay(up[on[h]]) : f.id = h /\ f.t \in {"resend", "reserr"}
      BY <2>2 DEF Ending
    <3>2. ~GateCloses(on[h])
      BY <1>2, <1>3, GateClosed DEF BothOpen
    <3>3. ~(Hears(on[h]) /\ f = Head(up[on[h]]))
      <4>1. ASSUME Hears(on[h]), f = Head(up[on[h]]) PROVE FALSE
        <5>1. PICK kinds : Comes(on[h], kinds)
          BY <4>1, Comings
        <5>2. HearHttp(on[h])
          BY <1>3, <3>1, <4>1
             DEF Hears, HearActivity, HearOpened, HearFailed, HearMessage, HearClosed, Comes
        <5>3. Known(on[h], h)
          BY <1>2 DEF Known
        <5> QED
          BY <1>2, <1>3, <3>1, <4>1, <5>2, <5>3, HttpHeard
      <4> QED
        BY <4>1
    <3>4. f \in UnderWay(up'[on[h]])
      BY <1>3, <3>1, <3>2, <3>3, UpLoses
    <3> QED
      BY <1>2, <3>1, <3>4 DEF Ending
  <2>3. CASE h \in mapped /\ h \notin mapped'
    <3>1. ASSUME Stop, h = Head(down[gen]).id PROVE FALSE
      <4>1. Head(down[gen]).t \in Ends /\ Head(down[gen]) \in UnderWay(down[gen]) /\ gen \in Gen
        BY <1>0, <3>1, Taken DEF Stop, Ends
      <4> QED
        BY <1>2, <3>1, <4>1 DEF EndInv
    <3>2. ASSUME box'[gen] = "closed" PROVE FALSE
      BY <1>2, <1>4, <3>2 DEF BothOpen
    <3>3. ASSUME LocalActs(h) PROVE Ending(h)'
      <4>1. local'[h] = "ended"
        BY <1>0, <2>3, <3>3, LocalSteps
      <4>2. PICK fs \in Seq(UpFrame) : up' = Upward(fs) /\ Says(h, fs)
        BY <1>0, <3>3, LocalSteps
      <4>3. PICK f \in UnderWay(fs) : f.id = h /\ f.t \in {"resend", "reserr"}
        BY <4>1, <4>2 DEF Says
      <4>4. UnderWay(up'[gen]) = UnderWay(up[gen]) \cup UnderWay(fs)
        BY <1>0, <1>3, <1>4, <4>2, SentUp
      <4> QED
        BY <1>2, <1>4, <4>3, <4>4 DEF Ending
    <3> QED
      BY <1>0, <2>3, <3>1, <3>2, <3>3, MappedLost
  <2> QED
    BY <2>1, <2>2, <2>3
<1> QED
  BY <1>2, <1>4, <1>5, BegunWas

-----------------------------------------------------------------------------
(***************************************************************************)
(* The last word on the agents.                                            *)
(***************************************************************************)
LEMMA WordJoins ==
  ASSUME NEW S, NEW q \in Seq(S), NEW f \in S, NEW w, w = Join(q, <<f>>), Word(f),
         NEW believed, NEW a, f.t = "busy" <=> a # {}
  PROVE  TrueWord(w, believed, a)
<1>1. /\ Len(q) \in Nat /\ DOMAIN w = 1 .. Len(q) + 1 /\ w[Len(q) + 1] = f
  BY JoinedOne
<1>2. Len(q) + 1 \in DOMAIN w /\ \A j \in DOMAIN w : ~(j > Len(q) + 1)
  BY <1>1
<1>3. LastWord(w, Len(q) + 1)
  BY <1>1, <1>2 DEF LastWord
<1> QED
  BY <1>1, <1>2, <1>3 DEF TrueWord

LEMMA OthersJoin ==
  ASSUME NEW S, NEW q \in Seq(S), NEW fs \in Seq(S), NEW w, w = Join(q, fs),
         \A f \in UnderWay(fs) : ~Word(f), NEW believed, NEW a, TrueWord(q, believed, a)
  PROVE  TrueWord(w, believed, a)
<1>1. /\ Len(q) \in Nat /\ Len(fs) \in Nat
      /\ DOMAIN q = 1 .. Len(q) /\ DOMAIN w = 1 .. Len(q) + Len(fs)
      /\ \A i \in 1 .. Len(q) + Len(fs) : w[i] = IF i <= Len(q) THEN q[i] ELSE fs[i - Len(q)]
  BY DEF Join
<1>2. \A i \in 1 .. Len(fs) : ~Word(fs[i])
  BY DEF UnderWay
<1>3. \A i \in DOMAIN w : i \in DOMAIN q \/ ~Word(w[i])
  <2> SUFFICES ASSUME NEW i \in DOMAIN w, i \notin DOMAIN q PROVE ~Word(w[i])
    OBVIOUS
  <2>1. i - Len(q) \in 1 .. Len(fs) /\ ~(i <= Len(q))
    BY <1>1
  <2>2. w[i] = fs[i - Len(q)]
    BY <1>1, <2>1
  <2> QED
    BY <1>2, <2>1, <2>2
<1>4. \A i \in DOMAIN q : i \in DOMAIN w /\ w[i] = q[i]
  BY <1>1
<1> QED
  BY <1>3, <1>4 DEF TrueWord, LastWord

LEMMA WordHeard ==
  ASSUME NEW S, NEW q \in Seq(S), q # <<>>, NEW w, w = Tail(q), NEW believed, NEW a,
         TrueWord(q, believed, a)
  PROVE  /\ Word(Head(q)) => TrueWord(w, Head(q).t = "busy", a)
         /\ ~Word(Head(q)) => TrueWord(w, believed, a)
<1>1. /\ Len(q) \in Nat \ {0} /\ DOMAIN q = 1 .. Len(q) /\ DOMAIN w = 1 .. Len(q) - 1
      /\ Head(q) = q[1] /\ \A i \in 1 .. Len(q) - 1 : w[i] = q[i + 1]
  BY Dequeued
<1>2. \A i \in DOMAIN w : i + 1 \in DOMAIN q /\ i + 1 # 1 /\ w[i] = q[i + 1]
  BY <1>1
<1>3. ASSUME NEW i \in DOMAIN q, LastWord(q, i), (q[i].t = "busy" <=> a # {}), i # 1
      PROVE  TrueWord(w, believed, a) /\ TrueWord(w, Head(q).t = "busy", a)
  <2>1. i - 1 \in DOMAIN w /\ (i - 1) + 1 = i
    BY <1>1, <1>3
  <2>2. w[i - 1] = q[i]
    BY <1>2, <2>1
  <2>3. \A j \in DOMAIN w : j > i - 1 => j + 1 > i
    BY <1>1
  <2>4. LastWord(w, i - 1)
    BY <1>2, <1>3, <2>1, <2>2, <2>3 DEF LastWord
  <2> QED
    BY <1>3, <2>1, <2>2, <2>4 DEF TrueWord
<1>4. ASSUME LastWord(q, 1), (q[1].t = "busy" <=> a # {})
      PROVE  Word(Head(q)) /\ TrueWord(w, Head(q).t = "busy", a)
  <2>1. \A i \in DOMAIN w : i + 1 > 1
    BY <1>1
  <2>2. \A i \in DOMAIN w : ~Word(w[i])
    BY <1>2, <1>4, <2>1 DEF LastWord
  <2> QED
    BY <1>1, <1>4, <2>2 DEF TrueWord, LastWord
<1>5. ASSUME \A i \in DOMAIN q : ~Word(q[i]), believed = (a # {})
      PROVE  ~Word(Head(q)) /\ TrueWord(w, believed, a)
  <2>1. 1 \in DOMAIN q
    BY <1>1
  <2> QED
    BY <1>1, <1>2, <1>5, <2>1 DEF TrueWord
<1> QED
  BY <1>3, <1>4, <1>5 DEF TrueWord

LEMMA BusyKept ==
  ASSUME Types, WireInv, BusyInv, Next
  PROVE  BusyInv'
<1> SUFFICES ASSUME gen' # 0, BothOpen(gen)' PROVE TrueWord(up[gen], busy[gen], agents)'
  BY DEF BusyInv
<1>0. /\ WireTypes /\ FrameTypes /\ gen' \in Gen /\ agents \subseteq Agent
      /\ gate'[gen'] = "open" /\ box'[gen'] = "open"
  BY WireTypesKept, BoundsAssumed DEF Types, BoxTypes, WireTypes, Gen, BothOpen
<1>1. ASSUME NEW g \in Gen, BoxOpens(g) PROVE TrueWord(up[gen], busy[gen], agents)'
  <2>1. g = gen /\ UNCHANGED <<gen, gate, busy, agents>>
    BY <1>1, BoxOpened
  <2>2. up[g] \in Seq(UpFrame) /\ up'[g] = With(up[g], Activity) /\ gate[g] = "open"
    BY <1>0, <1>1, <2>1, Opens DEF FrameTypes
  <2>3. up'[g] = Join(up[g], <<Activity>>)
    BY <2>2 DEF With, Join
  <2>4. PICK w : w = up'[g]
    OBVIOUS
  <2>5. Activity.t = "busy" <=> agents # {}
    BY ActivityFrame
  <2>6. TrueWord(w, busy[g], agents)
    BY <2>2, <2>3, <2>4, <2>5, ActivityFrame, WordJoins
  <2> QED
    BY <2>1, <2>4, <2>6, Zenon
<1>2. ASSUME \A g \in Gen : ~BoxOpens(g)
      PROVE  /\ gen' = gen /\ gen \in Gen /\ gen # 0 /\ BothOpen(gen) /\ up[gen] \in Seq(UpFrame)
             /\ TrueWord(up[gen], busy[gen], agents)
  <2>1. gen' = gen /\ gate[gen] = "open" /\ box[gen] = "open"
    <3>1. CASE UNCHANGED <<gen, box, gate, current>>
      BY <1>0, <3>1
    <3>2. CASE Dial
      BY <1>0, <3>2, Dialled
    <3>3. ASSUME NEW g \in Gen, Accept(g) \/ BoxCloses(g) PROVE FALSE
      BY <1>0, <3>3, Accepted, BoxClosed
    <3>4. ASSUME NEW g \in Gen, GateCloses(g) PROVE gen' = gen /\ gate[gen] = "open" /\ box[gen] = "open"
      BY <1>0, <3>4, GateClosed
    <3> QED
      BY <1>2, <3>1, <3>2, <3>3, <3>4, WireChanges DEF WireActs
  <2> QED
    BY <1>0, <2>1 DEF BusyInv, BothOpen, FrameTypes
<1>3. ASSUME \A g \in Gen : ~BoxOpens(g), up'[gen] = up[gen], busy'[gen] = busy[gen],
             agents' # {} <=> agents # {}
      PROVE  TrueWord(up[gen], busy[gen], agents)'
  <2>1. TrueWord(up[gen], busy[gen], agents) => TrueWord(up[gen], busy[gen], agents')
    BY <1>3 DEF TrueWord
  <2> QED
    BY <1>2, <1>3, <2>1, Zenon
<1>4. ASSUME NEW g \in Gen, Hears(g) PROVE TrueWord(up[gen], busy[gen], agents)'
  <2>1. \A k \in Gen : ~BoxOpens(k)
    BY <1>0, <1>4, StreamsHear, BoxOpened
  <2>2. agents' = agents /\ gen' = gen
    BY <1>4, StreamsHear
  <2>3. HearActivity(g) \/ busy' = busy
    BY <1>4 DEF Hears, HearHttp, HearOpened, HearFailed, HearMessage, HearClosed
  <2>4. CASE g # gen
    <3>1. up'[gen] = up[gen] /\ busy'[gen] = busy[gen]
      BY <1>0, <1>2, <1>4, <2>1, <2>3, <2>4, Comings, Heard, ActivityHeard
    <3> QED
      BY <1>3, <2>1, <2>2, <3>1
  <2>5. CASE g = gen
    <3>1. up[gen] \in Seq(UpFrame) /\ up[gen] # <<>> /\ up'[gen] = Tail(up[gen])
      BY <1>0, <1>4, <2>5, Comings, Heard
    <3>2. PICK w : w = up'[gen]
      OBVIOUS
    <3>3. /\ Word(Head(up[gen])) => TrueWord(w, Head(up[gen]).t = "busy", agents)
          /\ ~Word(Head(up[gen])) => TrueWord(w, busy[gen], agents)
      BY <1>2, <2>1, <3>1, <3>2, WordHeard
    <3>4. CASE HearActivity(g)
      <4>1. Word(Head(up[gen])) /\ busy'[gen] = (Head(up[gen]).t = "busy")
        BY <2>5, <3>4, ActivityHeard
      <4>2. TrueWord(w, Head(up[gen]).t = "busy", agents)
        BY <3>3, <4>1
      <4> QED
        BY <2>2, <3>2, <4>1, <4>2, Zenon
    <3>5. CASE ~HearActivity(g)
      <4>1. ~Word(Head(up[gen]))
        BY <1>4, <2>5, <3>5
           DEF Hears, HearHttp, HearOpened, HearFailed, HearMessage, HearClosed, Comes, Word
      <4>2. TrueWord(w, busy[gen], agents) /\ busy' = busy
        BY <2>3, <3>3, <3>5, <4>1
      <4> QED
        BY <2>2, <3>2, <4>2, Zenon
    <3> QED
      BY <3>4, <3>5
  <2> QED
    BY <2>4, <2>5
<1>5. ASSUME NEW s \in Stream, LocalActs(s) PROVE TrueWord(up[gen], busy[gen], agents)'
  <2>1. UNCHANGED <<gen, box, gate, busy, agents>>
    BY <1>5, LocalSteps DEF wire
  <2>2. \A k \in Gen : ~BoxOpens(k)
    BY <2>1, BoxOpened
  <2>3. PICK fs \in Seq(UpFrame) : up' = Upward(fs) /\ \A f \in UnderWay(fs) : ~Word(f)
    BY <1>5, LocalSteps DEF Says
  <2>4. up'[gen] = Join(up[gen], fs)
    BY <1>0, <1>2, <2>2, <2>3, SentUp
  <2>5. PICK w : w = up'[gen]
    OBVIOUS
  <2>6. TrueWord(w, busy[gen], agents)
    BY <1>2, <2>2, <2>3, <2>4, <2>5, OthersJoin
  <2> QED
    BY <2>1, <2>5, <2>6, Zenon
<1>6. ASSUME NEW next, AgentsBecome(next) PROVE TrueWord(up[gen], busy[gen], agents)'
  <2>1. UNCHANGED <<gen, box, gate, busy>>
    BY <1>6 DEF AgentsBecome, wire
  <2>2. \A k \in Gen : ~BoxOpens(k)
    BY <2>1, BoxOpened
  <2>3. CASE up' = up /\ (agents' # {} <=> agents # {})
    BY <1>3, <2>1, <2>2, <2>3
  <2>4. ASSUME NEW f \in UpFrame, Word(f), (f.t = "busy" <=> agents' # {}),
               <<f>> \in Seq(UpFrame), up' = Upward(<<f>>)
        PROVE  TrueWord(up[gen], busy[gen], agents)'
    <3>1. up'[gen] = Join(up[gen], <<f>>)
      BY <1>0, <1>2, <2>2, <2>4, SentUp
    <3>2. PICK w : w = up'[gen]
      OBVIOUS
    <3>3. f.t = "busy" <=> agents' # {}
      BY <2>4
    <3>4. TrueWord(w, busy[gen], agents')
      BY <1>2, <2>2, <2>4, <3>1, <3>2, <3>3, WordJoins
    <3> QED
      BY <2>1, <3>2, <3>4, Zenon
  <2> QED
    BY <1>6, <2>3, <2>4, AgentsSay
<1>7. CASE Dial \/ Start \/ Stop
  BY <1>2, <1>3, <1>7, Dialled, Started, Stopped, BoxOpened
<1>8. ASSUME NEW g \in Gen, WireActs(g) PROVE TrueWord(up[gen], busy[gen], agents)'
  <2>1. CASE ~BoxOpens(g)
    <3>1. \A k \in Gen : ~BoxOpens(k)
      BY <1>8, <2>1, Accepted, BoxClosed, GateClosed, BoxOpened DEF WireActs
    <3>2. up'[gen] = up[gen] /\ UNCHANGED <<busy, agents>>
      BY <1>0, <1>2, <1>8, <2>1, <3>1, Accepted, BoxClosed, GateClosed DEF WireActs
    <3> QED
      BY <1>3, <3>1, <3>2
  <2> QED
    BY <1>1, <2>1
<1>9. ASSUME NEW s \in Stream, Registers(s) \/ EndsForBrowser(s) \/ WaitsNoLonger(s)
      PROVE  TrueWord(up[gen], busy[gen], agents)'
  BY <1>3, <1>9, Registered, EndedForBrowser, WaitedNoLonger, BoxOpened
<1> QED
  BY <1>0, <1>4, <1>5, <1>6, <1>7, <1>8, <1>9, Steps

-----------------------------------------------------------------------------
(***************************************************************************)
(* Messages.                                                               *)
(***************************************************************************)
LEMMA RisingTail ==
  ASSUME NEW S, NEW q \in Seq(S), q # <<>>, Rising(q), NEW w, w = Tail(q)
  PROVE  /\ Rising(w)
         /\ \A f \in UnderWay(w) : f.t = "wsmsg" /\ Head(q).t = "wsmsg" /\ f.id = Head(q).id
              => Head(q).n < f.n
<1>1. /\ Len(q) \in Nat \ {0} /\ DOMAIN q = 1 .. Len(q) /\ DOMAIN w = 1 .. Len(q) - 1
      /\ Len(w) = Len(q) - 1 /\ Head(q) = q[1] /\ 1 \in DOMAIN q
      /\ \A i \in 1 .. Len(q) - 1 : w[i] = q[i + 1]
  BY Dequeued
<1>2. \A i \in DOMAIN w : i + 1 \in DOMAIN q /\ 1 < i + 1 /\ w[i] = q[i + 1]
  BY <1>1
<1>3. ASSUME NEW i \in DOMAIN w, NEW j \in DOMAIN w, i < j,
             w[i].t = "wsmsg", w[j].t = "wsmsg", w[i].id = w[j].id
      PROVE  w[i].n < w[j].n
  <2>1. i + 1 < j + 1
    BY <1>1, <1>3
  <2> QED
    BY <1>2, <1>3, <2>1 DEF Rising
<1>4. ASSUME NEW i \in 1 .. Len(w), w[i].t = "wsmsg", Head(q).t = "wsmsg", w[i].id = Head(q).id
      PROVE  Head(q).n < w[i].n
  BY <1>1, <1>2, <1>4 DEF Rising
<1> QED
  BY <1>3, <1>4 DEF Rising, UnderWay

LEMMA RisingOthers ==
  ASSUME NEW S, NEW q \in Seq(S), NEW fs \in Seq(S), NEW w, w = Join(q, fs),
         \A f \in UnderWay(fs) : f.t # "wsmsg", Rising(q)
  PROVE  Rising(w)
<1>1. /\ Len(q) \in Nat /\ Len(fs) \in Nat
      /\ DOMAIN q = 1 .. Len(q) /\ DOMAIN w = 1 .. Len(q) + Len(fs)
      /\ \A i \in 1 .. Len(q) + Len(fs) : w[i] = IF i <= Len(q) THEN q[i] ELSE fs[i - Len(q)]
  BY DEF Join
<1>2. \A i \in 1 .. Len(fs) : fs[i].t # "wsmsg"
  BY DEF UnderWay
<1>3. \A i \in DOMAIN w : (i \in DOMAIN q /\ w[i] = q[i]) \/ w[i].t # "wsmsg"
  <2> SUFFICES ASSUME NEW i \in DOMAIN w, i \notin DOMAIN q PROVE w[i].t # "wsmsg"
    BY <1>1
  <2>1. i - Len(q) \in 1 .. Len(fs) /\ ~(i <= Len(q))
    BY <1>1
  <2>2. w[i] = fs[i - Len(q)]
    BY <1>1, <2>1
  <2> QED
    BY <1>2, <2>1, <2>2
<1> QED
  BY <1>3 DEF Rising

LEMMA RisingOne ==
  ASSUME NEW S, NEW q \in Seq(S), NEW f \in S, NEW w, w = Join(q, <<f>>), Rising(q),
         \A e \in UnderWay(q) : e.t = "wsmsg" /\ e.id = f.id => e.n < f.n
  PROVE  Rising(w)
<1>1. /\ Len(q) \in Nat /\ DOMAIN q = 1 .. Len(q)
      /\ \A i \in 1 .. Len(q) : w[i] = q[i]
      /\ w[Len(q) + 1] = f /\ DOMAIN w = 1 .. Len(q) + 1
  BY JoinedOne
<1> SUFFICES ASSUME NEW i \in DOMAIN w, NEW j \in DOMAIN w, i < j,
                    w[i].t = "wsmsg", w[j].t = "wsmsg", w[i].id = w[j].id
             PROVE  w[i].n < w[j].n
  BY DEF Rising
<1>2. i \in DOMAIN q /\ w[i] = q[i]
  BY <1>1
<1>3. CASE j \in DOMAIN q
  BY <1>1, <1>2, <1>3 DEF Rising
<1>4. CASE j = Len(q) + 1
  BY <1>1, <1>2, <1>4 DEF UnderWay
<1> QED
  BY <1>1, <1>3, <1>4

\* What pushes: nothing, or the next message on a socket that is open.
LEMMA SentSteps ==
  ASSUME Types, BoxInv, Next
  PROVE  \/ sent' = sent
         \/ \E s \in Ws : /\ LocalActs(s) /\ local[s] = "open" /\ s \in mapped
                          /\ sent' = [sent EXCEPT ![s] = sent[s] + 1]
<1>1. ASSUME NEW s \in Stream, LocalActs(s), sent' # sent
      PROVE  s \in Ws /\ local[s] = "open" /\ sent' = [sent EXCEPT ![s] = sent[s] + 1]
  BY <1>1, LocalSteps DEF Pushed
<1>2. \A s \in Stream : local[s] = "open" => s \in mapped
  BY DEF BoxInv
<1> QED
  BY <1>1, <1>2, InsideSteps, Started, Stopped DEF BoxCloses, Abandon

LEMMA SentGrows ==
  ASSUME Types, BoxInv, Next, NEW w \in Ws
  PROVE  sent[w] \in Nat /\ sent'[w] \in Nat /\ sent[w] <= sent'[w]
<1>1. \A v \in Ws : sent[v] \in Nat
  BY BoundsAssumed DEF Types, BoxTypes
<1>2. \A v \in Ws, s \in Ws : sent' = [sent EXCEPT ![s] = sent[s] + 1] =>
        sent'[v] = sent[v] \/ sent'[v] = sent[v] + 1
  BY DEF Types, BoxTypes
<1>3. sent'[w] = sent[w] \/ sent'[w] = sent[w] + 1
  BY <1>2, SentSteps
<1> QED
  BY <1>1, <1>3

LEMMA MessageKept ==
  ASSUME Types, WireInv, StreamInv, BoxInv, UpInv, DownInv, MessageInv, Next
  PROVE  MessageInv'
<1>0. WireTypes /\ FrameTypes /\ \A k \in Gen : k # 0 /\ up[k] \in Seq(UpFrame) /\ Rising(up[k])
  BY Dials DEF Types, FrameTypes, MessageInv
<1>1. ASSUME NEW g \in Gen, NEW f \in UnderWay(up'[g]), f.t = "wsmsg"
      PROVE  on'[f.id] = g /\ f.n <= sent'[f.id]
  <2>1. CASE f \in UnderWay(up[g])
    <3>1. f \in UpFrame /\ on[f.id] = g /\ f.n <= sent[f.id]
      BY <1>0, <1>1, <2>1, InSequence DEF MessageInv
    <3>2. PICK w \in Ws : w = f.id
      BY <1>1, <3>1, Kinds DEF UpFrame
    <3>3. on'[w] = g
      BY <1>0, <3>1, <3>2, OnKept, Registered, Kinds DEF StreamInv
    <3>4. f.n \in Nat /\ sent[w] \in Nat /\ sent'[w] \in Nat /\ sent[w] <= sent'[w]
      BY <3>1, SentGrows, BoundsAssumed DEF UpFrame, Frame
    <3> QED
      BY <3>1, <3>2, <3>3, <3>4
  <2>2. CASE Word(f)
    BY <1>1, <2>2 DEF Word
  <2>3. ASSUME g = gen, NEW s \in Stream, NEW fs \in Seq(UpFrame), LocalActs(s), Pushed(s, fs),
               f \in UnderWay(fs)
        PROVE  on'[f.id] = g /\ f.n <= sent'[f.id]
    <3>1. PICK m \in UpFrame : Message(m, s) /\ m.n = sent'[s] /\ fs = <<m>> /\ s \in Ws
                               /\ local[s] = "open"
      BY <1>1, <2>3 DEF Pushed
    <3>2. UnderWay(fs) = {m}
      BY <3>1, Single
    <3>3. f.id = s /\ f.n = sent'[s]
      BY <2>3, <3>1, <3>2 DEF Message
    <3>4. on[s] = gen /\ on' = on
      BY <2>3, <3>1, LocalSteps DEF BoxInv, streams
    <3> QED
      BY <2>3, <3>1, <3>3, <3>4, SentGrows
  <2> QED
    BY <2>1, <2>2, <2>3, UpGains
<1>2. ASSUME NEW g \in Gen PROVE Rising(up'[g])
  <2>1. CASE up'[g] = up[g]
    BY <1>0, <2>1
  <2>2. ASSUME NEW k \in Gen, Hears(k) PROVE Rising(up'[g])
    <3>1. up'[g] = up[g] \/ (up[g] # <<>> /\ up'[g] = Tail(up[g]))
      BY <1>0, <2>2, Comings, Heard
    <3> QED
      BY <1>0, <2>1, <3>1, RisingTail
  <2>3. ASSUME NEW fs \in Seq(UpFrame), \A f \in UnderWay(fs) : f.t # "wsmsg", up' = Upward(fs)
        PROVE  Rising(up'[g])
    <3>1. up'[g] = up[g] \/ up'[g] = Join(up[g], fs)
      BY <1>0, <2>3, SentUp
    <3> QED
      BY <1>0, <2>1, <2>3, <3>1, RisingOthers
  <2>4. ASSUME NEW k \in Gen, BoxOpens(k) PROVE Rising(up'[g])
    <3>1. up'[g] = up[g] \/ up'[g] = With(up[g], Activity)
      BY <2>4, Opens
    <3>2. ASSUME up'[g] = With(up[g], Activity) PROVE Rising(up'[g])
      <4>1. up'[g] = Join(up[g], <<Activity>>)
        BY <3>2 DEF With, Join
      <4>2. Activity \in UpFrame /\ Activity.t # "wsmsg"
        BY ActivityFrame DEF Word
      <4>3. <<Activity>> \in Seq(UpFrame) /\ UnderWay(<<Activity>>) = {Activity}
        BY <4>2, Single
      <4>4. PICK fs : fs = <<Activity>>
        OBVIOUS
      <4>5. fs \in Seq(UpFrame) /\ (\A f \in UnderWay(fs) : f.t # "wsmsg")
            /\ up'[g] = Join(up[g], fs)
        BY <4>1, <4>2, <4>3, <4>4
      <4> QED
        BY <1>0, <4>5, RisingOthers
    <3> QED
      BY <2>1, <3>1, <3>2
  <2>5. ASSUME NEW k \in Gen, GateCloses(k) PROVE Rising(up'[g])
    <3>1. up'[g] = up[g] \/ up'[g] = <<>>
      BY <2>5, GateClosed
    <3> QED
      BY <2>1, <3>1, Nothing DEF Rising
  <2>6. ASSUME NEW next, AgentsBecome(next) PROVE Rising(up'[g])
    <3>1. up' = up \/ \E f \in UpFrame : Word(f) /\ <<f>> \in Seq(UpFrame) /\ up' = Upward(<<f>>)
      BY <2>6, AgentsSay
    <3>2. ASSUME NEW f \in UpFrame, Word(f), <<f>> \in Seq(UpFrame), up' = Upward(<<f>>)
          PROVE  Rising(up'[g])
      <4>1. UnderWay(<<f>>) = {f} /\ f.t # "wsmsg"
        BY <3>2, Single DEF Word
      <4> QED
        BY <2>3, <3>2, <4>1
    <3> QED
      BY <2>1, <3>1, <3>2
  <2>7. ASSUME NEW s \in Stream, LocalActs(s) PROVE Rising(up'[g])
    <3>1. PICK fs \in Seq(UpFrame) : up' = Upward(fs) /\ Pushed(s, fs)
      BY <2>7, LocalSteps
    <3>2. CASE \A f \in UnderWay(fs) : f.t # "wsmsg"
      BY <2>3, <3>1, <3>2
    <3>3. ASSUME NEW m \in UpFrame, Message(m, s), m.n = sent'[s], fs = <<m>>, s \in Ws,
                 sent'[s] = sent[s] + 1
          PROVE  Rising(up'[g])
      <4>1. up'[g] = up[g] \/ up'[g] = Join(up[g], <<m>>)
        BY <1>0, <3>1, <3>3, SentUp
      <4>2. \A e \in UnderWay(up[g]) : e \in UpFrame /\ (e.t = "wsmsg" => e.n <= sent[e.id])
        BY <1>0, InSequence DEF MessageInv
      <4>3. \A e \in UnderWay(up[g]) : e.t = "wsmsg" /\ e.id = m.id => e.n < m.n
        <5>1. sent[s] \in Nat /\ m.id = s /\ m.n = sent[s] + 1
          BY <3>3, SentGrows DEF Message
        <5>2. \A e \in UpFrame : e.n \in Nat
          BY BoundsAssumed DEF UpFrame, Frame
        <5> QED
          BY <4>2, <5>1, <5>2
      <4> QED
        BY <1>0, <2>1, <4>1, <4>3, RisingOne
    <3> QED
      BY <3>1, <3>2, <3>3 DEF Pushed
  <2> QED
    BY <2>1, <2>2, <2>4, <2>5, <2>6, <2>7, UpSteps
<1> QED
  BY <1>1, <1>2 DEF MessageInv

LEMMA CountsOn ==
  ASSUME NEW q \in Seq(Nat), Counts(q), NEW n, n = Len(q) + 1, NEW w, w = With(q, n)
  PROVE  Counts(w) /\ Len(w) = Len(q) + 1 /\ Len(q) \in Nat
<1>1. /\ Len(q) \in Nat /\ DOMAIN q = 1 .. Len(q) /\ DOMAIN w = 1 .. Len(q) + 1
      /\ Len(w) = Len(q) + 1
      /\ \A i \in 1 .. Len(q) : w[i] = q[i]
      /\ w[Len(q) + 1] = n
  BY DEF With
<1> QED
  BY <1>1 DEF Counts

LEMMA HadCounts ==
  ASSUME Types, NEW w \in Ws
  PROVE  /\ Had(w) \in Nat /\ Had(w) = Len(got[w]) + Len(pending[w])
         /\ Len(got[w]) \in Nat /\ Len(pending[w]) \in Nat
         /\ got[w] \in Seq(Nat) /\ pending[w] \in Seq(Nat)
         /\ (Len(pending[w]) = 0 => Had(w) = Len(got[w]))
         /\ (Len(got[w]) = 0 => Had(w) = Len(pending[w]))
         /\ (Len(pending[w]) >= MaxPending => Had(w) >= MaxPending)
<1>1. got[w] \in Seq(1 .. MaxInputs) /\ pending[w] \in Seq(1 .. MaxInputs)
  BY DEF Types, StreamTypes
<1>2. Len(got[w]) \in Nat /\ Len(pending[w]) \in Nat
  BY <1>1
<1>3. got[w] \in Seq(Nat) /\ pending[w] \in Seq(Nat)
  BY <1>1, BoundsAssumed
<1>4. ASSUME NEW a \in Nat, NEW b \in Nat, NEW c, c = a + b
      PROVE  c \in Nat /\ (b = 0 => c = a) /\ (a = 0 => c = b) /\ (b >= MaxPending => c >= MaxPending)
  BY <1>4, BoundsAssumed
<1>5. Had(w) = Len(got[w]) + Len(pending[w])
  BY DEF Had
<1>6. /\ Had(w) \in Nat /\ (Len(pending[w]) = 0 => Had(w) = Len(got[w]))
      /\ (Len(got[w]) = 0 => Had(w) = Len(pending[w]))
      /\ (Len(pending[w]) >= MaxPending => Had(w) >= MaxPending)
  BY <1>2, <1>4, <1>5, Zenon
<1> QED
  BY <1>2, <1>3, <1>5, <1>6

SameMessages(w) ==
  \A f : Message(f, w) => (f \in UnderWay(up[on[w]]) <=> f \in UnderWay(up'[on[w]]))

\* What no message and no attaching touches stays as it was.
LEMMA EventStill ==
  ASSUME NEW w, EventAt(w),
         sent'[w] = sent[w], pending'[w] = pending[w], got'[w] = got[w],
         told'[w] \in {"idle", "waiting", "left"} => told[w] \in {"idle", "waiting", "left"},
         told'[w] \in {"idle", "begun"} => told'[w] = told[w],
         local'[w] \in {"none", "started"} => local[w] \in {"none", "started"},
         w \in reg' => w \in reg /\ on'[w] = on[w] /\ SameMessages(w)
  PROVE  EventAt(w)'
<1>1. sent'[w] = sent[w] /\ pending'[w] = pending[w] /\ got'[w] = got[w]
  OBVIOUS
<1>2. /\ told'[w] \in {"idle", "waiting", "left"} => got'[w] = <<>>
      /\ told'[w] \in {"idle", "begun"} => pending'[w] = <<>>
      /\ local'[w] \in {"none", "started"} => sent'[w] = 0
      /\ sent'[w] <= MaxPending + 1 => Counts(got'[w])
  BY <1>1 DEF EventAt
<1>3. ASSUME w \in reg', sent'[w] <= MaxPending + 1 PROVE Complete(w)'
  <2>1. Complete(w) /\ on'[w] = on[w] /\ SameMessages(w)
    BY <1>1, <1>3 DEF EventAt
  <2>2. Had(w)' = Had(w)
    BY <1>1 DEF Had
  <2>3. Counts(pending[w])' /\ Had(w)' <= sent'[w]
    BY <1>1, <2>1, <2>2 DEF Complete
  <2>4. \A f \in UnderWay(up'[on'[w]]) : Message(f, w) => f.n > Had(w)'
    BY <2>1, <2>2 DEF Complete, SameMessages
  <2>5. \/ Had(w)' >= MaxPending
        \/ \A n \in Had(w)' + 1 .. sent'[w] : \E f \in UnderWay(up'[on'[w]]) : Message(f, w) /\ f.n = n
    BY <1>1, <2>1, <2>2 DEF Complete, SameMessages
  <2> QED
    BY <2>3, <2>4, <2>5 DEF Complete
<1> QED
  BY <1>2, <1>3 DEF EventAt

LEMMA MessagesStay ==
  ASSUME Types, Next, NEW w \in Ws, on[w] \in Gen, sent'[w] = sent[w], ~GateCloses(on[w]),
         ~(Hears(on[w]) /\ Message(Head(up[on[w]]), w))
  PROVE  SameMessages(w)
<1> SUFFICES ASSUME NEW f, Message(f, w)
             PROVE  f \in UnderWay(up[on[w]]) <=> f \in UnderWay(up'[on[w]])
  BY DEF SameMessages
<1>0. sent[w] \in Nat
  BY BoundsAssumed DEF Types, BoxTypes
<1>1. f \in UnderWay(up[on[w]]) => f \in UnderWay(up'[on[w]])
  BY UpLoses
<1>2. ASSUME f \in UnderWay(up'[on[w]]) PROVE f \in UnderWay(up[on[w]])
  <2>1. CASE Word(f)
    BY <2>1 DEF Word, Message
  <2>2. ASSUME NEW s \in Stream, NEW fs \in Seq(UpFrame), Pushed(s, fs), f \in UnderWay(fs)
        PROVE  FALSE
    <3>1. PICK m \in UpFrame : Message(m, s) /\ fs = <<m>> /\ sent'[s] = sent[s] + 1
      BY <2>2 DEF Pushed, Message
    <3>2. UnderWay(fs) = {m}
      BY <3>1, Single
    <3>3. s = w
      BY <2>2, <3>1, <3>2 DEF Message
    <3> QED
      BY <1>0, <3>1, <3>3
  <2> QED
    BY <1>2, <2>1, <2>2, UpGains
<1> QED
  BY <1>1, <1>2

\* A push on w, whose tunnel is up if the gateway knows of w.
LEMMA EventPushed ==
  ASSUME Types, WireInv, StreamInv, BoxInv, MessageInv, NEW w \in Ws, EventAt(w),
         LocalActs(w), sent'[w] # sent[w]
  PROVE  EventAt(w)'
<1>0. /\ WireTypes /\ FrameTypes /\ w \in Stream /\ w \notin Http
      /\ \A s \in Ws : sent[s] \in Nat
  BY Kinds, BoundsAssumed DEF Types, BoxTypes
<1>1. /\ UNCHANGED <<on, reg, told, pending, got>>
      /\ local'[w] \notin {"none", "started"}
  BY <1>0, LocalSteps DEF streams
<1>2. PICK fs \in Seq(UpFrame), m \in UpFrame :
        /\ up' = Upward(fs) /\ Message(m, w) /\ m.n = sent'[w] /\ fs = <<m>>
        /\ sent'[w] = sent[w] + 1 /\ local[w] = "open"
  BY <1>0, LocalSteps DEF Pushed
<1>3. \A k \in Nat : k + 1 <= MaxPending + 1 => k <= MaxPending + 1
  BY BoundsAssumed
<1>4. sent'[w] <= MaxPending + 1 => sent[w] <= MaxPending + 1
  BY <1>0, <1>2, <1>3
<1>5. ASSUME w \in reg, sent'[w] <= MaxPending + 1 PROVE Complete(w)'
  <2>1. Complete(w) /\ Had(w)' = Had(w) /\ on' = on
    BY <1>1, <1>4, <1>5 DEF EventAt, Had
  <2>2. on[w] = gen /\ gen # 0 /\ box[gen] = "open" /\ gate[gen] = "open"
    BY <1>0, <1>2, <1>5 DEF BoxInv, StreamInv, WireInv
  <2>3. gen \in Gen /\ BothOpen(gen)
    BY <1>0, <2>2, Dials DEF BothOpen
  <2>4. UnderWay(up'[gen]) = UnderWay(up[gen]) \cup {m}
    <3>1. up' = Upward(fs) /\ UnderWay(fs) = {m}
      BY <1>2, Single
    <3>2. UnderWay(up'[gen]) = UnderWay(up[gen]) \cup UnderWay(fs)
      BY <1>0, <2>2, <2>3, <3>1, SentUp
    <3> QED
      BY <3>1, <3>2
  <2>5. Had(w) \in Nat /\ Had(w) <= sent[w]
    BY <2>1, HadCounts DEF Complete
  <2>6. Counts(pending[w])' /\ Had(w)' <= sent'[w]
    BY <1>0, <1>1, <1>2, <2>1, <2>5 DEF Complete
  <2>7. ASSUME NEW f \in UnderWay(up'[gen]), Message(f, w) PROVE f.n > Had(w)'
    <3>1. CASE f \in UnderWay(up[gen])
      BY <2>1, <2>2, <2>7, <3>1 DEF Complete
    <3>2. CASE f = m
      BY <1>0, <1>2, <2>1, <2>5, <3>2
    <3> QED
      BY <2>4, <3>1, <3>2
  <2>8. ASSUME ~(Had(w) >= MaxPending), NEW n \in Had(w) + 1 .. sent'[w]
        PROVE  \E f \in UnderWay(up'[gen]) : Message(f, w) /\ f.n = n
    <3>1. CASE n \in Had(w) + 1 .. sent[w]
      <4>1. PICK f \in UnderWay(up[gen]) : Message(f, w) /\ f.n = n
        BY <2>1, <2>2, <2>8, <3>1 DEF Complete
      <4> QED
        BY <2>4, <4>1
    <3>2. CASE n = sent[w] + 1
      BY <1>2, <2>4, <3>2
    <3> QED
      BY <1>0, <1>2, <2>5, <2>8, <3>1, <3>2
  <2> QED
    BY <1>0, <1>2, <2>1, <2>2, <2>6, <2>7, <2>8, LocalSteps DEF Complete, wire
<1> QED
  BY <1>1, <1>4, <1>5 DEF EventAt

\* The first message under way that is about w is the next one.
LEMMA NextOne ==
  ASSUME Types, NEW w \in Ws, NEW f, Message(f, w), on[w] \in Gen,
         up[on[w]] # <<>>, f = Head(up[on[w]]), Rising(up[on[w]]),
         \A e \in UnderWay(up[on[w]]) : e.t = "wsmsg" => e.n <= sent[e.id],
         Complete(w), sent[w] <= MaxPending + 1, NEW q, q = Tail(up[on[w]])
  PROVE  /\ f.n = Had(w) + 1 /\ Had(w) \in Nat /\ f.n <= sent[w] /\ sent[w] \in Nat
         /\ \A e \in UnderWay(q) : Message(e, w) => e.n > f.n
         /\ \/ Had(w) + 1 >= MaxPending
            \/ \A n \in Had(w) + 2 .. sent[w] : \E e \in UnderWay(q) : Message(e, w) /\ e.n = n
<1>1. /\ up[on[w]] \in Seq(UpFrame) /\ f \in UpFrame /\ f \in UnderWay(up[on[w]])
      /\ UnderWay(q) \subseteq UnderWay(up[on[w]])
      /\ UnderWay(up[on[w]]) \subseteq UnderWay(q) \cup {f}
  <2>1. up[on[w]] \in Seq(UpFrame)
    BY DEF Types, FrameTypes
  <2> QED
    BY <2>1, Dequeued
<1>2. f.n \in Nat /\ sent[w] \in Nat /\ f.n <= sent[w]
  BY <1>1, BoundsAssumed DEF UpFrame, Frame, Message, Types, BoxTypes
<1>3. Had(w) \in Nat
  BY HadCounts
<1>4. \A e \in UnderWay(q) : Message(e, w) => f.n < e.n
  BY <1>1, RisingTail DEF Message
<1>5. \A e \in UnderWay(q) : Message(e, w) => e.n \in Nat /\ e.n > f.n
  <2>1. \A e \in UnderWay(q) : e \in UpFrame
    BY <1>1, InSequence
  <2>2. \A e \in UpFrame : e.n \in Nat
    BY BoundsAssumed DEF UpFrame, Frame
  <2> QED
    BY <1>2, <1>4, <2>1, <2>2
<1>6. f.n > Had(w)
  BY <1>1 DEF Complete
<1>7. f.n = Had(w) + 1
  <2>1. CASE Had(w) >= MaxPending
    BY <1>2, <1>3, <1>6, <2>1, BoundsAssumed
  <2>2. CASE \A n \in Had(w) + 1 .. sent[w] :
               \E e \in UnderWay(up[on[w]]) : Message(e, w) /\ e.n = n
    <3>1. Had(w) + 1 \in Had(w) + 1 .. sent[w]
      BY <1>2, <1>3, <1>6
    <3>2. PICK e \in UnderWay(up[on[w]]) : Message(e, w) /\ e.n = Had(w) + 1
      BY <2>2, <3>1
    <3>3. e = f \/ e.n > f.n
      BY <1>1, <1>5, <3>2
    <3> QED
      BY <1>2, <1>3, <1>6, <3>2, <3>3
  <2> QED
    BY <2>1, <2>2 DEF Complete
<1>8. ASSUME ~(Had(w) + 1 >= MaxPending), NEW n \in Had(w) + 2 .. sent[w]
      PROVE  \E e \in UnderWay(q) : Message(e, w) /\ e.n = n
  <2>1. ~(Had(w) >= MaxPending) /\ n \in Had(w) + 1 .. sent[w] /\ n # Had(w) + 1
    BY <1>2, <1>3, <1>8, BoundsAssumed
  <2>2. PICK e \in UnderWay(up[on[w]]) : Message(e, w) /\ e.n = n
    BY <2>1 DEF Complete
  <2>3. e # f
    BY <1>7, <2>1, <2>2
  <2> QED
    BY <1>1, <2>2, <2>3
<1> QED
  BY <1>2, <1>3, <1>5, <1>7, <1>8

\* A message on w is heard while the gateway knows of w.
LEMMA EventHeard ==
  ASSUME Types, StreamInv, MessageInv, NEW w \in Ws, EventAt(w), w \in reg, on[w] \in Gen,
         HearMessage(on[w]), Message(Head(up[on[w]]), w)
  PROVE  EventAt(w)'
<1>0. /\ w \in Stream /\ FrameTypes
      /\ told[w] \in {"waiting", "begun", "left"}
  BY Kinds DEF Types, StreamInv
<1>1. PICK f \in UpFrame :
        /\ f = Head(up[on[w]]) /\ Message(f, w) /\ f.n \in Nat
        /\ \/ told[w] = "begun" /\ got'[w] = With(got[w], f.n) /\ pending' = pending
           \/ told[w] # "begun" /\ got' = got /\ Len(pending[w]) < MaxPending
              /\ pending'[w] = With(pending[w], f.n)
           \/ UNCHANGED <<pending, got>> /\ Len(pending[w]) >= MaxPending
  <2>1. PICK f \in UpFrame, v \in Ws :
              /\ f = Head(up[on[w]]) /\ Message(f, v) /\ f.n \in Nat \ {0}
              /\ \/ Known(on[w], v) /\ told[v] = "begun" /\ got'[v] = With(got[v], f.n)
                    /\ pending' = pending
                 \/ Known(on[w], v) /\ told[v] \notin {"begun", "closing"} /\ got' = got
                    /\ Len(pending[v]) < MaxPending /\ pending'[v] = With(pending[v], f.n)
                 \/ UNCHANGED <<pending, got>>
                    /\ (Known(on[w], v) => told[v] = "closing" \/ Len(pending[v]) >= MaxPending)
    BY MessageHeard
  <2>2. v = w
    BY <2>1 DEF Message
  <2>3. Known(on[w], w)
    BY DEF Known
  <2> QED
    BY <1>0, <2>1, <2>2, <2>3
<1>2. UNCHANGED <<on, reg, told, local, sent>>
  BY MessageHeard
<1>3. up[on[w]] \in Seq(UpFrame) /\ up[on[w]] # <<>> /\ up'[on[w]] = Tail(up[on[w]])
  BY <1>0, Heard DEF HearMessage
<1>4. /\ Had(w) \in Nat /\ Had(w) = Len(got[w]) + Len(pending[w])
      /\ Len(got[w]) \in Nat /\ Len(pending[w]) \in Nat
      /\ got[w] \in Seq(Nat) /\ pending[w] \in Seq(Nat)
      /\ (Len(pending[w]) = 0 => Had(w) = Len(got[w]))
      /\ (Len(got[w]) = 0 => Had(w) = Len(pending[w]))
      /\ (Len(pending[w]) >= MaxPending => Had(w) >= MaxPending)
  BY HadCounts
<1>5. CASE sent[w] <= MaxPending + 1
  <2>0. Complete(w) /\ Counts(got[w])
    BY <1>5 DEF EventAt
  <2>1. PICK q : q = up'[on[w]]
    OBVIOUS
  <2>2. /\ f.n = Had(w) + 1 /\ f.n <= sent[w] /\ sent[w] \in Nat
        /\ \A e \in UnderWay(q) : Message(e, w) => e.n > f.n
        /\ \/ Had(w) + 1 >= MaxPending
           \/ \A n \in Had(w) + 2 .. sent[w] : \E e \in UnderWay(q) : Message(e, w) /\ e.n = n
    <3>1. Rising(up[on[w]]) /\ \A e \in UnderWay(up[on[w]]) : e.t = "wsmsg" => e.n <= sent[e.id]
      BY DEF MessageInv
    <3>2. /\ Message(f, w) /\ f = Head(up[on[w]])
          /\ up[on[w]] # <<>> /\ q = Tail(up[on[w]])
      BY <1>1, <1>3, <2>1
    <3> QED
      BY <1>5, <2>0, <3>1, <3>2, NextOne
  <2>3. \A e \in UnderWay(q) : Message(e, w) => e.n \in Nat
    <3>1. UnderWay(q) \subseteq UnderWay(up[on[w]])
      BY <1>3, <2>1, Dequeued
    <3>2. \A e \in UnderWay(q) : e \in UpFrame
      BY <1>3, <3>1, InSequence
    <3> QED
      BY <3>2, BoundsAssumed DEF UpFrame, Frame
  <2>4. ASSUME Had(w)' = Had(w) + 1, Counts(pending[w])', Counts(got[w])',
               told[w] = "begun" => pending'[w] = <<>>, told[w] # "begun" => got'[w] = <<>>
        PROVE  EventAt(w)'
    <3>1. Had(w)' <= sent'[w]
      BY <1>2, <2>2, <2>4
    <3>2. \A e \in UnderWay(up'[on'[w]]) : Message(e, w) => e.n > Had(w)'
      BY <1>2, <2>1, <2>2, <2>4
    <3>3. Had(w)' + 1 = Had(w) + 2
      BY <1>4, <2>4
    <3>4. \/ Had(w)' >= MaxPending
          \/ \A n \in Had(w)' + 1 .. sent'[w] :
               \E e \in UnderWay(up'[on'[w]]) : Message(e, w) /\ e.n = n
      BY <1>2, <2>1, <2>2, <2>4, <3>3
    <3>5. Complete(w)'
      BY <2>4, <3>1, <3>2, <3>4 DEF Complete
    <3> QED
      BY <1>0, <1>2, <2>4, <3>5 DEF EventAt
  <2>5. CASE told[w] = "begun" /\ got'[w] = With(got[w], f.n) /\ pending' = pending
    <3>1. pending[w] = <<>> /\ Len(pending[w]) = 0 /\ Had(w) = Len(got[w])
      <4>1. pending[w] = <<>>
        BY <2>5 DEF EventAt
      <4> QED
        BY <1>4, <4>1, Nothing
    <3>2. f.n = Len(got[w]) + 1
      BY <2>2, <3>1
    <3>3. Counts(got'[w]) /\ Len(got'[w]) = Len(got[w]) + 1
      BY <1>4, <2>0, <2>5, <3>2, CountsOn
    <3>4. Had(w)' = Had(w) + 1
      BY <1>4, <2>5, <3>1, <3>3 DEF Had
    <3> QED
      BY <2>0, <2>4, <2>5, <3>1, <3>3, <3>4 DEF Complete
  <2>6. CASE told[w] # "begun" /\ got' = got /\ pending'[w] = With(pending[w], f.n)
    <3>1. got[w] = <<>> /\ Len(got[w]) = 0 /\ Had(w) = Len(pending[w])
      <4>1. got[w] = <<>>
        BY <1>0, <2>6 DEF EventAt
      <4> QED
        BY <1>4, <4>1, Nothing
    <3>2. f.n = Len(pending[w]) + 1
      BY <2>2, <3>1
    <3>3. Counts(pending'[w]) /\ Len(pending'[w]) = Len(pending[w]) + 1
      BY <1>4, <2>0, <2>6, <3>2, CountsOn DEF Complete
    <3>4. Had(w)' = Had(w) + 1
      BY <1>4, <2>6, <3>1, <3>3 DEF Had
    <3> QED
      BY <2>0, <2>4, <2>6, <3>1, <3>3, <3>4
  <2>7. CASE UNCHANGED <<pending, got>> /\ Len(pending[w]) >= MaxPending
    <3>1. Had(w)' = Had(w) /\ Had(w) >= MaxPending
      <4>1. Had(w)' = Had(w)
        BY <2>7 DEF Had
      <4> QED
        BY <1>4, <2>7, <4>1
    <3>2. \A e \in UnderWay(up'[on'[w]]) : Message(e, w) => e.n > Had(w)'
      <4>1. UnderWay(q) \subseteq UnderWay(up[on[w]])
        BY <1>3, <2>1, Dequeued
      <4> QED
        BY <1>2, <2>0, <2>1, <3>1, <4>1 DEF Complete
    <3>3. Complete(w)'
      BY <1>2, <2>0, <2>7, <3>1, <3>2 DEF Complete
    <3> QED
      BY <1>2, <2>7, <3>3 DEF EventAt
  <2> QED
    BY <1>1, <2>5, <2>6, <2>7
<1>6. CASE ~(sent[w] <= MaxPending + 1)
  <2>1. told[w] = "begun" => pending'[w] = <<>>
    BY <1>1 DEF EventAt
  <2>2. told[w] # "begun" => got'[w] = <<>>
    BY <1>0, <1>1 DEF EventAt
  <2> QED
    BY <1>0, <1>2, <1>6, <2>1, <2>2 DEF EventAt
<1> QED
  BY <1>5, <1>6

\* The upgrade is accepted and what was held is handed over.
Attaches(w) ==
  /\ WaitsNoLonger(w) /\ w \in reg /\ told[w] = "waiting" /\ told'[w] = "begun"
  /\ got'[w] = pending[w] /\ pending'[w] = <<>>

\* A message on w is heard while the gateway knows of w.
Receives(w) == w \in reg /\ HearMessage(on[w]) /\ Message(Head(up[on[w]]), w)

LEMMA EventAttached ==
  ASSUME Types, StreamInv, NEW w \in Ws, EventAt(w), Attaches(w)
  PROVE  EventAt(w)'
<1>0. w \in Stream
  BY Kinds
<1>1. UNCHANGED <<up, on, local, sent>>
  BY <1>0, WaitedNoLonger DEF Attaches
<1>2. /\ told'[w] = "begun" /\ got'[w] = pending[w] /\ pending'[w] = <<>> /\ w \in reg
      /\ got[w] = <<>>
      /\ local'[w] \in {"none", "started"} => sent'[w] = 0
  BY <1>1 DEF Attaches, EventAt
<1>3. ASSUME sent[w] <= MaxPending + 1 PROVE Complete(w)' /\ Counts(got[w])'
  <2>1. Complete(w)
    BY <1>2, <1>3 DEF EventAt
  <2>2. Had(w)' = Had(w)
    <3>1. Len(got[w]) = 0 /\ Len(pending'[w]) = 0
      BY <1>2, Nothing
    <3>2. Had(w) = Len(pending[w]) /\ Len(pending[w]) \in Nat
      BY <3>1, HadCounts
    <3>3. Had(w)' = Len(pending[w]) + 0
      BY <1>2, <3>1 DEF Had
    <3> QED
      BY <3>2, <3>3
  <2>3. Counts(got'[w]) /\ Counts(pending'[w])
    BY <1>2, <2>1, Nothing DEF Complete, Counts
  <2> QED
    BY <1>1, <2>1, <2>2, <2>3 DEF Complete
<1> QED
  BY <1>1, <1>2, <1>3 DEF EventAt

LEMMA EventRegistered ==
  ASSUME Types, WireInv, StreamInv, BoxInv, MessageInv, NEW w \in Ws, EventAt(w), Registers(w)
  PROVE  EventAt(w)'
<1>0. w \in Stream
  BY Kinds
<1>1. /\ told[w] = "idle" /\ told'[w] = "waiting" /\ current \in Gen /\ on'[w] = current
      /\ UNCHANGED <<up, pending, got, local, sent>>
  BY <1>0, Registered
<1>2. got[w] = <<>> /\ pending[w] = <<>>
  BY <1>1 DEF EventAt
<1>3. on[w] = 0 /\ local[w] = "none" /\ sent[w] = 0
  BY <1>0, <1>1 DEF StreamInv, BoxInv, EventAt
<1>4. Counts(got[w]) /\ Counts(pending[w])
  BY <1>2, Nothing DEF Counts
<1>5. Had(w)' = 0
  <2>1. Len(got'[w]) = 0 /\ Len(pending'[w]) = 0
    BY <1>1, <1>2, Nothing
  <2> QED
    BY <2>1 DEF Had
<1>6. \A f \in UnderWay(up[current]) : ~Message(f, w)
  <2>1. ASSUME NEW f \in UnderWay(up[current]), Message(f, w) PROVE on[w] = current
    BY <1>1, <2>1 DEF MessageInv, Message
  <2>2. 0 \notin Gen
    BY BoundsAssumed DEF Gen
  <2> QED
    BY <1>1, <1>3, <2>1, <2>2
<1>7. Complete(w)'
  <2>1. 1 .. 0 = {}
    OBVIOUS
  <2>2. \A n \in Had(w)' + 1 .. sent'[w] : FALSE
    BY <1>1, <1>3, <1>5, <2>1
  <2>3. Had(w)' <= sent'[w]
    BY <1>1, <1>3, <1>5
  <2> QED
    BY <1>1, <1>4, <1>6, <2>2, <2>3 DEF Complete
<1> QED
  BY <1>1, <1>2, <1>3, <1>4, <1>7 DEF EventAt

\* What the browser has seen moves on, unless it attaches or registers.
LEMMA ToldGoesOn ==
  ASSUME Types, WireInv, Next, NEW w \in Ws, ~Registers(w), ~Attaches(w)
  PROVE  /\ told'[w] \in {"idle", "waiting", "left"} => told[w] \in {"idle", "waiting", "left"}
         /\ told'[w] \in {"idle", "begun"} => told'[w] = told[w]
<1>0. w \in Stream /\ w \notin Http /\ StreamTypes
  BY Kinds DEF Types
<1>1. CASE UNCHANGED <<on, reg, told, opened, pending, got, current>>
  BY <1>1
<1>2. ASSUME NEW g \in Gen, Accept(g) \/ GateCloses(g)
      PROVE  told'[w] = told[w] \/ told'[w] = "closing"
  <2>1. ASSUME NEW k \in Gen, Destroy(k) PROVE told'[w] = told[w] \/ told'[w] = "closing"
    BY <1>0, <2>1, Destroyed
  <2> QED
    BY <1>2, <2>1, Accepted, GateClosed
<1>3. ASSUME NEW g \in Gen, Hears(g) PROVE told'[w] = told[w] \/ told'[w] = "closing"
  BY <1>0, <1>3, StreamsHear DEF HearsOf
<1>4. ASSUME NEW s \in Stream, Registers(s) PROVE told'[w] = told[w]
  BY <1>0, <1>4, Registered
<1>5. ASSUME NEW s \in Stream, EndsForBrowser(s) PROVE told'[w] = told[w] \/ told'[w] = "over"
  BY <1>0, <1>5, EndedForBrowser
<1>6. ASSUME NEW s \in Stream, WaitsNoLonger(s)
      PROVE  \/ told'[w] = told[w] \/ told'[w] \in {"502", "over"}
             \/ told[w] \in {"waiting", "left"} /\ told'[w] = "left"
  <2>1. CASE s = w
    BY <1>0, <1>6, <2>1, WaitedNoLonger DEF Attaches
  <2>2. CASE s # w
    BY <1>0, <1>6, <2>2, WaitedNoLonger
  <2> QED
    BY <2>1, <2>2
<1> QED
  BY <1>1, <1>2, <1>3, <1>4, <1>5, <1>6, StreamSteps

\* Messages are held and given when one comes, and when the socket attaches.
LEMMA InboxStays ==
  ASSUME Types, WireInv, Next, NEW w \in Ws, ~Attaches(w), ~Receives(w)
  PROVE  pending'[w] = pending[w] /\ got'[w] = got[w]
<1>0. w \in Stream /\ StreamTypes
  BY Kinds DEF Types
<1>1. CASE UNCHANGED <<on, reg, told, opened, pending, got, current>>
  BY <1>1
<1>2. ASSUME NEW g \in Gen, Accept(g) \/ GateCloses(g) PROVE UNCHANGED <<pending, got>>
  BY <1>0, <1>2, Accepted, GateClosed, Destroyed
<1>3. ASSUME NEW g \in Gen, Hears(g) PROVE pending'[w] = pending[w] /\ got'[w] = got[w]
  <2>1. CASE HearMessage(g)
    <3>1. PICK f \in UpFrame, v \in Ws :
               /\ f = Head(up[g]) /\ Message(f, v)
               /\ \A r \in Ws \ {v} : pending'[r] = pending[r] /\ got'[r] = got[r]
               /\ Known(g, v) \/ UNCHANGED <<pending, got>>
      BY <2>1, MessageHeard
    <3>2. v = w => ~Known(g, v)
      BY <2>1, <3>1 DEF Receives, Known
    <3> QED
      BY <3>1, <3>2
  <2>2. CASE ~HearMessage(g)
    BY <1>3, <2>2, ActivityHeard, HttpHeard, SocketHeard DEF Hears
  <2> QED
    BY <2>1, <2>2
<1>4. ASSUME NEW s \in Stream, Registers(s) \/ EndsForBrowser(s) PROVE UNCHANGED <<pending, got>>
  BY <1>4, Registered, EndedForBrowser
<1>5. ASSUME NEW s \in Stream, WaitsNoLonger(s) PROVE pending'[w] = pending[w] /\ got'[w] = got[w]
  <2>1. CASE s = w
    BY <1>0, <1>5, <2>1, WaitedNoLonger DEF Attaches
  <2>2. CASE s # w
    BY <1>5, <2>2, WaitedNoLonger
  <2> QED
    BY <2>1, <2>2
<1> QED
  BY <1>1, <1>2, <1>3, <1>4, <1>5, StreamSteps

LEMMA EventKept ==
  ASSUME Types, WireInv, StreamInv, BoxInv, UpInv, DownInv, MessageInv, EventInv, Next
  PROVE  EventInv'
<1> SUFFICES ASSUME NEW w \in Ws PROVE EventAt(w)'
  BY DEF EventInv
<1>0. EventAt(w) /\ w \in Stream
  BY Kinds DEF EventInv
<1>1. w \in reg => on[w] \in Gen
  BY Dials DEF StreamInv, Types
<1>2. CASE Registers(w)
  BY <1>0, <1>2, EventRegistered
<1>3. CASE Attaches(w)
  BY <1>0, <1>3, EventAttached
<1>4. CASE Receives(w)
  BY <1>0, <1>1, <1>4, EventHeard DEF Receives
<1>5. CASE sent'[w] # sent[w]
  <2>1. PICK s \in Ws : LocalActs(s) /\ sent' = [sent EXCEPT ![s] = sent[s] + 1]
    BY <1>5, SentSteps
  <2>2. s = w
    BY <1>5, <2>1 DEF Types, BoxTypes
  <2> QED
    BY <1>0, <1>5, <2>1, <2>2, EventPushed
<1>6. CASE ~Registers(w) /\ ~Attaches(w) /\ ~Receives(w) /\ sent'[w] = sent[w]
  <2>1. pending'[w] = pending[w] /\ got'[w] = got[w]
    BY <1>6, InboxStays
  <2>2. /\ told'[w] \in {"idle", "waiting", "left"} => told[w] \in {"idle", "waiting", "left"}
        /\ told'[w] \in {"idle", "begun"} => told'[w] = told[w]
    BY <1>6, ToldGoesOn
  <2>3. local'[w] \in {"none", "started"} => local[w] \in {"none", "started"}
    BY <1>0, LocalGoesOn DEF GoesOn
  <2>4. ASSUME w \in reg' PROVE w \in reg /\ on'[w] = on[w] /\ SameMessages(w)
    <3>1. w \in reg /\ on'[w] = on[w]
      BY <1>0, <1>6, <2>4, RegKept, OnKept
    <3>2. ~GateCloses(on[w])
      <4>1. GateCloses(on[w]) => reg' = {s \in reg : on[s] # on[w]}
        BY <1>1, <3>1, GateClosed, Destroyed DEF Types
      <4> QED
        BY <2>4, <4>1
    <3>3. ~(Hears(on[w]) /\ Message(Head(up[on[w]]), w))
      <4>1. ASSUME Hears(on[w]), Message(Head(up[on[w]]), w) PROVE HearMessage(on[w])
        BY <4>1 DEF Hears, HearActivity, HearHttp, HearOpened, HearFailed, HearClosed, Comes, Message
      <4> QED
        BY <1>6, <3>1, <4>1 DEF Receives
    <3> QED
      BY <1>1, <1>6, <3>1, <3>2, <3>3, MessagesStay
  <2> QED
    BY <1>0, <1>6, <2>1, <2>2, <2>3, <2>4, EventStill
<1> QED
  BY <1>2, <1>3, <1>4, <1>5, <1>6

-----------------------------------------------------------------------------
(***************************************************************************)
(* The invariant holds initially, and every step keeps it.                 *)
(***************************************************************************)
LEMMA TypesInitially ==
  ASSUME Init
  PROVE  Types
<1>1. gen \in 0 .. MaxGen /\ current \in 0 .. MaxGen /\ inputs \in 0 .. MaxInputs
  BY BoundsAssumed DEF Init
<1>2. WireTypes
  BY <1>1 DEF Init, WireTypes
<1>3. \A w \in Ws : Len(pending[w]) <= MaxPending
  BY BoundsAssumed, Nothing DEF Init
<1>4. StreamTypes
  <2>1. pending \in [Ws -> Seq(1 .. MaxInputs)] /\ got \in [Ws -> Seq(1 .. MaxInputs)]
    BY Nothing DEF Init
  <2>2. on \in [Stream -> 0 .. MaxGen]
    BY BoundsAssumed DEF Init
  <2> QED
    BY <1>3, <2>1, <2>2 DEF Init, StreamTypes
<1>5. BoxTypes
  <2>1. sent \in [Ws -> 0 .. MaxInputs]
    BY BoundsAssumed DEF Init
  <2> QED
    BY <1>1, <2>1 DEF Init, BoxTypes
<1>6. FrameTypes
  <2>1. up \in [Gen -> Seq(UpFrame)] /\ down \in [Gen -> Seq(DownFrame)]
    BY Nothing DEF Init
  <2>2. \A w \in Ws : sent[w] <= inputs
    BY DEF Init
  <2> QED
    BY <2>1, <2>2 DEF FrameTypes
<1> QED
  BY <1>2, <1>4, <1>5, <1>6 DEF Types

LEMMA Initially == Init => IInv
<1> SUFFICES ASSUME Init PROVE IInv
  OBVIOUS
<1>1. Types /\ TypeOK /\ FrameTypes
  BY TypesInitially, TypesSplit
<1>2. /\ \A g \in Gen : up[g] = <<>> /\ down[g] = <<>> /\ UnderWay(up[g]) = {} /\ UnderWay(down[g]) = {}
      /\ \A g \in Gen : DOMAIN up[g] = {} /\ DOMAIN down[g] = {}
  BY Nothing DEF Init
<1>3. WireInv
  <2>1. \A g \in Gen : g \in Nat \ {0}
    BY BoundsAssumed DEF Gen
  <2> QED
    BY <2>1 DEF Init, WireInv, NewestServes
<1>4. QueueInv
  BY <1>2 DEF QueueInv
<1>5. StreamInv
  BY Kinds DEF Init, StreamInv
<1>6. BoxInv
  BY Kinds DEF Init, BoxInv
<1>7. UpInv /\ DownInv /\ EndInv
  BY <1>2 DEF UpInv, DownInv, EndInv
<1>8. WorkInv
  BY DEF Init, WorkInv
<1>9. AnswerInv
  BY DEF Init, AnswerInv
<1>10. BusyInv
  BY DEF Init, BusyInv
<1>11. MessageInv
  BY <1>2 DEF MessageInv, Rising
<1>12. EventInv
  BY Kinds, Nothing DEF Init, EventInv, EventAt, Counts
<1> QED
  BY <1>1, <1>3, <1>4, <1>5, <1>6, <1>7, <1>8, <1>9, <1>10, <1>11, <1>12 DEF IInv

LEMMA Unchanged == IInv /\ UNCHANGED vars => IInv'
<1> SUFFICES ASSUME IInv, UNCHANGED vars PROVE IInv'
  OBVIOUS
<1> USE DEF vars, wire, frames, streams, inside, work
<1>1. (TypeOK /\ FrameTypes)'
  BY DEF IInv, TypeOK, FrameTypes
<1>2. (WireInv /\ QueueInv /\ StreamInv /\ BoxInv)'
  BY DEF IInv, WireInv, NewestServes, QueueInv, StreamInv, BoxInv
<1>3. (UpInv /\ DownInv /\ EndInv)'
  BY DEF IInv, UpInv, Tells, DownInv, EndInv
<1>4. (WorkInv /\ AnswerInv /\ BusyInv)'
  BY DEF IInv, WorkInv, Wanted, AnswerInv, Begun, Ending, BothOpen, BusyInv
<1>5. (MessageInv /\ EventInv)'
  BY DEF IInv, MessageInv, EventInv, EventAt, Complete, Had
<1> QED
  BY <1>1, <1>2, <1>3, <1>4, <1>5 DEF IInv

LEMMA Preserved == IInv /\ [Next]_vars => IInv'
<1>1. ASSUME IInv, Next PROVE IInv'
  <2>1. /\ TypeOK /\ FrameTypes /\ WireInv /\ QueueInv /\ StreamInv /\ BoxInv /\ UpInv /\ DownInv
        /\ EndInv /\ WorkInv /\ AnswerInv /\ BusyInv /\ MessageInv /\ EventInv /\ Next
    BY <1>1 DEF IInv
  <2>2. Types
    BY <2>1, TypesSplit
  <2>3. TypeOK' /\ FrameTypes'
    <3>1. Types'
      BY <2>1, <2>2, TypesKept
    <3>2. (Types => TypeOK /\ FrameTypes)'
      BY TypesSplit, PTL
    <3> QED
      BY <3>1, <3>2
  <2>4. WireInv'
    BY <2>1, <2>2, WireKept
  <2>5. QueueInv'
    BY <2>1, <2>2, QueueKept
  <2>6. StreamInv'
    BY <2>1, <2>2, StreamKept
  <2>7. BoxInv'
    BY <2>1, <2>2, BoxKept
  <2>8. UpInv'
    BY <2>1, <2>2, UpKept
  <2>9. DownInv'
    BY <2>1, <2>2, DownKept
  <2>10. EndInv'
    BY <2>1, <2>2, EndKept
  <2>11. WorkInv'
    BY <2>1, <2>2, WorkKept
  <2>12. AnswerInv'
    BY <2>1, <2>2, AnswerKept
  <2>13. BusyInv'
    BY <2>1, <2>2, BusyKept
  <2>14. MessageInv'
    BY <2>1, <2>2, MessageKept
  <2>15. EventInv'
    BY <2>1, <2>2, EventKept
  <2> QED
    BY <2>3, <2>4, <2>5, <2>6, <2>7, <2>8, <2>9, <2>10, <2>11, <2>12, <2>13, <2>14, <2>15 DEF IInv
<1> QED
  BY <1>1, Unchanged

LEMMA Always == Spec => []IInv
<1> QED
  BY Initially, Preserved, PTL DEF Spec

-----------------------------------------------------------------------------
(***************************************************************************)
(* What follows from it.                                                   *)
(***************************************************************************)

\* Every variable of the tunnel, at both ends and under way, keeps its type.
THEOREM TypeCorrect == Spec => []TypeOK
<1>1. IInv => TypeOK
  BY DEF IInv
<1> QED
  BY <1>1, Always, PTL

\* The late close of an old generation never takes the newest out of service.
THEOREM NewestStaysInService == Spec => []NewestServes
<1>1. IInv => NewestServes
  BY DEF IInv, WireInv
<1> QED
  BY <1>1, Always, PTL

\* What runs in the sandbox is wanted by a browser, or the gateway's timer
\* gave up on it; nothing started for one generation lives on into the next.
THEOREM NoWorkIsForgotten == Spec => []SandboxWorksForSomeone
<1>1. IInv => SandboxWorksForSomeone
  <2> SUFFICES ASSUME IInv, NEW s \in mapped
               PROVE  on[s] = gen /\ box[gen] = "open" /\ Wanted(s)
    BY DEF SandboxWorksForSomeone, Wanted, Ends
  <2> QED
    BY DEF IInv, BoxInv, WorkInv
<1> QED
  BY <1>1, Always, PTL

\* A browser's open socket is carried by a tunnel whose end will close it.
THEOREM NoSocketIsStranded == Spec => []OpenSocketsHaveATunnel
<1>1. IInv => OpenSocketsHaveATunnel
  <2> SUFFICES ASSUME IInv, NEW w \in Ws, told[w] = "begun"
               PROVE  (w \in reg /\ gate[on[w]] = "open") \/ local[w] = "failed"
    BY DEF OpenSocketsHaveATunnel
  <2>1. w \in reg \/ local[w] = "failed"
    BY DEF IInv, StreamInv
  <2>2. w \in reg => on[w] = current /\ current # 0
    BY DEF IInv, StreamInv
  <2>3. current # 0 => gate[current] = "open"
    BY DEF IInv, WireInv
  <2> QED
    BY <2>1, <2>2, <2>3
<1> QED
  BY <1>1, Always, PTL

\* No browser waits for what will not come: a timer or the rest of the handler
\* runs, or the request is worked on, or its end is under way.
THEOREM SomethingIsComing == Spec => []NobodyWaitsForNothing
<1>1. IInv => NobodyWaitsForNothing
  <2> SUFFICES ASSUME IInv PROVE NobodyWaitsForNothing
    OBVIOUS
  <2>1. ASSUME NEW s \in Stream, told[s] = "waiting"
        PROVE  IF s \in Http THEN s \in reg ELSE opened[s] # "done"
    BY <2>1, Kinds DEF IInv, StreamInv
  <2>2. ASSUME NEW h \in Http, h \in reg, told[h] = "begun", BothOpen(on[h])
        PROVE  h \in mapped \/ \E f \in UnderWay(up[on[h]]) : f.id = h /\ f.t \in {"resend", "reserr"}
    BY <2>2 DEF IInv, AnswerInv, Begun, Ending
  <2> QED
    BY <2>1, <2>2 DEF NobodyWaitsForNothing
<1> QED
  BY <1>1, Always, PTL

\* While the newest tunnel is up, agentBusy is the truth or the truth is under
\* way, whatever changed while the tunnel was down.
THEOREM BusyIsToldAgain == Spec => []BusyIsKnown
<1>1. IInv => BusyIsKnown
  <2> SUFFICES ASSUME IInv, current # 0, BothOpen(current)
               PROVE  \/ \E f \in UnderWay(up[current]) : f.t \in {"busy", "idle"}
                      \/ busy[current] = (agents # {})
    BY DEF BusyIsKnown
  <2>1. Types /\ WireInv /\ BusyInv
    BY TypesSplit DEF IInv
  <2>2. current \in Gen /\ gen \in Nat /\ current \in Nat
    BY <2>1, Dials DEF Types
  <2>3. current = gen
    <3>1. ~(current < gen) /\ ~(current > gen)
      BY <2>1, <2>2 DEF WireInv, BothOpen
    <3> QED
      BY <2>2, <3>1
  <2>4. up[gen] \in Seq(UpFrame)
    BY <2>1, <2>2, <2>3 DEF Types, FrameTypes
  <2>5. \A i \in DOMAIN up[gen] : up[gen][i] \in UnderWay(up[gen])
    BY <2>4 DEF UnderWay
  <2>6. TrueWord(up[gen], busy[gen], agents)
    BY <2>1, <2>3 DEF BusyInv
  <2> QED
    BY <2>3, <2>5, <2>6 DEF TrueWord, LastWord, Word
<1> QED
  BY <1>1, Always, PTL

\* A browser is given the downlink's messages from the first, in order and
\* without a gap, while at most one more than the cap was pushed.
THEOREM EventsComeInOrder == Spec => []EventsInOrder
<1>1. IInv => EventsInOrder
  <2> SUFFICES ASSUME IInv, NEW w \in Ws, sent[w] <= MaxPending + 1
               PROVE  got[w] = [i \in 1 .. Len(got[w]) |-> i]
    BY DEF EventsInOrder
  <2>1. got[w] \in Seq(Nat)
    BY TypesSplit, HadCounts DEF IInv
  <2>2. \A i \in DOMAIN got[w] : got[w][i] = i
    BY DEF IInv, EventInv, EventAt, Counts
  <2>3. DOMAIN got[w] = 1 .. Len(got[w]) /\ got[w] = [i \in DOMAIN got[w] |-> got[w][i]]
    BY <2>1
  <2> QED
    BY <2>2, <2>3
<1> QED
  BY <1>1, Always, PTL

\* What the browser sees of a stream in the state v of it.
Verdict(v) ==
  CASE v \in {"502", "504"} -> "refused"
    [] v \in {"over", "cut", "closing"} -> "over"
    [] OTHER -> v

LEMMA Verdicts ==
  /\ Verdict("502") = "refused" /\ Verdict("504") = "refused"
  /\ Verdict("over") = "over" /\ Verdict("cut") = "over" /\ Verdict("closing") = "over"
  /\ Verdict("idle") = "idle" /\ Verdict("waiting") = "waiting"
  /\ Verdict("begun") = "begun" /\ Verdict("left") = "left"
BY DEF Verdict

Allowed(s) ==
  \/ Verdict(told'[s]) = Verdict(told[s])
  \/ <<Verdict(told[s]), Verdict(told'[s])>> \in Seen!Edge

LEMMA AllowedSteps ==
  ASSUME NEW s,
         \/ told'[s] = told[s]
         \/ told[s] = "idle" /\ told'[s] = "waiting"
         \/ told[s] = "waiting" /\ told'[s] \in {"begun", "502", "504", "left", "over"}
         \/ told[s] = "begun" /\ told'[s] \in {"begun", "over", "cut", "closing", "left"}
         \/ told[s] = "closing" /\ told'[s] = "over"
  PROVE  Allowed(s)
BY Verdicts DEF Allowed, Seen!Edge

LEMMA ToldSteps ==
  ASSUME Types, WireInv, StreamInv, Next, NEW s \in Stream
  PROVE  Allowed(s)
<1>0. /\ StreamTypes /\ (s \in Http \/ s \in Ws) /\ ~(s \in Http /\ s \in Ws)
      /\ s \in Http /\ s \in reg => told[s] \in {"waiting", "begun"}
  BY Kinds DEF Types, StreamInv
<1>1. CASE UNCHANGED <<on, reg, told, opened, pending, got, current>>
  BY <1>1, AllowedSteps
<1>2. ASSUME NEW g \in Gen, Accept(g) \/ GateCloses(g) PROVE Allowed(s)
  <2>1. ASSUME NEW k \in Gen, Destroy(k) PROVE Allowed(s)
    <3>1. CASE s \notin reg \/ on[s] # k
      BY <1>0, <2>1, <3>1, Destroyed, AllowedSteps
    <3>2. CASE s \in reg /\ on[s] = k /\ s \in Http
      <4>1. told'[s] = IF told[s] = "waiting" THEN "502" ELSE "cut"
        BY <1>0, <2>1, <3>2, Destroyed
      <4> QED
        BY <1>0, <3>2, <4>1, AllowedSteps
    <3>3. CASE s \in reg /\ on[s] = k /\ s \in Ws
      <4>1. told'[s] = IF told[s] = "begun" THEN "closing" ELSE told[s]
        BY <1>0, <2>1, <3>3, Destroyed
      <4> QED
        BY <4>1, AllowedSteps
    <3> QED
      BY <1>0, <3>1, <3>2, <3>3
  <2> QED
    BY <1>2, <2>1, Accepted, GateClosed, AllowedSteps
<1>3. ASSUME NEW g \in Gen, Hears(g) PROVE Allowed(s)
  <2>1. CASE told' = told
    BY <2>1, AllowedSteps
  <2>2. ASSUME NEW f \in UpFrame, NEW r \in Stream, HearsOf(g, f, r) PROVE Allowed(s)
    <3>1. CASE r # s
      BY <2>2, <3>1, AllowedSteps DEF HearsOf
    <3>2. CASE r = s
      <4>1. s \in reg
        BY <2>2, <3>2 DEF HearsOf, Known
      <4>2. \/ told'[s] = told[s]
            \/ told[s] = "waiting" /\ told'[s] \in {"begun", "over", "502"}
            \/ told[s] = "begun" /\ told'[s] \in {"begun", "over", "cut", "closing"}
        BY <1>0, <2>2, <3>2, <4>1 DEF HearsOf
      <4> QED
        BY <4>2, AllowedSteps
    <3> QED
      BY <3>1, <3>2
  <2> QED
    BY <1>3, <2>1, <2>2, StreamsHear
<1>4. ASSUME NEW r \in Stream, Registers(r) PROVE Allowed(s)
  BY <1>4, Registered, AllowedSteps
<1>5. ASSUME NEW r \in Stream, EndsForBrowser(r) PROVE Allowed(s)
  BY <1>0, <1>5, EndedForBrowser, AllowedSteps
<1>6. ASSUME NEW r \in Stream, WaitsNoLonger(r) PROVE Allowed(s)
  <2>1. CASE r # s
    BY <1>6, <2>1, WaitedNoLonger, AllowedSteps
  <2>2. CASE r = s
    <3>1. s \in Ws /\ opened[s] \in {"yes", "no"} => told[s] \in {"waiting", "left"}
      BY DEF StreamInv
    <3>2. told'[s] = told[s] \/ (told[s] = "waiting" /\ told'[s] \in {"begun", "502", "504", "left", "over"})
      BY <1>6, <2>2, <3>1, WaitedNoLonger
    <3> QED
      BY <3>2, AllowedSteps
  <2> QED
    BY <2>1, <2>2
<1> QED
  BY <1>1, <1>2, <1>3, <1>4, <1>5, <1>6, StreamSteps

\* What browsers see is what Streams allows: one verdict each, and nothing
\* after the end, however late frames, timers and closes come.
THEOREM RefinesStreams == Spec => ImplementsStreams
<1> DEFINE seen == [s \in Stream |-> CASE told[s] \in {"502", "504"} -> "refused"
                                       [] told[s] \in {"over", "cut", "closing"} -> "over"
                                       [] OTHER -> told[s]]
<1>0. seen = [s \in Stream |-> Verdict(told[s])] /\ seen' = [s \in Stream |-> Verdict(told'[s])]
  BY DEF Verdict
<1>1. Init => Seen!Init
  <2> SUFFICES ASSUME Init PROVE seen = [s \in Stream |-> "idle"]
    BY DEF Seen!Init
  <2>1. \A s \in Stream : Verdict(told[s]) = "idle"
    BY Verdicts DEF Init
  <2> QED
    BY <1>0, <2>1
<1>2. ASSUME IInv, [Next]_vars PROVE Seen!Next \/ UNCHANGED seen
  <2>1. CASE UNCHANGED vars
    BY <1>0, <2>1 DEF vars, streams
  <2>2. CASE Next
    <3>1. \A s \in Stream : Allowed(s)
      BY <1>2, <2>2, TypesSplit, ToldSteps DEF IInv
    <3>2. \A s \in Stream : seen[s] = Verdict(told[s]) /\ seen'[s] = Verdict(told'[s])
      BY <1>0
    <3> QED
      BY <3>1, <3>2 DEF Seen!Next, Allowed
  <2> QED
    BY <1>2, <2>1, <2>2
<1> QED
  BY <1>1, <1>2, Always, PTL DEF Spec, ImplementsStreams, Seen!Spec

=============================================================================
