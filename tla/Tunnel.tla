------------------------------- MODULE Tunnel -------------------------------
(***************************************************************************)
(* The tunnel of one sandbox, both ends: the gateway's SandboxTunnel and   *)
(* TunnelServer (gateway/src/tunnel-server.js) with the browser sockets    *)
(* server.js bridges to it, and the dial-out plugin inside the sandbox     *)
(* (packages/dsh-gateway-tunnel/index.js).                                 *)
(*                                                                         *)
(* A generation is one dialled WebSocket.  Its two ends close separately,  *)
(* since either may notice a broken connection long before the other, and  *)
(* frames under way to a closed end are lost.  Bodies and the data frames  *)
(* towards the sandbox change nothing either end decides on and are left   *)
(* out; what a downlink pushes is numbered, because its order matters.     *)
(***************************************************************************)
EXTENDS Naturals, Sequences

CONSTANTS
  Http,            \* ids of browser requests
  Ws,              \* ids of browser sockets
  Agent,           \* agents inside the sandbox
  None,            \* no stream: what an activity frame is about
  MaxPending,      \* MAX_PENDING_DOWNLINK_FRAMES
  MaxGen,          \* bound: dials
  MaxInputs        \* bound: streams, pushes and agent status changes together

ASSUME TunnelAssumption ==
  /\ Http \cap Ws = {}
  /\ None \notin Http \cup Ws
  /\ {MaxPending, MaxGen, MaxInputs} \subseteq Nat

VARIABLES
  gen,             \* the newest dial, which the plugin's `socket` points at
  box,             \* the sandbox's end of each generation
  gate,            \* the gateway's end of each generation
  down, up,        \* frames under way on each generation
  current,         \* the generation in TunnelServer.tunnels, 0 for none
  busy,            \* agentBusy of each generation's SandboxTunnel
  on,              \* the generation whose tunnel carries a stream
  reg,             \* streams in httpStreams and wsStreams
  told,            \* what the browser has seen of a stream
  opened,          \* the promise openWebSocket awaits
  pending,         \* messages held for a browser socket not attached yet
  got,             \* messages the browser socket was given
  local,           \* the sandbox's own request or socket for a stream
  mapped,          \* streams in the plugin's `requests` and `sockets`
  sent,            \* messages a downlink has pushed
  agents,          \* busyAgents
  inputs           \* streams, pushes and agent status changes so far

wire    == <<gen, box, gate, current>>
frames  == <<down, up>>
streams == <<on, reg, told, opened, pending, got>>
inside  == <<local, mapped, sent>>
work    == <<agents, inputs>>
vars    == <<wire, frames, busy, streams, inside, work>>

Stream == Http \cup Ws
Gen    == 1 .. MaxGen
Frame  == [t : {"http", "abort", "wsopen", "wsclose", "httpres", "resend", "reserr",
                "wsopenok", "wsfail", "wsmsg", "wsclosed", "busy", "idle"},
           id : Stream \cup {None}, n : 0 .. MaxInputs]

TypeOK ==
  /\ gen \in 0 .. MaxGen /\ current \in 0 .. MaxGen
  /\ box \in [Gen -> {"none", "dialing", "open", "closed"}]
  /\ gate \in [Gen -> {"none", "open", "closed"}]
  /\ down \in [Gen -> Seq(Frame)] /\ up \in [Gen -> Seq(Frame)]
  /\ busy \in [Gen -> BOOLEAN]
  /\ on \in [Stream -> 0 .. MaxGen]
  /\ reg \subseteq Stream /\ mapped \subseteq Stream
  /\ told \in [Stream -> {"idle", "waiting", "begun", "closing", "over", "cut",
                          "502", "504", "left"}]
  /\ opened \in [Ws -> {"asked", "yes", "no", "done"}]
  /\ pending \in [Ws -> Seq(1 .. MaxInputs)] /\ got \in [Ws -> Seq(1 .. MaxInputs)]
  /\ \A w \in Ws : Len(pending[w]) <= MaxPending
  /\ local \in [Stream -> {"none", "started", "open", "broken", "ending", "ended", "failed"}]
  /\ sent \in [Ws -> 0 .. MaxInputs]
  /\ agents \subseteq Agent /\ inputs \in 0 .. MaxInputs

Init ==
  /\ gen = 0 /\ current = 0
  /\ box = [g \in Gen |-> "none"] /\ gate = [g \in Gen |-> "none"]
  /\ down = [g \in Gen |-> <<>>] /\ up = [g \in Gen |-> <<>>]
  /\ busy = [g \in Gen |-> FALSE]
  /\ on = [s \in Stream |-> 0] /\ reg = {} /\ mapped = {}
  /\ told = [s \in Stream |-> "idle"]
  /\ opened = [w \in Ws |-> "asked"]
  /\ pending = [w \in Ws |-> <<>>] /\ got = [w \in Ws |-> <<>>]
  /\ local = [s \in Stream |-> "none"]
  /\ sent = [w \in Ws |-> 0]
  /\ agents = {} /\ inputs = 0

(***************************************************************************)
(* A frame is dropped by a sender whose socket is not open, and lost when  *)
(* the other end is gone.  The sandbox sends on its newest socket, even    *)
(* for a stream an older generation carried.                               *)
(***************************************************************************)
Input   == inputs < MaxInputs /\ inputs' = inputs + 1
F(t, s) == [t |-> t, id |-> s, n |-> 0]

Downward(g, f) == IF gate[g] = "open" /\ box[g] # "closed"
                  THEN [down EXCEPT ![g] = Append(@, f)] ELSE down
Upward(fs)     == IF gen # 0 /\ box[gen] = "open" /\ gate[gen] = "open"
                  THEN [up EXCEPT ![gen] = @ \o fs] ELSE up

Activity == F(IF agents = {} THEN "idle" ELSE "busy", None)

Carried(g)   == {s \in reg : on[s] = g}
UnderWay(fs) == {fs[i] : i \in 1 .. Len(fs)}

-----------------------------------------------------------------------------
(* Generations.                                                             *)

(***************************************************************************)
(* destroy(): every request is ended, every open promise settled, every    *)
(* attached browser socket closed.                                         *)
(***************************************************************************)
Destroy(g) ==
  /\ reg' = reg \ Carried(g)
  /\ told' = [s \in Stream |->
                IF s \notin Carried(g) THEN told[s]
                ELSE IF s \in Http THEN (IF told[s] = "waiting" THEN "502" ELSE "cut")
                ELSE IF told[s] = "begun" THEN "closing" ELSE told[s]]
  /\ opened' = [w \in Ws |-> IF w \in Carried(g) /\ opened[w] = "asked" THEN "no"
                             ELSE opened[w]]
  /\ UNCHANGED <<on, pending, got>>

Dial ==
  /\ gen < MaxGen
  /\ gen # 0 => box[gen] = "closed"
  /\ gen' = gen + 1
  /\ box' = [box EXCEPT ![gen'] = "dialing"]
  /\ UNCHANGED <<gate, current, frames, busy, streams, inside, work>>

(***************************************************************************)
(* handleUpgrade: the new generation replaces the old one, whose socket    *)
(* the gateway leaves to close by itself.                                  *)
(***************************************************************************)
Accept(g) ==
  /\ box[g] = "dialing" /\ gate[g] = "none"
  /\ gate' = [gate EXCEPT ![g] = "open"]
  /\ IF current # 0 THEN Destroy(current) ELSE UNCHANGED streams
  /\ current' = g
  /\ UNCHANGED <<gen, box, frames, busy, inside, work>>

(***************************************************************************)
(* Mistake: the state of the agents is only told when it changes.          *)
(***************************************************************************)
OpensSilently(g) ==
  /\ box[g] = "dialing" /\ gate[g] # "none"
  /\ box' = [box EXCEPT ![g] = "open"]
  /\ UNCHANGED <<gen, gate, current, frames, busy, streams, inside, work>>

BoxOpens(g) ==
  /\ box[g] = "dialing" /\ gate[g] # "none"
  /\ box' = [box EXCEPT ![g] = "open"]
  /\ up' = IF gate[g] = "open" THEN [up EXCEPT ![g] = Append(@, Activity)] ELSE up
  /\ UNCHANGED <<gen, gate, current, down, busy, streams, inside, work>>

(***************************************************************************)
(* abandon(): what was started here is torn down and forgotten.            *)
(***************************************************************************)
Abandon ==
  /\ local' = [s \in Stream |-> IF s \in mapped /\ local[s] # "broken"
                                THEN "ending" ELSE local[s]]
  /\ mapped' = {}
  /\ UNCHANGED sent

BoxCloses(g) ==
  /\ box[g] \in {"dialing", "open"}
  /\ box' = [box EXCEPT ![g] = "closed"]
  /\ down' = [down EXCEPT ![g] = <<>>]
  /\ Abandon
  /\ UNCHANGED <<gen, gate, current, up, busy, streams, work>>

(***************************************************************************)
(* Mistake: the registration goes whoever holds it by now.                 *)
(***************************************************************************)
GateClosesAny(g) ==
  /\ gate[g] = "open"
  /\ gate' = [gate EXCEPT ![g] = "closed"]
  /\ up' = [up EXCEPT ![g] = <<>>]
  /\ Destroy(g)
  /\ current' = 0
  /\ UNCHANGED <<gen, box, down, busy, inside, work>>

GateCloses(g) ==
  /\ gate[g] = "open"
  /\ gate' = [gate EXCEPT ![g] = "closed"]
  /\ up' = [up EXCEPT ![g] = <<>>]
  /\ Destroy(g)
  /\ current' = IF current = g THEN 0 ELSE current
  /\ UNCHANGED <<gen, box, down, busy, inside, work>>

-----------------------------------------------------------------------------
(***************************************************************************)
(* The gateway's side of a stream.                                         *)
(***************************************************************************)
Register(s, t) ==
  /\ told[s] = "idle" /\ current # 0
  /\ Input
  /\ on' = [on EXCEPT ![s] = current]
  /\ reg' = reg \cup {s}
  /\ told' = [told EXCEPT ![s] = "waiting"]
  /\ down' = Downward(current, F(t, s))
  /\ UNCHANGED <<wire, up, busy, opened, pending, got, inside, agents>>

ProxyHttp(h)     == Register(h, "http")
OpenWebSocket(w) == Register(w, "wsopen")

(***************************************************************************)
(* Mistake: the browser is told 504 and the stream stays in the map.       *)
(***************************************************************************)
TimeoutKeeps(h) ==
  /\ h \in reg /\ told[h] = "waiting"
  /\ told' = [told EXCEPT ![h] = "504"]
  /\ UNCHANGED <<wire, frames, busy, on, reg, opened, pending, got, inside, work>>

(***************************************************************************)
(* The timers of proxyHttp and openWebSocket.  The sandbox is not told.    *)
(***************************************************************************)
Timeout(h) ==
  /\ h \in reg /\ told[h] = "waiting"
  /\ reg' = reg \ {h}
  /\ told' = [told EXCEPT ![h] = "504"]
  /\ UNCHANGED <<wire, frames, busy, on, opened, pending, got, inside, work>>

OpenTimeout(w) ==
  /\ on[w] # 0 /\ opened[w] = "asked"
  /\ opened' = [opened EXCEPT ![w] = "no"]
  /\ UNCHANGED <<wire, frames, busy, on, reg, told, pending, got, inside, work>>

(***************************************************************************)
(* What follows the await in openWebSocket and in the upgrade handler:     *)
(* 502, or the upgrade and attach(), which closes the browser's socket at  *)
(* once when the stream has gone meanwhile.  A browser that has hung up    *)
(* never reaches attach(), and its stream stays registered.                *)
(***************************************************************************)
Upgrade(w) ==
  LET attaches == opened[w] = "yes" /\ told[w] = "waiting" /\ w \in reg
  IN  /\ opened[w] \in {"yes", "no"}
      /\ opened' = [opened EXCEPT ![w] = "done"]
      /\ reg' = IF opened[w] = "no" THEN reg \ {w} ELSE reg
      /\ told' = [told EXCEPT ![w] =
           IF @ = "left" THEN @
           ELSE IF opened[w] = "no" THEN "502"
           ELSE IF attaches THEN "begun" ELSE "over"]
      /\ got' = IF attaches THEN [got EXCEPT ![w] = pending[w]] ELSE got
      /\ pending' = IF attaches THEN [pending EXCEPT ![w] = <<>>] ELSE pending
      /\ UNCHANGED <<wire, frames, busy, on, inside, work>>

(***************************************************************************)
(* Mistake: the sandbox is not told that nobody waits.                     *)
(***************************************************************************)
LeavesUntold(h) ==
  /\ h \in reg
  /\ reg' = reg \ {h}
  /\ told' = [told EXCEPT ![h] = "left"]
  /\ UNCHANGED <<wire, frames, busy, on, opened, pending, got, inside, work>>

(***************************************************************************)
(* The browser hangs up: on a request, before an upgrade completed (which  *)
(* nothing listens for), or on an attached socket, whose close event also  *)
(* follows a close() of the gateway's own.                                 *)
(***************************************************************************)
BrowserLeaves(h) ==
  /\ h \in reg
  /\ reg' = reg \ {h}
  /\ told' = [told EXCEPT ![h] = "left"]
  /\ down' = Downward(on[h], F("abort", h))
  /\ UNCHANGED <<wire, up, busy, on, opened, pending, got, inside, work>>

BrowserGivesUp(w) ==
  /\ told[w] = "waiting"
  /\ told' = [told EXCEPT ![w] = "left"]
  /\ UNCHANGED <<wire, frames, busy, on, reg, opened, pending, got, inside, work>>

BrowserCloses(w) ==
  /\ told[w] \in {"begun", "closing"}
  /\ told' = [told EXCEPT ![w] = "over"]
  /\ reg' = reg \ {w}
  /\ down' = Downward(on[w], F("wsclose", w))
  /\ UNCHANGED <<wire, up, busy, on, opened, pending, got, inside, work>>

-----------------------------------------------------------------------------
(***************************************************************************)
(* SandboxTunnel.handle, one frame of a generation's own tunnel at a time. *)
(* A frame about a stream that is not in the map changes nothing.          *)
(***************************************************************************)
Comes(g, kinds) ==
  /\ gate[g] = "open"
  /\ up[g] # <<>>
  /\ Head(up[g]).t \in kinds
  /\ up' = [up EXCEPT ![g] = Tail(@)]

Known(g, s) == s \in reg /\ on[s] = g

HearActivity(g) ==
  /\ Comes(g, {"busy", "idle"})
  /\ busy' = [busy EXCEPT ![g] = Head(up[g]).t = "busy"]
  /\ UNCHANGED <<wire, down, streams, inside, work>>

HearHttp(g) ==
  /\ Comes(g, {"httpres", "resend", "reserr"})
  /\ LET f     == Head(up[g])
         h     == f.id
         known == Known(g, h)
         ends  == f.t # "httpres"
     IN  /\ reg' = IF ends /\ known THEN reg \ {h} ELSE reg
         /\ told' = IF ~known THEN told
                    ELSE [told EXCEPT ![h] =
                      CASE f.t = "httpres" -> "begun"
                        [] f.t = "resend"  -> "over"
                        [] f.t = "reserr"  -> IF @ = "waiting" THEN "502" ELSE "cut"]
  /\ UNCHANGED <<wire, down, busy, on, opened, pending, got, inside, work>>

(***************************************************************************)
(* wsopenok and wsfail settle the promise if it is still open.             *)
(***************************************************************************)
Settled(w, v) == IF opened[w] = "asked" THEN [opened EXCEPT ![w] = v] ELSE opened

HearOpened(g) ==
  /\ Comes(g, {"wsopenok"})
  /\ LET w == Head(up[g]).id
     IN  opened' = IF Known(g, w) THEN Settled(w, "yes") ELSE opened
  /\ UNCHANGED <<wire, down, busy, on, reg, told, pending, got, inside, work>>

(***************************************************************************)
(* A socket already attached is not closed here, and no longer known.      *)
(***************************************************************************)
HearFailed(g) ==
  /\ Comes(g, {"wsfail"})
  /\ LET w == Head(up[g]).id
     IN  IF Known(g, w) THEN opened' = Settled(w, "no") /\ reg' = reg \ {w}
                        ELSE UNCHANGED <<opened, reg>>
  /\ UNCHANGED <<wire, down, busy, on, told, pending, got, inside, work>>

(***************************************************************************)
(* Mistake: a message that comes before the browser's socket is dropped.   *)
(***************************************************************************)
HearUnheld(g) ==
  /\ Comes(g, {"wsmsg"})
  /\ LET f == Head(up[g])
         w == f.id
     IN  got' = IF Known(g, w) /\ told[w] = "begun" THEN [got EXCEPT ![w] = Append(@, f.n)]
                ELSE got
  /\ UNCHANGED <<wire, down, busy, on, reg, told, opened, pending, inside, work>>

(***************************************************************************)
(* Mistake: one message more than the cap is held.                         *)
(***************************************************************************)
HearOneTooMany(g) ==
  /\ Comes(g, {"wsmsg"})
  /\ LET f == Head(up[g])
         w == f.id
     IN  pending' = IF Known(g, w) /\ told[w] \notin {"begun", "closing"}
                       /\ Len(pending[w]) <= MaxPending
                    THEN [pending EXCEPT ![w] = Append(@, f.n)] ELSE pending
  /\ UNCHANGED <<wire, down, busy, on, reg, told, opened, got, inside, work>>

(***************************************************************************)
(* Held until the browser's socket is attached, up to the cap.             *)
(***************************************************************************)
HearMessage(g) ==
  /\ Comes(g, {"wsmsg"})
  /\ LET f        == Head(up[g])
         w        == f.id
         attached == told[w] \in {"begun", "closing"}
         holds    == Known(g, w) /\ ~attached /\ Len(pending[w]) < MaxPending
     IN  /\ pending' = IF holds THEN [pending EXCEPT ![w] = Append(@, f.n)] ELSE pending
         /\ got' = IF Known(g, w) /\ told[w] = "begun" THEN [got EXCEPT ![w] = Append(@, f.n)]
                   ELSE got
  /\ UNCHANGED <<wire, down, busy, on, reg, told, opened, inside, work>>

(***************************************************************************)
(* Mistake: the stream is forgotten and the browser's socket left open.    *)
(***************************************************************************)
HearClosedOnly(g) ==
  /\ Comes(g, {"wsclosed"})
  /\ reg' = IF Known(g, Head(up[g]).id) THEN reg \ {Head(up[g]).id} ELSE reg
  /\ UNCHANGED <<wire, down, busy, on, told, opened, pending, got, inside, work>>

(***************************************************************************)
(* A promise still open is left to its timer.                              *)
(***************************************************************************)
HearClosed(g) ==
  /\ Comes(g, {"wsclosed"})
  /\ LET w == Head(up[g]).id
     IN  /\ reg' = IF Known(g, w) THEN reg \ {w} ELSE reg
         /\ told' = IF Known(g, w) /\ told[w] = "begun"
                    THEN [told EXCEPT ![w] = "closing"] ELSE told
  /\ UNCHANGED <<wire, down, busy, on, opened, pending, got, inside, work>>

-----------------------------------------------------------------------------
(***************************************************************************)
(* Inside the sandbox: the plugin's handle(), and the local requests and   *)
(* sockets it starts.                                                      *)
(***************************************************************************)
Take(kinds) ==
  /\ gen # 0 /\ box[gen] = "open"
  /\ down[gen] # <<>>
  /\ Head(down[gen]).t \in kinds
  /\ down' = [down EXCEPT ![gen] = Tail(@)]

Start ==
  /\ Take({"http", "wsopen"})
  /\ LET s == Head(down[gen]).id
     IN  /\ local' = [local EXCEPT ![s] = "started"]
         /\ mapped' = mapped \cup {s}
  /\ UNCHANGED <<wire, up, busy, streams, sent, work>>

Stop ==
  /\ Take({"abort", "wsclose"})
  /\ LET s == Head(down[gen]).id
     IN  /\ local' = IF s \in mapped /\ local[s] # "broken"
                     THEN [local EXCEPT ![s] = "ending"] ELSE local
         /\ mapped' = mapped \ {s}
  /\ UNCHANGED <<wire, up, busy, streams, sent, work>>

Report(fs) ==
  /\ up' = Upward(fs)
  /\ UNCHANGED <<wire, down, busy, streams, agents>>

LocalResponds(h) ==
  /\ local[h] = "started"
  /\ local' = [local EXCEPT ![h] = "open"]
  /\ Report(<<F("httpres", h)>>)
  /\ UNCHANGED <<mapped, sent, inputs>>

(***************************************************************************)
(* Mistake: the end of the answer is not passed on.                        *)
(***************************************************************************)
LocalFinishesUnsaid(h) ==
  /\ local[h] = "open"
  /\ local' = [local EXCEPT ![h] = "ended"]
  /\ mapped' = mapped \ {h}
  /\ UNCHANGED <<wire, frames, busy, streams, sent, work>>

LocalFinishes(h) ==
  /\ local[h] = "open"
  /\ local' = [local EXCEPT ![h] = "ended"]
  /\ mapped' = mapped \ {h}
  /\ Report(<<F("resend", h)>>)
  /\ UNCHANGED <<sent, inputs>>

(***************************************************************************)
(* The request fails before it is answered, or is being torn down.         *)
(***************************************************************************)
LocalErrs(h) ==
  /\ local[h] \in {"started", "ending"}
  /\ local' = [local EXCEPT ![h] = "ended"]
  /\ mapped' = mapped \ {h}
  /\ Report(<<F("reserr", h)>>)
  /\ UNCHANGED <<sent, inputs>>

(***************************************************************************)
(* The local service drops the connection in the middle of its answer,     *)
(* which Node reports to the response, and nothing here listens to it.     *)
(***************************************************************************)
LocalBreaks(h) ==
  /\ local[h] = "open"
  /\ local' = [local EXCEPT ![h] = "broken"]
  /\ UNCHANGED <<wire, frames, busy, streams, mapped, sent, work>>

LocalOpens(w) ==
  /\ local[w] = "started"
  /\ local' = [local EXCEPT ![w] = "open"]
  /\ Report(<<F("wsopenok", w)>>)
  /\ UNCHANGED <<mapped, sent, inputs>>

LocalPushes(w) ==
  /\ local[w] = "open"
  /\ Input
  /\ sent' = [sent EXCEPT ![w] = @ + 1]
  /\ Report(<<[F("wsmsg", w) EXCEPT !.n = sent'[w]]>>)
  /\ UNCHANGED <<local, mapped>>

LocalCloses(w) ==
  /\ local[w] \in {"open", "ending"}
  /\ local' = [local EXCEPT ![w] = "ended"]
  /\ mapped' = mapped \ {w}
  /\ Report(<<F("wsclosed", w)>>)
  /\ UNCHANGED <<sent, inputs>>

(***************************************************************************)
(* An error event and the close event that always follows it.  A socket    *)
(* torn down while connecting reports both too, about a stream that the    *)
(* gateway has forgotten: LocalCloses stands for that.                     *)
(***************************************************************************)
LocalFails(w) ==
  /\ local[w] \in {"started", "open"}
  /\ local' = [local EXCEPT ![w] = "failed"]
  /\ mapped' = mapped \ {w}
  /\ Report(<<F("wsfail", w), F("wsclosed", w)>>)
  /\ UNCHANGED <<sent, inputs>>

(***************************************************************************)
(* agent/status and agent/disposed: only a change of the whole is sent.    *)
(***************************************************************************)
AgentsBecome(next) ==
  /\ Input
  /\ agents' = next
  /\ up' = IF (next = {}) = (agents = {}) THEN up
           ELSE Upward(<<F(IF next = {} THEN "idle" ELSE "busy", None)>>)
  /\ UNCHANGED <<wire, down, busy, streams, inside>>

AgentRuns(a)  == a \notin agents /\ AgentsBecome(agents \cup {a})
AgentStops(a) == a \in agents /\ AgentsBecome(agents \ {a})

-----------------------------------------------------------------------------
WireStep ==
  \/ Dial
  \/ \E g \in Gen : Accept(g) \/ BoxOpens(g) \/ BoxCloses(g) \/ GateCloses(g)

BrowserStep ==
  \/ \E h \in Http : ProxyHttp(h) \/ BrowserLeaves(h)
  \/ \E w \in Ws : OpenWebSocket(w) \/ BrowserGivesUp(w) \/ BrowserCloses(w)

TimerStep ==
  \/ \E h \in Http : Timeout(h)
  \/ \E w \in Ws : OpenTimeout(w) \/ Upgrade(w)

FrameStep ==
  \E g \in Gen : \/ HearActivity(g) \/ HearHttp(g) \/ HearOpened(g)
                 \/ HearFailed(g) \/ HearMessage(g) \/ HearClosed(g)

BoxStep ==
  \/ Start \/ Stop
  \/ \E h \in Http : LocalResponds(h) \/ LocalFinishes(h) \/ LocalErrs(h) \/ LocalBreaks(h)
  \/ \E w \in Ws : LocalOpens(w) \/ LocalPushes(w) \/ LocalCloses(w) \/ LocalFails(w)
  \/ \E a \in Agent : AgentRuns(a) \/ AgentStops(a)

Next == WireStep \/ BrowserStep \/ TimerStep \/ FrameStep \/ BoxStep

Spec == Init /\ [][Next]_vars

-----------------------------------------------------------------------------
(***************************************************************************)
(* Properties.                                                             *)
(***************************************************************************)
BothOpen(g) == gate[g] = "open" /\ box[g] = "open"

(***************************************************************************)
(* Idleness is judged on what the sandbox last said: whenever the newest   *)
(* tunnel is up and nothing about it is under way, agentBusy is the truth, *)
(* whichever transitions happened while the tunnel was down.               *)
(***************************************************************************)
BusyIsKnown ==
  current # 0 /\ BothOpen(current)
    => \/ \E f \in UnderWay(up[current]) : f.t \in {"busy", "idle"}
       \/ busy[current] = (agents # {})

(***************************************************************************)
(* The close of an old generation, seen after the sandbox dialled again,   *)
(* does not take the new one out of service.                               *)
(***************************************************************************)
NewestServes == gen # 0 /\ gate[gen] = "open" => current = gen

(***************************************************************************)
(* What runs in the sandbox on behalf of a browser is wanted by one: its   *)
(* stream is known at the gateway, or the frame that ends it is under way, *)
(* or the gateway's timer gave up on it, which the sandbox is not told.    *)
(* Nothing started for one generation lives on into the next.              *)
(***************************************************************************)
SandboxWorksForSomeone ==
  \A s \in mapped :
    /\ on[s] = gen /\ box[gen] = "open"
    /\ \/ s \in reg
       \/ gate[gen] = "closed"
       \/ \E f \in UnderWay(down[gen]) : f.id = s /\ f.t \in {"abort", "wsclose"}
       \/ s \in Http /\ told[s] = "504"
       \/ s \in Ws /\ opened[s] # "yes" /\ told[s] \in {"waiting", "502", "left"}

(***************************************************************************)
(* destroy(): "Leaving one socket open while the other dies would strand   *)
(* it".  A browser socket that is open is known to a tunnel that is up, so *)
(* the end of the tunnel closes it; the one exception is a downlink that   *)
(* failed after it had opened, whose wsfail forgets the stream.            *)
(***************************************************************************)
OpenSocketsHaveATunnel ==
  \A w \in Ws : told[w] = "begun" =>
    \/ w \in reg /\ gate[on[w]] = "open"
    \/ local[w] = "failed"

(***************************************************************************)
(* "Session events with no replay behind them": a browser is given what    *)
(* the downlink pushed from the first message on, in order and without a   *)
(* gap, although pushing may begin before the browser's socket exists.  It *)
(* takes one more than the cap to lose one and another to leave a gap.     *)
(***************************************************************************)
EventsInOrder ==
  \A w \in Ws : sent[w] <= MaxPending + 1 =>
    got[w] = [i \in 1 .. Len(got[w]) |-> i]

(***************************************************************************)
(* What browsers see is what Streams allows: one verdict, and nothing      *)
(* after the end, however late frames, timers and closes come.             *)
(***************************************************************************)
Seen == INSTANCE Streams WITH
  told <- [s \in Stream |->
             CASE told[s] \in {"502", "504"} -> "refused"
               [] told[s] \in {"over", "cut", "closing"} -> "over"
               [] OTHER -> told[s]]

ImplementsStreams == Seen!Spec

(***************************************************************************)
(* No browser waits for something that will not come, whatever the sandbox *)
(* does and whichever end closes.  A request that has not been answered    *)
(* has its timer running, and an upgrade its timer or the rest of its      *)
(* handler.  A request whose headers came has no timer any more: while     *)
(* both ends are up its end is under way or the sandbox still works on it. *)
(***************************************************************************)
NobodyWaitsForNothing ==
  /\ \A s \in Stream : told[s] = "waiting" =>
       IF s \in Http THEN s \in reg ELSE opened[s] # "done"
  /\ \A h \in Http : h \in reg /\ told[h] = "begun" /\ BothOpen(on[h])
       => \/ h \in mapped
          \/ \E f \in UnderWay(up[on[h]]) : f.id = h /\ f.t \in {"resend", "reserr"}
=============================================================================
