-------------------------------- MODULE News --------------------------------
(***************************************************************************)
(* What a page is told without asking, over the two event streams the      *)
(* gateway serves (gateway/src/stats.js): that the workspace changed       *)
(* ("watch": the sandbox's reporter, the gateway's coalescing, the panel's *)
(* tree, which then reads) and whether the backend is up ("stats": the     *)
(* tunnel registry, the status bar, which reopens its stream).             *)
(*                                                                         *)
(* The two share the stream, the machine and the gateway's process and     *)
(* nothing else, so a behaviour follows one subscription of one page.      *)
(* Names of files, figures and pacing are left out: the panel reads again  *)
(* whatever a report names, and when a timer fires is any time.            *)
(***************************************************************************)
EXTENDS Integers, Sequences

CONSTANTS
  Read,           \* reads the panel may have in flight at once (bound)
  None,
  MaxChanges,     \* changes of the directory the tree shows (bound)
  MaxMachines,    \* machines the tenant gets, one after another (bound)
  MaxFrames,      \* events on their way down a stream (bound)
  MaxDials,       \* times the backend of a machine dials in (bound)
  MaxFaults       \* failures, breaks and restarts (bound)

ASSUME NewsAssumption ==
  {MaxChanges, MaxMachines, MaxFrames, MaxDials, MaxFaults} \subseteq Nat /\ MaxMachines # 0

VARIABLES
  follows,     \* the subscription of this behaviour: "watch" or "stats"
  machine,     \* the tenant's machine: sandbox ids in the order drawn
  faults,
  \* the stream, in the browser and in serveStream
  stream,      \* "lost", "resolving", "asking", "retrying", "attached", "left"
  at,          \* the id its listener is registered under, None
  sent,        \* events on their way to the page
  \* workspace changes
  disk,        \* how often the directory changed
  held,        \* the reporter has gathered changes
  taken,       \* its report under way carries changes
  coalescing,  \* ids whose timer runs before listeners are told
  shown,       \* the state of the directory the tree shows, -1 for none
  read,        \* the panel's reads in flight
  lost,        \* history: where news the tree still misses was dropped
  \* the backend's liveness
  tunnel,      \* the tunnel of the machine is registered
  dialled,     \* record.dialled
  dials,
  checks,      \* questions to the machine started by notAnswering
  bar,         \* what the status bar says
  reopening    \* its timer runs

tree == <<disk, held, taken, coalescing, shown, read, lost>>
live == <<tunnel, dialled, dials, checks, bar, reopening>>
vars == <<follows, machine, faults, stream, at, sent, tree, live>>

Machine == 1..MaxMachines
NoRead == [at |-> "idle", known |-> -1, got |-> -1]
Frame == [ok : BOOLEAN, recover : BOOLEAN]
Stale == [ok |-> TRUE, recover |-> FALSE]  \* the one event of a watch
Up == [ok |-> TRUE, recover |-> FALSE]
Not(recover) == [ok |-> FALSE, recover |-> recover]

TypeOK ==
  /\ follows \in {"watch", "stats"}
  /\ machine \in Machine /\ faults \in 0..MaxFaults
  /\ stream \in {"lost", "resolving", "asking", "retrying", "attached", "left"}
  /\ at \in Machine \cup {None}
  /\ sent \in Seq(Frame) /\ Len(sent) <= MaxFrames
  /\ disk \in 0..MaxChanges /\ held \in BOOLEAN /\ taken \in BOOLEAN
  /\ coalescing \subseteq Machine
  /\ shown \in -1..disk
  /\ read \in [Read -> [at : {"idle", "asked", "answered"},
                        known : -1..disk, got : -1..disk]]
  /\ lost \subseteq {"unseen", "unreported", "unheard", "overtaken", "unread"}
  /\ tunnel \in BOOLEAN /\ dialled \in BOOLEAN /\ dials \in 0..MaxDials
  /\ checks \in 0..MaxFrames
  /\ bar \in {"waiting", "running", "recovery"} /\ reopening \in BOOLEAN

(***************************************************************************)
(* A page has just been drawn: the tree reads and both streams open.       *)
(***************************************************************************)
Init ==
  /\ follows \in {"watch", "stats"}
  /\ machine = 1 /\ faults = 0
  /\ stream = "lost" /\ at = None /\ sent = <<>>
  /\ disk = 0 /\ held = FALSE /\ taken = FALSE /\ coalescing = {} /\ shown = -1
  /\ \E r \in Read :
       read = [s \in Read |-> IF s = r /\ follows = "watch"
                                THEN [NoRead EXCEPT !.at = "asked"] ELSE NoRead]
  /\ lost = {}
  /\ tunnel = FALSE /\ dialled = FALSE /\ dials = 0 /\ checks = 0
  /\ bar = "waiting" /\ reopening = FALSE

Fault == faults < MaxFaults /\ faults' = faults + 1

(***************************************************************************)
(* News the tree still misses is dropped somewhere; once the tree is up to *)
(* date nothing it missed matters any more.                                *)
(***************************************************************************)
Lose(where) == lost' = IF shown' = disk' THEN {} ELSE lost \cup where

-----------------------------------------------------------------------------
(* The stream: serveStream and the browser's EventSource.                   *)

(***************************************************************************)
(* What a reading puts on the stream: itself when the backend is up, and   *)
(* else what notAnswering sends.  backendFailed answers that at once unless *)
(* the tenant's machine is silent and has answered before, or has had its  *)
(* time to; then the machine is asked, which takes a while.                *)
(***************************************************************************)
NotAnswering(up, queue) ==
  \/ /\ up \/ ~dialled
     /\ Len(queue) < MaxFrames
     /\ sent' = Append(queue, Not(FALSE)) /\ UNCHANGED checks
  \/ /\ ~up /\ checks < MaxFrames
     /\ checks' = checks + 1 /\ sent' = queue

Reading(ok, up, queue) ==
  \/ /\ ok /\ Len(queue) < MaxFrames
     /\ sent' = Append(queue, Up) /\ UNCHANGED checks
  \/ ~ok /\ NotAnswering(up, queue)

(* Everybody listening under an id is handed a reading: publish.            *)
Publish(id, ok, up) ==
  IF stream = "attached" /\ at = id THEN Reading(ok, up, sent)
                                    ELSE UNCHANGED <<sent, checks>>

IsLive(id) == id = machine /\ tunnel

Unsubscribed(where) ==
  /\ stream' = where /\ at' = None /\ sent' = <<>> /\ checks' = 0

Connect ==
  /\ stream = "lost" /\ stream' = "resolving"
  /\ UNCHANGED <<follows, machine, faults, at, sent, tree, live>>

(***************************************************************************)
(* The attach: a workspace subscription registers as soon as the machine   *)
(* is known, the bar's first asks whether its backend failed, and reads at *)
(* once when it registers.                                                 *)
(***************************************************************************)
Attach ==
  /\ stream = "resolving" /\ at' = machine
  /\ \/ /\ follows = "watch" /\ stream' = "attached"
        /\ UNCHANGED <<sent, checks>>
     \/ /\ follows = "stats" /\ (tunnel \/ ~dialled)
        /\ stream' = "attached" /\ Reading(tunnel, tunnel, sent)
     \/ /\ follows = "stats" /\ ~tunnel
        /\ stream' = "asking" /\ UNCHANGED <<sent, checks>>
  /\ UNCHANGED <<follows, machine, faults, tree, tunnel, dialled, dials, bar,
                 reopening>>

Asked ==
  /\ stream = "asking" /\ stream' = "attached"
  /\ \/ Reading(IsLive(at), tunnel, sent)
     \/ /\ Len(sent) < MaxFrames
        /\ Reading(IsLive(at), tunnel, Append(sent, Not(TRUE)))
  /\ UNCHANGED <<follows, machine, faults, at, tree, tunnel, dialled, dials,
                 bar, reopening>>

(* There is no machine and none could be had.                               *)
AttachFails ==
  /\ stream = "resolving" /\ ~tunnel /\ Fault
  /\ stream' = "retrying"
  /\ IF follows = "stats" THEN Len(sent) < MaxFrames /\ sent' = Append(sent, Not(FALSE))
                          ELSE UNCHANGED sent
  /\ UNCHANGED <<follows, machine, at, tree, live>>

Retry ==
  /\ stream = "retrying" /\ stream' = "resolving"
  /\ UNCHANGED <<follows, machine, faults, at, sent, tree, live>>

(* The connection breaks; the EventSource connects again by itself.         *)
Break ==
  /\ stream \notin {"lost", "left"} /\ Fault
  /\ Unsubscribed("lost")
  /\ bar' = "waiting"
  /\ UNCHANGED <<follows, machine, disk, held, taken, coalescing, shown, read,
                 tunnel, dialled, dials, reopening>>
  /\ Lose(IF sent = <<>> THEN {} ELSE {"unheard"})

(***************************************************************************)
(* The gateway's process ends and another takes over.  A report that was   *)
(* still being composed is sent to the new one.                            *)
(***************************************************************************)
Restart ==
  /\ Fault
  /\ Unsubscribed(IF stream = "left" THEN "left" ELSE "lost")
  /\ bar' = IF stream = "left" THEN bar ELSE "waiting"
  /\ tunnel' = FALSE /\ dialled' = FALSE
  /\ coalescing' = {} /\ taken' \in {taken, FALSE}
  /\ UNCHANGED <<follows, machine, disk, held, shown, read, dials, reopening>>
  /\ Lose((IF taken # taken' THEN {"unreported"} ELSE {})
            \cup (IF sent = <<>> /\ coalescing = {} THEN {} ELSE {"unheard"}))

(***************************************************************************)
(* The tenant's machine goes and another is made, on the same volume.  The *)
(* tunnel of the old one closes with it.                                   *)
(***************************************************************************)
Replace ==
  /\ machine < MaxMachines
  /\ machine' = machine + 1
  /\ tunnel' = FALSE /\ dialled' = FALSE
  /\ IF tunnel /\ stream = "attached" /\ at = machine
       THEN Len(sent) < MaxFrames /\ sent' = Append(sent, Not(FALSE))
       ELSE UNCHANGED sent
  /\ held' = FALSE /\ taken' = FALSE
  /\ UNCHANGED <<follows, faults, stream, at, disk, coalescing, shown, read,
                 dials, checks, bar, reopening>>
  /\ Lose(IF held \/ taken THEN {"unreported"} ELSE {})

-----------------------------------------------------------------------------
(* The workspace: the reporter, the gateway's timer, the panel's tree.      *)

(***************************************************************************)
(* Something changes in the directory.  The watcher gathers it, unless it  *)
(* happened where no watch was yet or none could be had.                   *)
(***************************************************************************)
Change ==
  /\ follows = "watch" /\ disk < MaxChanges /\ disk' = disk + 1
  /\ \/ /\ held' = TRUE /\ UNCHANGED <<shown, faults>> /\ Lose({})
     \/ /\ Fault /\ UNCHANGED <<held, shown>> /\ Lose({"unseen"})
  /\ UNCHANGED <<follows, machine, stream, at, sent, taken, coalescing, read, live>>

(* What was gathered goes into the next report, before it is sent.          *)
Take ==
  /\ held /\ ~taken
  /\ taken' = TRUE /\ held' = FALSE
  /\ UNCHANGED <<follows, machine, faults, stream, at, sent, disk, coalescing,
                 shown, read, lost, live>>

(* Mistake: the timer is started without looking whether anybody listens.   *)
ReceiveForNobody ==
  /\ taken /\ taken' = FALSE
  /\ coalescing' = coalescing \cup {at}
  /\ UNCHANGED <<follows, machine, faults, stream, at, sent, disk, held, shown,
                 read, lost, live>>

(***************************************************************************)
(* receiveReport: dropped when nobody listens under the sandbox's id, and  *)
(* one timer at a time for those who do.                                   *)
(***************************************************************************)
ReceiveReport ==
  /\ taken /\ taken' = FALSE
  /\ LET heard == stream = "attached" /\ at = machine
     IN  /\ coalescing' = IF heard THEN coalescing \cup {machine} ELSE coalescing
         /\ UNCHANGED <<disk, shown>>
         /\ Lose(IF heard THEN {} ELSE {"unheard"})
  /\ UNCHANGED <<follows, machine, faults, stream, at, sent, held, read, live>>

(* The gateway does not answer, or the sandbox's bucket is empty.           *)
ReportDropped ==
  /\ taken /\ taken' = FALSE /\ Fault
  /\ UNCHANGED <<follows, machine, stream, at, sent, disk, held, coalescing,
                 shown, read, live>>
  /\ Lose({"unreported"})

(* The timer runs out and whoever listens by now is told to look again.     *)
Tell ==
  /\ \E id \in coalescing :
       /\ coalescing' = coalescing \ {id}
       /\ UNCHANGED <<disk, shown>>
       /\ IF stream = "attached" /\ at = id
            THEN /\ Len(sent) < MaxFrames /\ sent' = Append(sent, Stale)
                 /\ Lose({})
            ELSE UNCHANGED sent /\ Lose({"unheard"})
  /\ UNCHANGED <<follows, machine, faults, stream, at, held, taken, read, live>>

(* treeStore.load: asks, and remembers what it knew.                        *)
Load ==
  \E r \in Read :
    /\ read[r].at = "idle"
    /\ read' = [read EXCEPT ![r] = [at |-> "asked", known |-> shown, got |-> -1]]

HearStale ==
  /\ follows = "watch" /\ sent # <<>>
  /\ Load /\ sent' = Tail(sent)
  /\ UNCHANGED <<follows, machine, faults, stream, at, disk, held, taken,
                 coalescing, shown, lost, live>>

(* The refresh control, or the directory is opened once more.               *)
Refresh ==
  /\ follows = "watch" /\ Load
  /\ UNCHANGED <<follows, machine, faults, stream, at, sent, disk, held, taken,
                 coalescing, shown, lost, live>>

(* The machine lists the directory.                                         *)
List(r) ==
  /\ read[r].at = "asked"
  /\ read' = [read EXCEPT ![r].at = "answered", ![r].got = disk]
  /\ UNCHANGED <<follows, machine, faults, stream, at, sent, disk, held, taken,
                 coalescing, shown, lost, live>>

(* The answer replaces what the tree shows, whichever question it answers.  *)
Listed(r) ==
  /\ read[r].at = "answered"
  /\ shown' = read[r].got /\ read' = [read EXCEPT ![r] = NoRead]
  /\ UNCHANGED <<follows, machine, faults, stream, at, sent, disk, held, taken,
                 coalescing, live>>
  /\ Lose(IF read[r].got < shown THEN {"overtaken"} ELSE {})

(* A failed read puts back what was known when it was asked.                *)
ListFails(r) ==
  /\ read[r].at # "idle" /\ Fault
  /\ shown' = read[r].known /\ read' = [read EXCEPT ![r] = NoRead]
  /\ UNCHANGED <<follows, machine, stream, at, sent, disk, held, taken,
                 coalescing, live>>
  /\ Lose({"unread"})

-----------------------------------------------------------------------------
(* The backend: the tunnel registry and the status bar.                     *)

(* A machine dials in; the newest tunnel of a machine closes.               *)
DialIn ==
  /\ follows = "stats" /\ ~tunnel /\ dials < MaxDials
  /\ tunnel' = TRUE /\ dialled' = TRUE /\ dials' = dials + 1
  /\ Publish(machine, TRUE, TRUE)
  /\ UNCHANGED <<follows, machine, faults, stream, at, tree, bar, reopening>>

(* Mistake: only a tunnel that appears is told of.                          *)
HangUpSilently ==
  /\ tunnel /\ tunnel' = FALSE
  /\ UNCHANGED <<follows, machine, faults, stream, at, sent, tree, dialled,
                 dials, checks, bar, reopening>>

HangUp ==
  /\ tunnel /\ tunnel' = FALSE
  /\ Publish(machine, FALSE, FALSE)
  /\ UNCHANGED <<follows, machine, faults, stream, at, tree, dialled, dials,
                 bar, reopening>>

(* A report with figures carries the state along.                           *)
Figures ==
  /\ follows = "stats" /\ stream = "attached" /\ at = machine
  /\ Publish(machine, tunnel, tunnel)
  /\ UNCHANGED <<follows, machine, faults, stream, at, tree, tunnel, dialled,
                 dials, bar, reopening>>

(* The machine answers a question of notAnswering, by now of the past.      *)
Checked ==
  /\ checks > 0 /\ Len(sent) < MaxFrames
  /\ checks' = checks - 1
  /\ \E alive \in BOOLEAN : sent' = Append(sent, Not(alive))
  /\ UNCHANGED <<follows, machine, faults, stream, at, tree, tunnel, dialled,
                 dials, bar, reopening>>

HearUp ==
  /\ follows = "stats" /\ sent # <<>> /\ Head(sent).ok
  /\ bar' = "running" /\ reopening' = FALSE /\ sent' = Tail(sent)
  /\ UNCHANGED <<follows, machine, faults, stream, at, tree, tunnel, dialled,
                 dials, checks>>

(* Mistake: the bar waits for the dial-in to be pushed to it.               *)
HearDownAndWait ==
  /\ follows = "stats" /\ sent # <<>> /\ ~Head(sent).ok /\ ~Head(sent).recover
  /\ bar' = "waiting" /\ sent' = Tail(sent)
  /\ UNCHANGED <<follows, machine, faults, stream, at, tree, tunnel, dialled,
                 dials, checks, reopening>>

HearDown ==
  /\ follows = "stats" /\ sent # <<>> /\ ~Head(sent).ok /\ ~Head(sent).recover
  /\ bar' = "waiting" /\ reopening' = TRUE /\ sent' = Tail(sent)
  /\ UNCHANGED <<follows, machine, faults, stream, at, tree, tunnel, dialled,
                 dials, checks>>

HearRecover ==
  /\ follows = "stats" /\ sent # <<>> /\ Head(sent).recover
  /\ bar' = "recovery" /\ reopening' = FALSE
  /\ Unsubscribed("left")
  /\ UNCHANGED <<follows, machine, faults, tree, tunnel, dialled, dials>>

Reopen ==
  /\ reopening /\ reopening' = FALSE
  /\ Unsubscribed("lost")
  /\ UNCHANGED <<follows, machine, faults, tree, tunnel, dialled, dials, bar>>

(* The person starts the backend from the recovery page, or not, and        *)
(* returns to the application.                                              *)
GoBack ==
  /\ bar = "recovery" /\ bar' = "waiting" /\ stream' = "lost"
  /\ dialled' \in {dialled, FALSE}
  /\ UNCHANGED <<follows, machine, faults, at, sent, tree, tunnel, dials, checks,
                 reopening>>

-----------------------------------------------------------------------------
TreeNext ==
  \/ Change \/ Take \/ ReceiveReport \/ ReportDropped \/ Tell
  \/ HearStale \/ Refresh
  \/ \E r \in Read : List(r) \/ Listed(r) \/ ListFails(r)

BarNext ==
  \/ DialIn \/ HangUp \/ Figures \/ Checked
  \/ HearUp \/ HearDown \/ HearRecover \/ Reopen \/ GoBack

Next ==
  \/ Connect \/ Attach \/ Asked \/ AttachFails \/ Retry \/ Break
  \/ Restart \/ Replace
  \/ TreeNext \/ BarNext

Spec == Init /\ [][Next]_vars

(***************************************************************************)
(* Connections are made, timers run out, what is sent arrives, a question  *)
(* to a machine is answered, and the reporter keeps going round.  Nothing  *)
(* makes a backend dial in, a person return or a directory change.         *)
(***************************************************************************)
Fairness ==
  /\ WF_vars(Connect) /\ WF_vars(Attach) /\ WF_vars(Asked) /\ WF_vars(Retry)
  /\ WF_vars(Take) /\ WF_vars(ReceiveReport) /\ WF_vars(Tell)
  /\ WF_vars(HearStale) /\ WF_vars(Checked)
  /\ WF_vars(HearUp \/ HearDown \/ HearRecover) /\ WF_vars(Reopen)
  /\ \A r \in Read : WF_vars(List(r)) /\ WF_vars(Listed(r))

FairSpec == Spec /\ Fairness

-----------------------------------------------------------------------------
(***************************************************************************)
(* A page that is wrong is about to hear, or what it waits for was dropped *)
(* at a place that is known.  A tree that is behind its directory has the  *)
(* change gathered, in a report, behind the gateway's timer or on its      *)
(* stream, or a read in flight that will show it; else no watch saw the    *)
(* change, its report failed, nobody listened under the id that reported   *)
(* it, an older answer came last, or the read failed.  A bar that says     *)
(* running over a dead backend has the contrary under way, and one that    *)
(* waits for a backend that is up has a reading or its reopening, however  *)
(* readings and answers of the machine overtake one another.               *)
(***************************************************************************)
TreeIsBeingTold ==
  follows = "watch" /\ shown # disk =>
    \/ held \/ taken \/ coalescing # {} \/ sent # <<>>
    \/ \E r \in Read : read[r].at = "asked" \/ read[r].got = disk
    \/ lost # {}

BarIsBeingTold ==
  follows = "stats" /\ stream = "attached" =>
    /\ bar = "running" /\ ~tunnel =>
         checks > 0 \/ \E i \in DOMAIN sent : ~sent[i].ok
    /\ bar = "waiting" /\ tunnel =>
         reopening \/ checks > 0 \/ sent # <<>>

PagesAreBeingTold == TreeIsBeingTold /\ BarIsBeingTold

(***************************************************************************)
(* The tree catches up with a directory that has stopped changing as long  *)
(* as no news is dropped, and the bar agrees in the end with a backend     *)
(* that stays up or stays down, unless the page has gone to recovery.      *)
(***************************************************************************)
PagesCatchUp ==
  /\ follows = "watch" /\ [](lost = {}) => <>[](shown = disk)
  /\ follows = "stats" /\ <>[]tunnel => <>[](bar \in {"running", "recovery"})
  /\ follows = "stats" /\ <>[]~tunnel => <>[](bar # "running")
=============================================================================
