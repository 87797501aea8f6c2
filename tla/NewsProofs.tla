----------------------------- MODULE NewsProofs -----------------------------
(***************************************************************************)
(* What holds of the two streams for every number of reads, machines,      *)
(* frames and faults.                                                      *)
(***************************************************************************)
EXTENDS News, TLAPS

\* Only the bar reopens its stream: a watch never loses an event that way.
WatchStaysOpen == follows = "watch" => ~reopening

\* A reading that is up, at place i, is taken back by a later one or by an
\* answer of the machine.
TakenBack(i) == checks > 0 \/ \E j \in DOMAIN sent : j > i /\ ~sent[j].ok

(***************************************************************************)
(* Before it is attached a bar hears no good news, and attached it is on   *)
(* its way: it waits with something to come, and what it believes of a     *)
(* backend that is down, or of a machine it does not listen to, is taken   *)
(* back.                                                                   *)
(***************************************************************************)
Hopeless == stream # "attached" => bar # "running" /\ \A i \in DOMAIN sent : ~sent[i].ok
WaitsForSomething ==
  stream = "attached" /\ bar = "waiting" => reopening \/ checks > 0 \/ sent # <<>>
WrongIsTakenBack ==
  stream = "attached" /\ ~IsLive(at) =>
    /\ bar = "running" => TakenBack(0)
    /\ \A i \in DOMAIN sent : sent[i].ok => TakenBack(i)
PagesLeave ==
  /\ reopening => bar # "running"
  /\ bar = "recovery" => stream = "left" /\ ~reopening
\* The reporter and its timer belong to the watch.
NothingReported == ~held /\ ~taken /\ coalescing = {}

BarInv ==
  follows = "stats" =>
    Hopeless /\ WaitsForSomething /\ WrongIsTakenBack /\ PagesLeave /\ NothingReported

IInv == TypeOK /\ TreeIsBeingTold /\ WatchStaysOpen /\ BarInv

LEMMA BoundsAssumed ==
  /\ MaxChanges \in Nat /\ MaxMachines \in Nat \ {0} /\ MaxFrames \in Nat
  /\ MaxDials \in Nat /\ MaxFaults \in Nat
BY NewsAssumption

-----------------------------------------------------------------------------
(***************************************************************************)
(* Events on the stream: one more at the end, or one less at the front.    *)
(***************************************************************************)
LEMMA Frames ==
  /\ Up \in Frame /\ Up.ok /\ Stale \in Frame
  /\ \A b \in BOOLEAN : Not(b) \in Frame /\ ~Not(b).ok
BY DEF Up, Stale, Not, Frame

LEMMA Appended ==
  ASSUME NEW q \in Seq(Frame), NEW f \in Frame, NEW w, w = Append(q, f)
  PROVE  /\ w \in Seq(Frame) /\ Len(w) = Len(q) + 1 /\ w # <<>>
         /\ DOMAIN q = 1 .. Len(q) /\ DOMAIN w = 1 .. Len(q) + 1 /\ Len(q) \in Nat
         /\ \A i \in 1 .. Len(q) : w[i] = q[i]
         /\ w[Len(q) + 1] = f
OBVIOUS

LEMMA Tailed ==
  ASSUME NEW q \in Seq(Frame), q # <<>>, NEW w, w = Tail(q)
  PROVE  /\ w \in Seq(Frame) /\ Len(w) = Len(q) - 1 /\ Len(q) \in Nat \ {0}
         /\ DOMAIN q = 1 .. Len(q) /\ DOMAIN w = 1 .. Len(q) - 1
         /\ \A i \in 1 .. Len(q) - 1 : w[i] = q[i + 1]
         /\ Head(q) = q[1] /\ Head(q) \in Frame
<1>1. Len(q) \in Nat \ {0} /\ q \in [1 .. Len(q) -> Frame] /\ Head(q) = q[1]
  OBVIOUS
<1> QED
  BY <1>1

LEMMA ReadingSends ==
  ASSUME checks \in 0 .. MaxFrames, NEW q \in Seq(Frame), Len(q) <= MaxFrames,
         NEW ok \in BOOLEAN, NEW up \in BOOLEAN, Reading(ok, up, q)
  PROVE  /\ sent' \in Seq(Frame) /\ Len(sent') <= MaxFrames /\ checks' \in 0 .. MaxFrames
         /\ \/ ~ok /\ checks' = checks + 1 /\ sent' = q
            \/ checks' = checks /\ \E f \in Frame : f.ok = ok /\ sent' = Append(q, f)
<1>1. CASE ok /\ Len(q) < MaxFrames /\ sent' = Append(q, Up) /\ UNCHANGED checks
  <2>1. sent' \in Seq(Frame) /\ Len(sent') = Len(q) + 1 /\ Len(q) \in Nat
    BY <1>1, Frames, Appended
  <2>2. Len(sent') <= MaxFrames
    BY <1>1, <2>1, BoundsAssumed
  <2> QED
    BY <1>1, <2>1, <2>2, Frames
<1>2. CASE ~ok /\ NotAnswering(up, q)
  <2>1. CASE Len(q) < MaxFrames /\ sent' = Append(q, Not(FALSE)) /\ UNCHANGED checks
    <3>1. sent' \in Seq(Frame) /\ Len(sent') = Len(q) + 1 /\ Len(q) \in Nat
      BY <2>1, Frames, Appended
    <3>2. Len(sent') <= MaxFrames
      BY <2>1, <3>1, BoundsAssumed
    <3>3. Not(FALSE) \in Frame /\ Not(FALSE).ok = FALSE
      BY Frames DEF Frame
    <3> QED
      BY <1>2, <2>1, <3>1, <3>2, <3>3
  <2>2. CASE checks < MaxFrames /\ checks' = checks + 1 /\ sent' = q
    BY <1>2, <2>2, BoundsAssumed
  <2> QED
    BY <1>2, <2>1, <2>2 DEF NotAnswering
<1> QED
  BY <1>1, <1>2 DEF Reading

\* The empty stream of a subscription that ended.
LEMMA NothingSent == <<>> \in Seq(Frame) /\ Len(<<>>) = 0 /\ DOMAIN <<>> = {}
OBVIOUS

(***************************************************************************)
(* Types, one lemma for the stream, one for the tree and one for the bar.  *)
(***************************************************************************)
ReadShape == [at : {"idle", "asked", "answered"}, known : -1..disk, got : -1..disk]

TreeTypeOK ==
  /\ disk \in 0..MaxChanges /\ held \in BOOLEAN /\ taken \in BOOLEAN
  /\ coalescing \subseteq Machine /\ shown \in -1..disk /\ read \in [Read -> ReadShape]
  /\ lost \subseteq {"unseen", "unreported", "unheard", "overtaken", "unread"}

StreamTypeOK ==
  /\ follows \in {"watch", "stats"} /\ machine \in Machine /\ faults \in 0..MaxFaults
  /\ stream \in {"lost", "resolving", "asking", "retrying", "attached", "left"}
  /\ at \in Machine \cup {None}
  /\ sent \in Seq(Frame) /\ Len(sent) <= MaxFrames /\ checks \in 0..MaxFrames
  /\ tunnel \in BOOLEAN /\ dialled \in BOOLEAN /\ dials \in 0..MaxDials
  /\ bar \in {"waiting", "running", "recovery"} /\ reopening \in BOOLEAN

LEMMA TypesSplit == TypeOK <=> StreamTypeOK /\ TreeTypeOK
BY DEF TypeOK, StreamTypeOK, TreeTypeOK, ReadShape

LEMMA Losses ==
  ASSUME NEW where, Lose(where),
         lost \subseteq {"unseen", "unreported", "unheard", "overtaken", "unread"},
         where \subseteq {"unseen", "unreported", "unheard", "overtaken", "unread"}
  PROVE  lost' \subseteq {"unseen", "unreported", "unheard", "overtaken", "unread"}
BY DEF Lose

LEMMA FaultCounted ==
  ASSUME faults \in 0..MaxFaults, Fault
  PROVE  faults' \in 0..MaxFaults
BY BoundsAssumed DEF Fault

LEMMA StreamTypes ==
  ASSUME StreamTypeOK, Next
  PROVE  StreamTypeOK'
<1> USE DEF StreamTypeOK
<1>1. CASE Connect \/ Retry
  BY <1>1 DEF Connect, Retry, live
<1>2. CASE Attach
  <2>1. sent' \in Seq(Frame) /\ Len(sent') <= MaxFrames /\ checks' \in 0..MaxFrames
    BY <1>2, ReadingSends DEF Attach
  <2> QED
    BY <1>2, <2>1 DEF Attach
<1>3. CASE Asked
  <2>1. IsLive(at) \in BOOLEAN
    BY DEF IsLive
  <2>2. CASE Reading(IsLive(at), tunnel, sent)
    <3>1. sent' \in Seq(Frame) /\ Len(sent') <= MaxFrames /\ checks' \in 0..MaxFrames
      BY <2>1, <2>2, ReadingSends
    <3> QED
      BY <1>3, <3>1 DEF Asked
  <2>3. CASE Len(sent) < MaxFrames /\ Reading(IsLive(at), tunnel, Append(sent, Not(TRUE)))
    <3>1. PICK q \in Seq(Frame) : q = Append(sent, Not(TRUE)) /\ Len(q) = Len(sent) + 1
      BY Frames, Appended
    <3>2. Reading(IsLive(at), tunnel, q)
      BY <2>3, <3>1, Zenon
    <3>3. Len(q) <= MaxFrames
      BY <2>3, <3>1, BoundsAssumed
    <3>4. sent' \in Seq(Frame) /\ Len(sent') <= MaxFrames /\ checks' \in 0..MaxFrames
      BY <2>1, <3>2, <3>3, ReadingSends
    <3> QED
      BY <1>3, <3>4 DEF Asked
  <2> QED
    BY <1>3, <2>2, <2>3 DEF Asked
<1>4. ASSUME NEW f \in Frame, Len(sent) < MaxFrames, sent' = Append(sent, f)
      PROVE  sent' \in Seq(Frame) /\ Len(sent') <= MaxFrames
  BY <1>4, Appended, BoundsAssumed
<1>5. CASE AttachFails
  BY <1>4, <1>5, Frames, FaultCounted DEF AttachFails, live
<1>6. CASE Break \/ Restart
  <2>1. /\ UNCHANGED <<follows, machine, dials, reopening>> /\ Fault
        /\ at' = None /\ sent' = <<>> /\ checks' = 0
        /\ stream' \in {"lost", "left"} /\ bar' \in {"waiting", bar}
        /\ tunnel' \in BOOLEAN /\ dialled' \in BOOLEAN
    BY <1>6 DEF Break, Restart, Unsubscribed
  <2>2. 0 \in 0..MaxFrames /\ Len(sent') <= MaxFrames /\ sent' \in Seq(Frame)
    BY <2>1, NothingSent, BoundsAssumed
  <2> QED
    BY <2>1, <2>2, FaultCounted
<1>7. CASE Replace
  <2>1. machine' \in Machine
    BY <1>7, BoundsAssumed DEF Replace, Machine
  <2> QED
    BY <1>4, <1>7, <2>1, Frames DEF Replace, Machine
<1>8. CASE Change \/ Take \/ ReceiveReport \/ ReportDropped \/ Refresh
           \/ \E r \in Read : List(r) \/ Listed(r) \/ ListFails(r)
  <2>1. UNCHANGED <<follows, machine, stream, at, sent, live>>
    BY <1>8 DEF Change, Take, ReceiveReport, ReportDropped, Refresh, List, Listed, ListFails
  <2>2. UNCHANGED faults \/ Fault
    BY <1>8 DEF Change, Take, ReceiveReport, ReportDropped, Refresh, List, Listed, ListFails
  <2> QED
    BY <2>1, <2>2, FaultCounted DEF live
<1>9. CASE Tell
  <2>1. UNCHANGED <<follows, machine, faults, stream, at, live>>
    BY <1>9 DEF Tell
  <2>2. sent' = sent \/ (Len(sent) < MaxFrames /\ sent' = Append(sent, Stale))
    BY <1>9 DEF Tell
  <2> QED
    BY <1>4, <2>1, <2>2, Frames DEF live
<1>10. ASSUME sent # <<>>, sent' = Tail(sent)
       PROVE  sent' \in Seq(Frame) /\ Len(sent') <= MaxFrames
  BY <1>10, Tailed, BoundsAssumed
<1>11. CASE HearStale
  BY <1>10, <1>11 DEF HearStale, live
<1>12. CASE HearUp \/ HearDown
  BY <1>10, <1>12 DEF HearUp, HearDown
<1>13. CASE HearRecover \/ Reopen
  <2>1. /\ UNCHANGED <<follows, machine, faults, tunnel, dialled, dials>>
        /\ at' = None /\ sent' = <<>> /\ checks' = 0 /\ reopening' = FALSE
        /\ stream' \in {"lost", "left"} /\ bar' \in {"recovery", bar}
    BY <1>13 DEF HearRecover, Reopen, Unsubscribed
  <2>2. 0 \in 0..MaxFrames /\ Len(sent') <= MaxFrames /\ sent' \in Seq(Frame)
    BY <2>1, NothingSent, BoundsAssumed
  <2> QED
    BY <2>1, <2>2
<1>14. CASE GoBack
  BY <1>14 DEF GoBack
<1>15. ASSUME NEW ok \in BOOLEAN, NEW up \in BOOLEAN, Publish(machine, ok, up)
       PROVE  sent' \in Seq(Frame) /\ Len(sent') <= MaxFrames /\ checks' \in 0..MaxFrames
  BY <1>15, ReadingSends DEF Publish
<1>16. CASE DialIn
  <2>1. dials' \in 0..MaxDials
    BY <1>16, BoundsAssumed DEF DialIn
  <2>2. sent' \in Seq(Frame) /\ Len(sent') <= MaxFrames /\ checks' \in 0..MaxFrames
    BY <1>15, <1>16 DEF DialIn
  <2> QED
    BY <1>16, <2>1, <2>2 DEF DialIn
<1>17. CASE HangUp \/ Figures
  <2>1. sent' \in Seq(Frame) /\ Len(sent') <= MaxFrames /\ checks' \in 0..MaxFrames
    BY <1>15, <1>17 DEF HangUp, Figures
  <2> QED
    BY <1>17, <2>1 DEF HangUp, Figures
<1>18. CASE Checked
  <2>1. sent' \in Seq(Frame) /\ Len(sent') <= MaxFrames
    BY <1>4, <1>18, Frames DEF Checked
  <2>2. checks' \in 0..MaxFrames
    BY <1>18, BoundsAssumed DEF Checked
  <2> QED
    BY <1>18, <2>1, <2>2 DEF Checked
<1> QED
  BY <1>1, <1>2, <1>3, <1>5, <1>6, <1>7, <1>8, <1>9, <1>11, <1>12, <1>13, <1>14, <1>16, <1>17,
     <1>18 DEF Next, TreeNext, BarNext

LEMMA ReadingsOfTheTree ==
  ASSUME TreeTypeOK
  PROVE  /\ NoRead \in ReadShape /\ NoRead.at = "idle" /\ NoRead.got = -1
         /\ disk \in Nat /\ shown \in Int /\ shown <= disk
         /\ Load => \E r \in Read : /\ read' \in [Read -> ReadShape] /\ read'[r].at = "asked"
                                    /\ read[r].at = "idle"
                                    /\ \A q \in Read \ {r} : read'[q] = read[q]
<1>1. disk \in Nat /\ -1 \in -1..disk /\ shown \in Int /\ shown <= disk
  BY BoundsAssumed DEF TreeTypeOK
<1>2. NoRead \in ReadShape /\ NoRead.at = "idle" /\ NoRead.got = -1
  BY <1>1 DEF NoRead, ReadShape
<1>3. ASSUME NEW r \in Read, read[r].at = "idle",
             read' = [read EXCEPT ![r] = [at |-> "asked", known |-> shown, got |-> -1]]
      PROVE  /\ read' \in [Read -> ReadShape] /\ read'[r].at = "asked" /\ read[r].at = "idle"
             /\ \A q \in Read \ {r} : read'[q] = read[q]
  <2>1. [at |-> "asked", known |-> shown, got |-> -1] \in ReadShape
    BY <1>1 DEF TreeTypeOK, ReadShape
  <2> QED
    BY <1>3, <2>1 DEF TreeTypeOK
<1> QED
  BY <1>1, <1>2, <1>3 DEF Load

LEMMA AnswerWritten ==
  ASSUME NEW S, NEW K, NEW x \in [at : S, known : K, got : K], NEW s \in S, NEW d \in K,
         NEW a, a = [x EXCEPT !.at = s, !.got = d]
  PROVE  a \in [at : S, known : K, got : K] /\ a.at = s /\ a.got = d
<1>1. PICK y : y = [x EXCEPT !.at = s]
  OBVIOUS
<1>2. y \in [at : S, known : K, got : K] /\ y.at = s
  BY <1>1
<1>3. a = [y EXCEPT !.got = d]
  BY <1>1
<1> QED
  BY <1>2, <1>3

LEMMA Listing ==
  ASSUME TreeTypeOK, NEW r \in Read, List(r)
  PROVE  /\ read' \in [Read -> ReadShape] /\ read'[r].at = "answered" /\ read'[r].got = disk
         /\ \A q \in Read \ {r} : read'[q] = read[q]
<1>1. disk \in -1..disk /\ read[r] \in ReadShape
  BY ReadingsOfTheTree DEF TreeTypeOK
<1>2. PICK a : a = [read[r] EXCEPT !.at = "answered", !.got = disk]
  OBVIOUS
<1>3. a \in ReadShape /\ a.at = "answered" /\ a.got = disk
  BY <1>1, <1>2, AnswerWritten DEF ReadShape
<1>4. read' = [read EXCEPT ![r] = a]
  BY <1>2 DEF List, TreeTypeOK
<1> QED
  BY <1>3, <1>4 DEF TreeTypeOK

LEMMA TreeTypes ==
  ASSUME StreamTypeOK, TreeTypeOK, Next
  PROVE  TreeTypeOK'
<1>1. CASE UNCHANGED tree
  BY <1>1 DEF TreeTypeOK, ReadShape, tree
<1>2. ASSUME UNCHANGED <<disk, shown, read>>, held' \in BOOLEAN, taken' \in BOOLEAN,
             coalescing' \subseteq coalescing \cup {machine}, NEW where, Lose(where),
             where \subseteq {"unseen", "unreported", "unheard", "overtaken", "unread"}
      PROVE  TreeTypeOK'
  <2>1. lost' \subseteq {"unseen", "unreported", "unheard", "overtaken", "unread"}
    BY <1>2, Losses DEF TreeTypeOK
  <2> QED
    BY <1>2, <2>1 DEF TreeTypeOK, StreamTypeOK, ReadShape
<1>3. CASE Break
  BY <1>2, <1>3 DEF Break, TreeTypeOK
<1>4. CASE Restart
  <2>1. /\ UNCHANGED <<disk, shown, read, held>> /\ coalescing' = {} /\ taken' \in {taken, FALSE}
        /\ Lose((IF taken # taken' THEN {"unreported"} ELSE {})
                  \cup (IF sent = <<>> /\ coalescing = {} THEN {} ELSE {"unheard"}))
    BY <1>4 DEF Restart
  <2> QED
    BY <1>2, <2>1 DEF TreeTypeOK
<1>5. CASE Replace
  BY <1>2, <1>5 DEF Replace
<1>6. CASE Change
  <2>1. /\ UNCHANGED <<shown, read, taken, coalescing>> /\ held' \in BOOLEAN
        /\ disk < MaxChanges /\ disk' = disk + 1
        /\ Lose({}) \/ Lose({"unseen"})
    BY <1>6 DEF Change, TreeTypeOK
  <2>2. lost' \subseteq {"unseen", "unreported", "unheard", "overtaken", "unread"}
    BY <2>1, Losses DEF TreeTypeOK
  <2>3. disk' \in 0..MaxChanges /\ shown \in -1..disk' /\ \A n \in -1..disk : n \in -1..disk'
    BY <2>1, ReadingsOfTheTree, BoundsAssumed DEF TreeTypeOK
  <2>4. read' \in [Read -> ReadShape']
    BY <2>1, <2>3 DEF TreeTypeOK, ReadShape
  <2> QED
    BY <2>1, <2>2, <2>3, <2>4 DEF TreeTypeOK
<1>7. CASE Take
  BY <1>7 DEF Take, TreeTypeOK, ReadShape
<1>8. CASE ReceiveReport \/ ReportDropped
  BY <1>2, <1>8 DEF ReceiveReport, ReportDropped, TreeTypeOK, Machine
<1>9. CASE Tell
  <2>1. /\ UNCHANGED <<disk, shown, read, held, taken>> /\ coalescing' \subseteq coalescing
        /\ Lose({}) \/ Lose({"unheard"})
    BY <1>9 DEF Tell
  <2> QED
    BY <1>2, <2>1 DEF TreeTypeOK
<1>10. CASE HearStale \/ Refresh
  <2>1. Load /\ UNCHANGED <<disk, held, taken, coalescing, shown, lost>>
    BY <1>10 DEF HearStale, Refresh
  <2>2. read' \in [Read -> ReadShape]
    BY <2>1, ReadingsOfTheTree
  <2> QED
    BY <2>1, <2>2 DEF TreeTypeOK, ReadShape
<1>11. ASSUME NEW r \in Read, List(r) PROVE TreeTypeOK'
  BY <1>11, Listing DEF List, TreeTypeOK, ReadShape
<1>12. ASSUME NEW r \in Read, Listed(r) \/ ListFails(r) PROVE TreeTypeOK'
  <2>1. /\ UNCHANGED <<disk, held, taken, coalescing>> /\ read' = [read EXCEPT ![r] = NoRead]
        /\ shown' \in {read[r].got, read[r].known}
        /\ \/ Lose(IF read[r].got < shown THEN {"overtaken"} ELSE {})
           \/ Lose({"unread"})
    BY <1>12 DEF Listed, ListFails
  <2>2. lost' \subseteq {"unseen", "unreported", "unheard", "overtaken", "unread"}
    BY <2>1, Losses DEF TreeTypeOK
  <2>3. shown' \in -1..disk
    BY <2>1 DEF TreeTypeOK, ReadShape
  <2>4. read' \in [Read -> ReadShape]
    BY <2>1, ReadingsOfTheTree DEF TreeTypeOK
  <2> QED
    BY <2>1, <2>2, <2>3, <2>4 DEF TreeTypeOK, ReadShape
<1> QED
  BY <1>1, <1>3, <1>4, <1>5, <1>6, <1>7, <1>8, <1>9, <1>10, <1>11, <1>12
     DEF Next, TreeNext, BarNext, Connect, Attach, Asked, AttachFails, Retry, DialIn, HangUp,
         Figures, Checked, HearUp, HearDown, HearRecover, Reopen, GoBack

-----------------------------------------------------------------------------
(***************************************************************************)
(* The tree: what it misses is on its way through the reporter, the timer, *)
(* the stream and a read, and no step drops it without leaving a trace.    *)
(***************************************************************************)
OnItsWay == held \/ taken \/ coalescing # {} \/ sent # <<>> \/ lost # {}

LEMMA NewsOnItsWay ==
  ASSUME TreeIsBeingTold, UNCHANGED <<follows, shown, disk, read>>,
         shown # disk /\ OnItsWay => OnItsWay'
  PROVE  TreeIsBeingTold'
BY DEF TreeIsBeingTold, OnItsWay

LEMMA Lost ==
  ASSUME NEW where, Lose(where), shown' # disk'
  PROVE  lost' = lost \cup where
BY DEF Lose

LEMMA FollowsKept == Next => follows' = follows
BY DEF Next, TreeNext, BarNext, Connect, Attach, Asked, AttachFails, Retry, Break, Restart,
       Replace, Change, Take, ReceiveReport, ReportDropped, Tell, HearStale, Refresh, List,
       Listed, ListFails, DialIn, HangUp, Figures, Checked, HearUp, HearDown, HearRecover,
       Reopen, GoBack

LEMMA TreeStaysTold ==
  ASSUME StreamTypeOK, TreeTypeOK, TreeIsBeingTold, WatchStaysOpen, Next
  PROVE  TreeIsBeingTold' /\ WatchStaysOpen'
<1>1. UNCHANGED follows
  BY FollowsKept
<1>2. CASE follows = "stats"
  BY <1>1, <1>2 DEF TreeIsBeingTold, WatchStaysOpen
<1>3. CASE follows = "watch"
  <2>1. WatchStaysOpen'
    BY <1>1, <1>3 DEF WatchStaysOpen, Next, TreeNext, BarNext, Connect, Attach, Asked, AttachFails,
         Retry, Break, Restart, Replace, Change, Take, ReceiveReport, ReportDropped, Tell,
         HearStale, Refresh, List, Listed, ListFails, DialIn, HangUp, Figures, Checked, HearUp,
         HearDown, HearRecover, Reopen, GoBack, live
  <2> SUFFICES TreeIsBeingTold'
    BY <2>1
  <2>2. ASSUME UNCHANGED <<shown, disk, read>>, shown # disk /\ OnItsWay => OnItsWay'
        PROVE  TreeIsBeingTold'
    BY <1>1, <2>2, NewsOnItsWay
  <2>3. ASSUME UNCHANGED tree, sent # <<>> => sent' # <<>>
        PROVE  TreeIsBeingTold'
    <3>1. OnItsWay => OnItsWay'
      BY <2>3 DEF OnItsWay, tree
    <3> QED
      BY <2>2, <2>3, <3>1 DEF tree
  <2>4. ASSUME NEW f \in Frame, sent' = Append(sent, f)
        PROVE  sent' # <<>>
    BY <2>4, Appended DEF StreamTypeOK
  <2>5. CASE Connect \/ Retry \/ GoBack \/ AttachFails
    BY <1>3, <2>3, <2>5 DEF Connect, Retry, GoBack, AttachFails
  <2>6. CASE Take
    <3>1. OnItsWay' /\ UNCHANGED <<shown, disk, read>>
      BY <2>6 DEF Take, OnItsWay
    <3> QED
      BY <2>2, <3>1
  <2>7. CASE Attach
    BY <1>3, <2>3, <2>7 DEF Attach
  <2>8. ASSUME NEW ok \in BOOLEAN, NEW up \in BOOLEAN, NEW q \in Seq(Frame), Len(q) <= MaxFrames,
               Reading(ok, up, q), q # <<>>
        PROVE  sent' # <<>>
    <3>1. sent' = q \/ \E f \in Frame : sent' = Append(q, f)
      BY <2>8, ReadingSends DEF StreamTypeOK
    <3> QED
      BY <2>8, <3>1, Appended
  <2>9. CASE Asked
    <3>1. UNCHANGED tree /\ IsLive(at) \in BOOLEAN
      BY <2>9 DEF Asked, IsLive, StreamTypeOK
    <3>2. CASE Reading(IsLive(at), tunnel, sent)
      <4>1. sent # <<>> => sent' # <<>>
        BY <2>8, <3>1, <3>2 DEF StreamTypeOK
      <4> QED
        BY <2>3, <3>1, <4>1
    <3>3. CASE Len(sent) < MaxFrames /\ Reading(IsLive(at), tunnel, Append(sent, Not(TRUE)))
      <4>1. PICK q \in Seq(Frame) : q = Append(sent, Not(TRUE)) /\ Len(q) = Len(sent) + 1
                                    /\ Len(sent) \in Nat /\ q # <<>>
        BY Frames, Appended DEF StreamTypeOK
      <4>2. Reading(IsLive(at), tunnel, q)
        BY <3>3, <4>1, Zenon
      <4>3. Len(q) <= MaxFrames
        BY <3>3, <4>1, BoundsAssumed
      <4>4. sent' # <<>>
        BY <2>8, <3>1, <4>1, <4>2, <4>3 DEF StreamTypeOK
      <4> QED
        BY <2>3, <3>1, <4>4
    <3> QED
      BY <2>9, <3>2, <3>3 DEF Asked
  <2>10. CASE HangUp
    <3>1. UNCHANGED tree /\ (UNCHANGED sent \/ Reading(FALSE, FALSE, sent))
      BY <2>10 DEF HangUp, Publish
    <3>2. sent # <<>> => sent' # <<>>
      BY <2>8, <3>1 DEF StreamTypeOK
    <3> QED
      BY <2>3, <3>1, <3>2
  <2>11. CASE Checked
    <3>1. UNCHANGED tree /\ \E alive \in BOOLEAN : sent' = Append(sent, Not(alive))
      BY <2>11 DEF Checked
    <3>2. sent' # <<>>
      BY <2>4, <3>1, Frames
    <3> QED
      BY <2>3, <3>1, <3>2
  <2>12. CASE Break
    <3>1. UNCHANGED <<disk, shown, read, held, taken, coalescing>>
          /\ Lose(IF sent = <<>> THEN {} ELSE {"unheard"})
      BY <2>12 DEF Break
    <3>2. ASSUME shown # disk, OnItsWay PROVE OnItsWay'
      <4>1. lost' = lost \cup (IF sent = <<>> THEN {} ELSE {"unheard"})
        BY <3>1, <3>2, Lost
      <4> QED
        BY <3>1, <3>2, <4>1 DEF OnItsWay
    <3> QED
      BY <2>2, <3>1, <3>2
  <2>13. CASE Restart
    <3>1. /\ UNCHANGED <<disk, shown, read, held>>
          /\ Lose((IF taken # taken' THEN {"unreported"} ELSE {})
                    \cup (IF sent = <<>> /\ coalescing = {} THEN {} ELSE {"unheard"}))
      BY <2>13 DEF Restart
    <3>2. ASSUME shown # disk, OnItsWay PROVE OnItsWay'
      <4>1. lost' = lost \cup ((IF taken # taken' THEN {"unreported"} ELSE {})
                    \cup (IF sent = <<>> /\ coalescing = {} THEN {} ELSE {"unheard"}))
        BY <3>1, <3>2, Lost
      <4>2. CASE taken # taken' \/ sent # <<>> \/ coalescing # {}
        <5>1. lost' # {}
          BY <4>1, <4>2
        <5> QED
          BY <5>1 DEF OnItsWay
      <4>3. CASE taken = taken' /\ sent = <<>> /\ coalescing = {}
        BY <3>1, <3>2, <4>1, <4>3 DEF OnItsWay
      <4> QED
        BY <4>2, <4>3
    <3> QED
      BY <2>2, <3>1, <3>2
  <2>14. CASE Replace
    <3>1. /\ UNCHANGED <<disk, shown, read, coalescing>>
          /\ Lose(IF held \/ taken THEN {"unreported"} ELSE {})
      BY <2>14 DEF Replace
    <3>2. sent # <<>> => sent' # <<>>
      BY <2>4, <2>14, Frames DEF Replace
    <3>3. ASSUME shown # disk, OnItsWay PROVE OnItsWay'
      <4>1. lost' = lost \cup (IF held \/ taken THEN {"unreported"} ELSE {})
        BY <3>1, <3>3, Lost
      <4> QED
        BY <3>1, <3>2, <3>3, <4>1 DEF OnItsWay
    <3> QED
      BY <2>2, <3>1, <3>3
  <2>15. CASE Change
    <3>1. held' \/ lost' # {}
      <4>1. CASE held' = TRUE
        BY <4>1
      <4>2. CASE UNCHANGED shown /\ Lose({"unseen"})
        <5>1. shown \in Int /\ disk \in Int /\ shown <= disk /\ shown' = shown /\ disk' = disk + 1
          BY <2>15, <4>2, ReadingsOfTheTree DEF Change
        <5>2. shown' # disk'
          BY <5>1
        <5> QED
          BY <4>2, <5>2, Lost
      <4> QED
        BY <2>15, <4>1, <4>2 DEF Change
    <3> QED
      BY <3>1 DEF TreeIsBeingTold
  <2>16. CASE ReceiveReport
    <3>1. /\ UNCHANGED <<disk, shown, read, held, sent>>
          /\ \/ coalescing' = coalescing \cup {machine} /\ Lose({})
             \/ coalescing' = coalescing /\ Lose({"unheard"})
      BY <2>16 DEF ReceiveReport
    <3>2. ASSUME shown # disk PROVE OnItsWay'
      BY <3>1, <3>2, Lost DEF OnItsWay
    <3> QED
      BY <2>2, <3>1, <3>2
  <2>17. CASE ReportDropped
    <3>1. UNCHANGED <<disk, shown, read>> /\ Lose({"unreported"})
      BY <2>17 DEF ReportDropped
    <3>2. ASSUME shown # disk PROVE OnItsWay'
      BY <3>1, <3>2, Lost DEF OnItsWay
    <3> QED
      BY <2>2, <3>1, <3>2
  <2>18. CASE Tell
    <3>1. /\ UNCHANGED <<disk, shown, read>>
          /\ sent' = Append(sent, Stale) \/ Lose({"unheard"})
      BY <2>18 DEF Tell
    <3>2. ASSUME shown # disk PROVE OnItsWay'
      <4>1. CASE sent' = Append(sent, Stale)
        BY <2>4, <4>1, Frames DEF OnItsWay
      <4>2. CASE Lose({"unheard"})
        BY <3>1, <3>2, <4>2, Lost DEF OnItsWay
      <4> QED
        BY <3>1, <4>1, <4>2
    <3> QED
      BY <2>2, <3>1, <3>2
  <2>19. CASE HearStale \/ Refresh
    <3>1. PICK r \in Read : read'[r].at = "asked"
      BY <2>19, ReadingsOfTheTree DEF HearStale, Refresh
    <3> QED
      BY <3>1 DEF TreeIsBeingTold
  <2>20. ASSUME NEW r \in Read, List(r) PROVE TreeIsBeingTold'
    <3>1. read'[r].got = disk /\ disk' = disk
      BY <2>20, Listing DEF List
    <3> QED
      BY <3>1 DEF TreeIsBeingTold
  <2>21. ASSUME NEW r \in Read, Listed(r) PROVE TreeIsBeingTold'
    <3>1. /\ UNCHANGED <<disk, held, taken, coalescing, sent>> /\ shown' = read[r].got
          /\ read[r].at = "answered" /\ \A q \in Read \ {r} : read'[q] = read[q]
          /\ Lose(IF read[r].got < shown THEN {"overtaken"} ELSE {})
      BY <2>21 DEF Listed, TreeTypeOK
    <3> SUFFICES ASSUME shown' # disk'
                 PROVE  TreeIsBeingTold'
      BY DEF TreeIsBeingTold
    <3>2. lost' = lost \cup (IF read[r].got < shown THEN {"overtaken"} ELSE {})
      BY <3>1, Lost
    <3>3. CASE read[r].got < shown
      <4>1. lost' # {}
        BY <3>2, <3>3
      <4> QED
        BY <4>1 DEF TreeIsBeingTold
    <3>4. CASE ~(read[r].got < shown)
      <4>1. read[r].got \in Int /\ read[r].got <= disk
        BY ReadingsOfTheTree DEF TreeTypeOK, ReadShape
      <4>2. shown # disk
        BY <3>1, <3>4, <4>1, ReadingsOfTheTree
      <4>3. lost' = lost
        BY <3>2, <3>4
      <4>4. \A q \in Read : read[q].at = "asked" \/ read[q].got = disk => read'[q] = read[q]
        BY <3>1
      <4>5. CASE OnItsWay
        BY <3>1, <4>3, <4>5 DEF TreeIsBeingTold, OnItsWay
      <4>6. CASE ~OnItsWay
        <5>1. PICK q \in Read : read[q].at = "asked" \/ read[q].got = disk
          BY <1>3, <4>2, <4>6 DEF TreeIsBeingTold, OnItsWay
        <5>2. read'[q].at = "asked" \/ read'[q].got = disk'
          BY <3>1, <4>4, <5>1
        <5> QED
          BY <5>2 DEF TreeIsBeingTold
      <4> QED
        BY <4>5, <4>6
    <3> QED
      BY <3>3, <3>4
  <2>22. ASSUME NEW r \in Read, ListFails(r) PROVE TreeIsBeingTold'
    <3>1. ASSUME shown' # disk' PROVE lost' # {}
      BY <2>22, <3>1, Lost DEF ListFails
    <3> QED
      BY <3>1 DEF TreeIsBeingTold
  <2>23. ~(DialIn \/ Figures \/ HearUp \/ HearDown \/ HearRecover \/ Reopen)
    BY <1>3 DEF DialIn, Figures, HearUp, HearDown, HearRecover, Reopen, WatchStaysOpen
  <2> QED
    BY <2>5, <2>6, <2>7, <2>9, <2>10, <2>11, <2>12, <2>13, <2>14, <2>15, <2>16, <2>17,
       <2>18, <2>19, <2>20, <2>21, <2>22, <2>23 DEF Next, TreeNext, BarNext
<1> QED
  BY <1>2, <1>3 DEF StreamTypeOK

-----------------------------------------------------------------------------
(***************************************************************************)
(* The bar: each step leaves what it believes, or has it taken back.       *)
(***************************************************************************)
LEMMA TakenBackAtTheEnd ==
  ASSUME NEW q \in Seq(Frame), NEW f \in Frame, ~f.ok, sent' = Append(q, f)
  PROVE  /\ sent' # <<>> /\ TakenBack(0)'
         /\ \A i \in DOMAIN sent' : sent'[i].ok => TakenBack(i)'
         /\ (\A i \in DOMAIN q : ~q[i].ok) => \A i \in DOMAIN sent' : ~sent'[i].ok
<1>1. /\ DOMAIN q = 1 .. Len(q) /\ DOMAIN sent' = 1 .. Len(q) + 1 /\ Len(q) \in Nat
      /\ sent' # <<>> /\ \A i \in 1 .. Len(q) : sent'[i] = q[i]
      /\ sent'[Len(q) + 1] = f
  BY Appended
<1>2. Len(q) + 1 \in DOMAIN sent' /\ Len(q) + 1 > 0 /\ ~sent'[Len(q) + 1].ok
  BY <1>1
<1>3. TakenBack(0)'
  BY <1>2 DEF TakenBack
<1>4. ASSUME NEW i \in DOMAIN sent', sent'[i].ok PROVE TakenBack(i)'
  <2>1. i # Len(q) + 1
    BY <1>2, <1>4
  <2>2. Len(q) + 1 > i
    BY <1>1, <2>1
  <2> QED
    BY <1>2, <2>2 DEF TakenBack
<1>5. ASSUME \A i \in DOMAIN q : ~q[i].ok, NEW i \in DOMAIN sent' PROVE ~sent'[i].ok
  <2>1. i = Len(q) + 1 \/ i \in DOMAIN q
    BY <1>1
  <2> QED
    BY <1>1, <1>2, <1>5, <2>1
<1> QED
  BY <1>1, <1>3, <1>4, <1>5

LEMMA ReadingTakesBack ==
  ASSUME checks \in 0 .. MaxFrames, NEW q \in Seq(Frame), Len(q) <= MaxFrames,
         NEW ok \in BOOLEAN, NEW up \in BOOLEAN, Reading(ok, up, q)
  PROVE  /\ checks' > 0 \/ sent' # <<>>
         /\ ~ok => TakenBack(0)' /\ \A i \in DOMAIN sent' : sent'[i].ok => TakenBack(i)'
<1>1. \/ ~ok /\ checks' = checks + 1 /\ sent' = q
      \/ checks' = checks /\ \E f \in Frame : f.ok = ok /\ sent' = Append(q, f)
  BY ReadingSends
<1>2. CASE ~ok /\ checks' = checks + 1
  <2>1. checks' > 0
    BY <1>2, BoundsAssumed
  <2> QED
    BY <2>1 DEF TakenBack
<1>3. ASSUME NEW f \in Frame, f.ok = ok, sent' = Append(q, f)
      PROVE  /\ checks' > 0 \/ sent' # <<>>
             /\ ~ok => TakenBack(0)' /\ \A i \in DOMAIN sent' : sent'[i].ok => TakenBack(i)'
  <2>1. sent' # <<>>
    BY <1>3, Appended
  <2> QED
    BY <1>3, <2>1, TakenBackAtTheEnd
<1> QED
  BY <1>1, <1>2, <1>3

LEMMA BarKept ==
  ASSUME StreamTypeOK, BarInv, follows = "stats", follows' = "stats", Next
  PROVE  BarInv'
<1> SUFFICES Hopeless' /\ WaitsForSomething' /\ WrongIsTakenBack' /\ PagesLeave' /\ NothingReported'
  BY DEF BarInv
<1>0. Hopeless /\ WaitsForSomething /\ WrongIsTakenBack /\ PagesLeave /\ NothingReported
  BY DEF BarInv
<1> USE DEF PagesLeave
<1>1. CASE Connect \/ Retry \/ GoBack
  <2>1. /\ UNCHANGED <<sent, held, taken, coalescing, reopening>>
        /\ stream # "attached" /\ stream' # "attached"
        /\ bar' # "recovery" /\ bar' \in {bar, "waiting"}
    BY <1>0, <1>1 DEF Connect, Retry, GoBack, tree, live
  <2> QED
    BY <1>0, <2>1 DEF Hopeless, WaitsForSomething, WrongIsTakenBack, NothingReported
<1>2. CASE Attach
  <2>1. stream = "resolving" /\ UNCHANGED <<tree, bar, reopening>>
    BY <1>2 DEF Attach
  <2>2. CASE stream' = "asking" /\ UNCHANGED <<sent, checks>>
    BY <1>0, <2>1, <2>2 DEF Hopeless, WaitsForSomething, WrongIsTakenBack, NothingReported, tree
  <2>3. CASE stream' = "attached" /\ Reading(tunnel, tunnel, sent)
    <3>1. /\ checks' > 0 \/ sent' # <<>>
          /\ ~tunnel => TakenBack(0)' /\ \A i \in DOMAIN sent' : sent'[i].ok => TakenBack(i)'
      BY <2>3, ReadingTakesBack DEF StreamTypeOK
    <3>2. at' = machine /\ UNCHANGED <<machine, tunnel>>
      BY <1>2 DEF Attach
    <3>3. WrongIsTakenBack'
      BY <3>1, <3>2 DEF WrongIsTakenBack, IsLive
    <3> QED
      BY <1>0, <2>1, <2>3, <3>1, <3>3 DEF Hopeless, WaitsForSomething, NothingReported, tree
  <2> QED
    BY <1>2, <2>2, <2>3 DEF Attach
<1>3. CASE Asked
  <2>1. /\ stream = "asking" /\ stream' = "attached"
        /\ UNCHANGED <<machine, at, tunnel, tree, bar, reopening>> /\ IsLive(at) \in BOOLEAN
    BY <1>3 DEF Asked, IsLive, StreamTypeOK
  <2>2. PICK q \in Seq(Frame) : Len(q) <= MaxFrames /\ Reading(IsLive(at), tunnel, q)
    <3>1. CASE Reading(IsLive(at), tunnel, sent)
      BY <3>1 DEF StreamTypeOK
    <3>2. CASE Len(sent) < MaxFrames /\ Reading(IsLive(at), tunnel, Append(sent, Not(TRUE)))
      <4>0. PICK q : q = Append(sent, Not(TRUE))
        OBVIOUS
      <4>1. q \in Seq(Frame) /\ Len(q) = Len(sent) + 1 /\ Len(sent) \in Nat
        BY <4>0, Frames, Appended DEF StreamTypeOK
      <4>2. Reading(IsLive(at), tunnel, q)
        BY <3>2, <4>0, Zenon
      <4>3. Len(q) <= MaxFrames
        BY <3>2, <4>1, BoundsAssumed
      <4> QED
        BY <4>1, <4>2, <4>3
    <3> QED
      BY <1>3, <3>1, <3>2 DEF Asked
  <2>3. /\ checks' > 0 \/ sent' # <<>>
        /\ ~IsLive(at) => TakenBack(0)' /\ \A i \in DOMAIN sent' : sent'[i].ok => TakenBack(i)'
    BY <2>1, <2>2, ReadingTakesBack DEF StreamTypeOK
  <2>4. IsLive(at)' = IsLive(at)
    BY <2>1 DEF IsLive
  <2>5. WrongIsTakenBack'
    BY <2>3, <2>4 DEF WrongIsTakenBack
  <2> QED
    BY <1>0, <2>1, <2>3, <2>5 DEF Hopeless, WaitsForSomething, NothingReported, tree
<1>4. CASE AttachFails
  <2>1. /\ stream = "resolving" /\ stream' = "retrying" /\ UNCHANGED <<tree, live>>
        /\ sent' = Append(sent, Not(FALSE))
    BY <1>4 DEF AttachFails
  <2>2. \A i \in DOMAIN sent' : ~sent'[i].ok
    BY <1>0, <2>1, Frames, TakenBackAtTheEnd DEF Hopeless, StreamTypeOK
  <2> QED
    BY <1>0, <2>1, <2>2 DEF Hopeless, WaitsForSomething, WrongIsTakenBack, NothingReported, tree, live
<1>5. CASE Break \/ Restart \/ HearRecover \/ Reopen
  <2>1. /\ sent' = <<>> /\ stream' # "attached" /\ held' = held
        /\ taken' = taken \/ taken' = FALSE
        /\ coalescing' = coalescing \/ coalescing' = {}
    BY <1>5 DEF Break, Restart, HearRecover, Reopen, Unsubscribed, tree
  <2>2. bar' # "running" /\ PagesLeave'
    <3>1. CASE Break
      BY <3>1 DEF Break
    <3>2. CASE Restart
      BY <1>0, <3>2 DEF Restart, Unsubscribed, Hopeless
    <3>3. CASE HearRecover
      BY <3>3 DEF HearRecover, Unsubscribed
    <3>4. CASE Reopen
      BY <1>0, <3>4 DEF Reopen, Unsubscribed
    <3> QED
      BY <1>5, <3>1, <3>2, <3>3, <3>4
  <2>3. NothingReported'
    BY <1>0, <2>1 DEF NothingReported
  <2>4. DOMAIN sent' = {}
    BY <2>1, NothingSent
  <2> QED
    BY <2>1, <2>2, <2>3, <2>4 DEF Hopeless, WaitsForSomething, WrongIsTakenBack
<1>6. CASE Replace
  <2>1. /\ held' = FALSE /\ taken' = FALSE /\ tunnel' = FALSE
        /\ UNCHANGED <<stream, at, coalescing, checks, bar, reopening>>
    BY <1>6 DEF Replace
  <2>2. NothingReported' /\ PagesLeave'
    BY <1>0, <2>1 DEF NothingReported
  <2>3. CASE tunnel /\ stream = "attached" /\ at = machine
    <3>1. sent' = Append(sent, Not(FALSE))
      BY <1>6, <2>3 DEF Replace
    <3>2. sent' # <<>> /\ TakenBack(0)' /\ \A i \in DOMAIN sent' : sent'[i].ok => TakenBack(i)'
      BY <3>1, Frames, TakenBackAtTheEnd DEF StreamTypeOK
    <3> QED
      BY <2>1, <2>2, <2>3, <3>2 DEF Hopeless, WaitsForSomething, WrongIsTakenBack
  <2>4. CASE ~(tunnel /\ stream = "attached" /\ at = machine)
    <3>1. sent' = sent
      BY <1>6, <2>4 DEF Replace
    <3>2. stream = "attached" => ~IsLive(at)
      BY <2>4 DEF IsLive
    <3> QED
      BY <1>0, <2>1, <2>2, <3>1, <3>2
         DEF Hopeless, WaitsForSomething, WrongIsTakenBack, TakenBack
  <2> QED
    BY <2>3, <2>4
<1>7. ~(Change \/ Take \/ ReceiveReport \/ ReportDropped \/ Tell \/ HearStale \/ Refresh)
  BY <1>0 DEF NothingReported, Change, Take, ReceiveReport, ReportDropped, Tell, HearStale, Refresh
<1>9. CASE \E r \in Read : List(r) \/ Listed(r) \/ ListFails(r)
  <2>1. UNCHANGED <<machine, stream, at, sent, held, taken, coalescing, live>>
    BY <1>9 DEF List, Listed, ListFails
  <2> QED
    BY <1>0, <2>1
       DEF Hopeless, WaitsForSomething, WrongIsTakenBack, NothingReported, TakenBack, IsLive, live
<1>10. ASSUME NEW ok \in BOOLEAN, NEW up \in BOOLEAN, Publish(machine, ok, up),
              UNCHANGED <<machine, stream, at, held, taken, coalescing, bar, reopening>>,
              tunnel' = ok
       PROVE  Hopeless' /\ WaitsForSomething' /\ WrongIsTakenBack' /\ PagesLeave' /\ NothingReported'
  <2>1. NothingReported' /\ PagesLeave'
    BY <1>0, <1>10 DEF NothingReported
  <2>2. CASE stream = "attached" /\ at = machine
    <3>1. /\ checks' > 0 \/ sent' # <<>>
          /\ ~ok => TakenBack(0)' /\ \A i \in DOMAIN sent' : sent'[i].ok => TakenBack(i)'
      BY <1>10, <2>2, ReadingTakesBack DEF Publish, StreamTypeOK
    <3>2. WrongIsTakenBack'
      BY <1>10, <2>2, <3>1 DEF WrongIsTakenBack, IsLive
    <3> QED
      BY <1>10, <2>1, <2>2, <3>1, <3>2 DEF Hopeless, WaitsForSomething
  <2>3. CASE ~(stream = "attached" /\ at = machine)
    <3>1. UNCHANGED <<sent, checks>>
      BY <1>10, <2>3 DEF Publish
    <3>2. stream = "attached" => ~IsLive(at)
      BY <2>3 DEF IsLive
    <3> QED
      BY <1>0, <1>10, <2>1, <3>1, <3>2
         DEF Hopeless, WaitsForSomething, WrongIsTakenBack, TakenBack
  <2> QED
    BY <2>2, <2>3
<1>11. CASE DialIn \/ HangUp \/ Figures
  <2>1. UNCHANGED <<machine, stream, at, held, taken, coalescing, bar, reopening>>
    BY <1>11 DEF DialIn, HangUp, Figures, tree
  <2>2. PICK ok \in BOOLEAN, up \in BOOLEAN : Publish(machine, ok, up) /\ tunnel' = ok
    BY <1>11 DEF DialIn, HangUp, Figures, StreamTypeOK
  <2> QED
    BY <1>10, <2>1, <2>2
<1>12. CASE Checked
  <2>1. /\ UNCHANGED <<stream, held, taken, coalescing, bar, reopening>>
        /\ \E alive \in BOOLEAN : sent' = Append(sent, Not(alive))
    BY <1>12 DEF Checked, tree
  <2>2. /\ sent' # <<>> /\ TakenBack(0)'
        /\ \A i \in DOMAIN sent' : sent'[i].ok => TakenBack(i)'
        /\ (\A i \in DOMAIN sent : ~sent[i].ok) => \A i \in DOMAIN sent' : ~sent'[i].ok
    BY <2>1, Frames, TakenBackAtTheEnd DEF StreamTypeOK
  <2> QED
    BY <1>0, <2>1, <2>2 DEF Hopeless, WaitsForSomething, WrongIsTakenBack, NothingReported
<1>13. ASSUME sent # <<>>, sent' = Tail(sent), UNCHANGED <<machine, at, tunnel, checks>>
       PROVE  /\ 1 \in DOMAIN sent /\ sent[1] = Head(sent)
              /\ (\A i \in DOMAIN sent : ~sent[i].ok) => \A i \in DOMAIN sent' : ~sent'[i].ok
              /\ stream = "attached" /\ ~IsLive(at) =>
                   \A i \in DOMAIN sent' : sent'[i].ok => TakenBack(i)'
              /\ TakenBack(1) => TakenBack(0)'
  <2>1. /\ Len(sent) \in Nat \ {0} /\ Head(sent) = sent[1]
        /\ DOMAIN sent = 1 .. Len(sent) /\ DOMAIN sent' = 1 .. Len(sent) - 1
        /\ \A i \in 1 .. Len(sent) - 1 : sent'[i] = sent[i + 1]
    BY <1>13, Tailed DEF StreamTypeOK
  <2>2. 1 \in DOMAIN sent /\ \A i \in DOMAIN sent' : i + 1 \in DOMAIN sent /\ sent'[i] = sent[i + 1]
    BY <2>1
  <2>3. ASSUME NEW i \in Nat, TakenBack(i + 1) PROVE TakenBack(i)'
    <3>1. CASE checks > 0
      BY <1>13, <3>1 DEF TakenBack
    <3>2. CASE \E j \in DOMAIN sent : j > i + 1 /\ ~sent[j].ok
      <4>1. PICK j \in DOMAIN sent : j > i + 1 /\ ~sent[j].ok
        BY <3>2
      <4>2. PICK k : k = j - 1
        OBVIOUS
      <4>3. k \in 1 .. Len(sent) - 1 /\ k > i /\ k + 1 = j
        BY <2>1, <4>1, <4>2
      <4>4. ~sent'[k].ok
        BY <2>1, <4>1, <4>3
      <4> QED
        BY <2>1, <4>3, <4>4 DEF TakenBack
    <3> QED
      BY <2>3, <3>1, <3>2 DEF TakenBack
  <2>4. ASSUME stream = "attached", ~IsLive(at), NEW i \in DOMAIN sent', sent'[i].ok
        PROVE  TakenBack(i)'
    <3>1. TakenBack(i + 1) /\ i \in Nat
      BY <1>0, <2>1, <2>2, <2>4 DEF WrongIsTakenBack
    <3> QED
      BY <2>3, <3>1
  <2>5. TakenBack(1) => TakenBack(0)'
    <3>1. 0 + 1 = 1 /\ 0 \in Nat
      OBVIOUS
    <3>2. TakenBack(0 + 1) => TakenBack(0)'
      BY <2>3, <3>1
    <3> QED
      BY <3>1, <3>2
  <2> QED
    BY <2>1, <2>2, <2>4, <2>5
<1>14. CASE HearUp
  <2>1. /\ sent # <<>> /\ Head(sent).ok /\ sent' = Tail(sent) /\ bar' = "running"
        /\ reopening' = FALSE
        /\ UNCHANGED <<machine, stream, at, held, taken, coalescing, tunnel, checks>>
    BY <1>14 DEF HearUp, tree
  <2>2. stream = "attached"
    BY <1>0, <1>13, <2>1 DEF Hopeless
  <2>3. ~IsLive(at) => TakenBack(1)
    BY <1>0, <1>13, <2>1, <2>2 DEF WrongIsTakenBack
  <2>4. IsLive(at)' = IsLive(at)
    BY <2>1 DEF IsLive
  <2>5. WrongIsTakenBack'
    BY <1>13, <2>1, <2>2, <2>3, <2>4 DEF WrongIsTakenBack
  <2> QED
    BY <1>0, <2>1, <2>2, <2>5 DEF Hopeless, WaitsForSomething, NothingReported
<1>15. CASE HearDown
  <2>1. /\ sent # <<>> /\ sent' = Tail(sent) /\ bar' = "waiting" /\ reopening'
        /\ UNCHANGED <<machine, stream, at, held, taken, coalescing, tunnel, checks>>
    BY <1>15 DEF HearDown, tree
  <2>2. IsLive(at)' = IsLive(at)
    BY <2>1 DEF IsLive
  <2>3. WrongIsTakenBack'
    BY <1>13, <2>1, <2>2 DEF WrongIsTakenBack
  <2> QED
    BY <1>0, <1>13, <2>1, <2>3 DEF Hopeless, WaitsForSomething, NothingReported
<1> QED
  BY <1>1, <1>2, <1>3, <1>4, <1>5, <1>6, <1>7, <1>9, <1>11, <1>12, <1>14, <1>15
     DEF Next, TreeNext, BarNext

-----------------------------------------------------------------------------
LEMMA InitStarts == Init => IInv
<1> SUFFICES ASSUME Init PROVE IInv
  OBVIOUS
<1>1. NoRead \in ReadShape /\ [NoRead EXCEPT !.at = "asked"] \in ReadShape /\ NoRead.at = "idle"
      /\ [NoRead EXCEPT !.at = "asked"].at = "asked"
  BY DEF Init, NoRead, ReadShape
<1>2. PICK r \in Read :
        read = [s \in Read |-> IF s = r /\ follows = "watch"
                                 THEN [NoRead EXCEPT !.at = "asked"] ELSE NoRead]
  BY DEF Init
<1>3. TreeTypeOK
  <2>1. read \in [Read -> ReadShape]
    BY <1>1, <1>2
  <2>2. 0 \in 0..MaxChanges /\ -1 \in -1..0
    BY BoundsAssumed
  <2>3. disk = 0 /\ shown = -1 /\ held = FALSE /\ taken = FALSE /\ coalescing = {} /\ lost = {}
    BY DEF Init
  <2>4. disk \in 0..MaxChanges /\ shown \in -1..disk
    BY <2>2, <2>3
  <2> QED
    BY <2>1, <2>3, <2>4 DEF TreeTypeOK
<1>4. StreamTypeOK
  <2>1. 1 \in Machine
    BY BoundsAssumed DEF Machine
  <2>2. 0 \in 0..MaxFaults /\ 0 \in 0..MaxFrames /\ 0 \in 0..MaxDials /\ 0 <= MaxFrames
    BY BoundsAssumed
  <2> QED
    BY <2>1, <2>2, NothingSent DEF Init, StreamTypeOK
<1>5. TreeIsBeingTold
  <2>1. follows = "watch" => read[r].at = "asked"
    BY <1>1, <1>2
  <2> QED
    BY <2>1 DEF TreeIsBeingTold
<1>6. WatchStaysOpen /\ BarInv
  BY NothingSent DEF Init, WatchStaysOpen, BarInv, Hopeless, WaitsForSomething, WrongIsTakenBack,
     PagesLeave, NothingReported
<1> QED
  BY <1>3, <1>4, <1>5, <1>6, TypesSplit DEF IInv

LEMMA InvKept == IInv /\ [Next]_vars => IInv'
<1> SUFFICES ASSUME IInv, [Next]_vars PROVE IInv'
  OBVIOUS
<1>0. StreamTypeOK /\ TreeTypeOK /\ TreeIsBeingTold /\ WatchStaysOpen /\ BarInv
  BY TypesSplit DEF IInv
<1>1. CASE Next
  <2>1. StreamTypeOK'
    BY <1>0, <1>1, StreamTypes
  <2>2. TreeTypeOK'
    BY <1>0, <1>1, TreeTypes
  <2>3. TreeIsBeingTold' /\ WatchStaysOpen'
    BY <1>0, <1>1, TreeStaysTold
  <2>4. BarInv'
    <3>1. follows' = follows
      BY <1>1, FollowsKept
    <3>2. CASE follows = "stats"
      BY <1>0, <1>1, <3>1, <3>2, BarKept
    <3>3. CASE follows # "stats"
      BY <3>1, <3>3 DEF BarInv
    <3> QED
      BY <3>2, <3>3
  <2>5. TypeOK'
    BY <2>1, <2>2 DEF TypeOK, StreamTypeOK, TreeTypeOK, ReadShape
  <2> QED
    BY <2>3, <2>4, <2>5 DEF IInv
<1>2. CASE UNCHANGED vars
  BY <1>0, <1>2 DEF IInv, TypeOK, TreeIsBeingTold, WatchStaysOpen, BarInv, Hopeless,
     WaitsForSomething, WrongIsTakenBack, PagesLeave, NothingReported, TakenBack, IsLive,
     vars, tree, live
<1> QED
  BY <1>1, <1>2

THEOREM InvHolds == Spec => []IInv
BY InitStarts, InvKept, PTL DEF Spec

(***************************************************************************)
(* Every state of the page, its stream, the reporter and the registry is   *)
(* one the two programs can be in: what stats.js queues for a stream and   *)
(* asks of the machine stays within its bounds, and a read never knows     *)
(* more of a directory than has happened to it.                            *)
(***************************************************************************)
THEOREM TypeCorrect == Spec => []TypeOK
<1>1. IInv => TypeOK
  BY DEF IInv
<1> QED
  BY <1>1, InvHolds, PTL

(***************************************************************************)
(* A page that is wrong is about to hear: what the tree of                 *)
(* dsh-sandbox-host/client.js misses is in the reporter, behind the timer  *)
(* of stats.js, on its stream, in a read, or was dropped at a place that   *)
(* is known; and the status bar never says running over a dead backend, or *)
(* waits for a living one, with nothing under way to correct it.           *)
(***************************************************************************)
THEOREM WrongPagesAreTold == Spec => []PagesAreBeingTold
<1>1. IInv => PagesAreBeingTold
  <2> SUFFICES ASSUME IInv, follows = "stats", stream = "attached" PROVE BarIsBeingTold
    BY DEF PagesAreBeingTold, BarIsBeingTold, IInv
  <2>0. WaitsForSomething /\ WrongIsTakenBack
    BY DEF IInv, BarInv
  <2>1. ASSUME bar = "running", ~tunnel
        PROVE  checks > 0 \/ \E i \in DOMAIN sent : ~sent[i].ok
    BY <2>0, <2>1 DEF WrongIsTakenBack, IsLive, TakenBack
  <2>2. ASSUME bar = "waiting", tunnel
        PROVE  reopening \/ checks > 0 \/ sent # <<>>
    BY <2>0, <2>2 DEF WaitsForSomething
  <2> QED
    BY <2>1, <2>2 DEF BarIsBeingTold
<1> QED
  BY <1>1, InvHolds, PTL
=============================================================================
