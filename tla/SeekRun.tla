------------------------------ MODULE SeekRun ------------------------------
(***************************************************************************)
(* Seeking up to and past the end of the stream: the seek controller       *)
(* (runtime/seek.rs), the run's end test (runtime/seek_after_end.rs), a    *)
(* source that parks after its Eos (mp4src.rs), and the Eos and Flush      *)
(* handling of the arms below it (graph_runner.rs).                        *)
(*                                                                         *)
(* Each source feeds one arm (a transform, a tee or a demuxer: the three   *)
(* treat Eos and Flush alike), which feeds one sink arm per branch.  The   *)
(* application seeks through the leader's controller, which passes every   *)
(* seek to the followers'.  Frames are left out: a link carries the        *)
(* Flushes and Eos that a run's end is counted by.  Every arm, the         *)
(* application and the future that ends the run are threads of their own   *)
(* (run_graph_threaded); each lock section or atomic access that another   *)
(* thread can tell apart is a step.  A packet carries, as history, nth:    *)
(* how many Flushes its source had sent, itself included.                  *)
(***************************************************************************)
EXTENDS Integers, Sequences, FiniteSets

CONSTANTS Leader,        \* the source whose controller the application holds
          Followers,     \* the other seekable sources
          Branches,      \* the sinks below each source
          BranchDrop,    \* TRUE: the arm above them is an AllowBranchDrop tee
          Kinds,         \* the seeks the application makes
          Holds,         \* whether the application holds the run open
          MayRefuse,     \* TRUE: a source may refuse a seek
          AppShutsDown,  \* TRUE: the application may shut the run down
          LinkCapacity,  \* packets a link holds
          MaxSeeks,      \* bound on the seeks
          MaxFaults      \* bound on the arms that end on an error

FlushingKinds == {"flush", "loop", "reverse"}

ASSUME SeekRunAssumption ==
    /\ IsFiniteSet(Followers) /\ Leader \notin Followers
    /\ IsFiniteSet(Branches) /\ Branches # {}
    /\ BranchDrop \in BOOLEAN
    /\ Kinds \subseteq FlushingKinds \cup {"accumulate"}
    /\ Holds \subseteq BOOLEAN
    /\ MayRefuse \in BOOLEAN
    /\ AppShutsDown \in BOOLEAN
    /\ LinkCapacity \in Nat \ {0}
    /\ MaxSeeks \in Nat
    /\ MaxFaults \in Nat

Sources == {Leader} \cup Followers
Sinks == Sources \X Branches
Seeks == 1..MaxSeeks
NoSeek == [id |-> 0, kind |-> "none"]

VARIABLES
    ctl,      \* each controller: pending (the seek in the slot, or NoSeek),
              \* shutdown, waker (a waker of wait_event is registered)
    counts,   \* the leader's SeekCounts (taken: flushing_seeks_taken, ended:
              \* stream_ended_at, -1 for None), held (run_held_open) and
              \* segments (the segment_done count)
    ticket,   \* each seek of the application: outcome and, as history, early
              \* (made while the run was held open)
    app,      \* the application: made (seeks made), seek (the one it is
              \* making) and todo (controllers that one still has to reach)
    src,      \* each source's loop: pc, seek (the one being taken), mode (how
              \* the seek last served plays)
    feed,     \* the link into each source's arm
    mid,      \* that arm: flushes (its ArmFlushCount) and up
    link,     \* the link into each sink
    sink,     \* each sink arm: pc, flushes and atEos (its SinkStreamEnd)
    runEnd,   \* end_when_nothing_more_is_sought: pc, n (the count it read),
              \* scan (sinks still to be looked at), waker
    sent,     \* history: Flushes each source has sent
    lastEos,  \* history: the Flushes sent before the last Eos a sink took
    free,     \* history: the run may end, for the application never held it
              \* open, let it end or shut it down, or an arm failed
    faults    \* arms that ended on an error

links == <<feed, mid, link, sink>>
history == <<sent, lastEos, free, faults>>
vars == <<ctl, counts, ticket, app, src, feed, mid, link, sink, runEnd, sent,
          lastEos, free, faults>>

SrcStates == {"play", "frames", "accept", "flush", "end", "lastEos",
              "wait", "shut", "register", "recheck", "parked", "done"}
RunEndStates == {"asleep", "woken", "scan", "pending", "held"}

Init ==
    /\ ctl = [s \in Sources |->
                 [pending |-> NoSeek, shutdown |-> FALSE, waker |-> FALSE]]
    /\ \E h \in Holds :
          /\ counts = [taken |-> 0, ended |-> -1, held |-> h, segments |-> 0]
          /\ free = ~h
    /\ ticket = [t \in Seeks |-> [outcome |-> "none", early |-> FALSE]]
    /\ app = [made |-> 0, seek |-> NoSeek, todo |-> {}]
    /\ src = [s \in Sources |-> [pc |-> "play", seek |-> NoSeek, mode |-> "plain"]]
    /\ feed = [s \in Sources |-> << >>]
    /\ mid = [s \in Sources |-> [flushes |-> 0, up |-> TRUE]]
    /\ link = [k \in Sinks |-> << >>]
    /\ sink = [k \in Sinks |-> [pc |-> "recv", flushes |-> 0, atEos |-> FALSE]]
    /\ runEnd = [pc |-> "woken", n |-> 0, scan |-> {}, waker |-> FALSE]
    /\ sent = [s \in Sources |-> 0]
    /\ lastEos = [k \in Sinks |-> -1]
    /\ faults = 0

-----------------------------------------------------------------------------
(* What the handlers share.                                                *)

HasEvent(s) == ctl[s].pending # NoSeek \/ ctl[s].shutdown

(* The sources after the wakers of those in W are taken and woken.         *)
Roused(W) == [s \in Sources |->
                 IF s \in W /\ ctl[s].waker /\ src[s].pc = "parked"
                 THEN [src[s] EXCEPT !.pc = "wait"] ELSE src[s]]

(* SeekController::shutdown reaches every controller and wakes its source. *)
ShutDown ==
    ctl' = [s \in Sources |-> [ctl[s] EXCEPT !.shutdown = TRUE,
                                             !.waker = FALSE]]

(* The tickets after t is answered o.                                      *)
Answered(t, o) == [ticket EXCEPT ![t].outcome = o]

(* wake_run_end takes the waker of the future that ends the run.           *)
WokenRunEnd ==
    [runEnd EXCEPT !.waker = FALSE,
                   !.pc = IF @ = "asleep" /\ runEnd.waker THEN "woken" ELSE @]

Goto(s, pc) == src' = [src EXCEPT ![s].pc = pc]

-----------------------------------------------------------------------------
(* The application.                                                        *)

(* Mutant: a parked source is not woken.                                   *)
SeekLeaderQuietly(kind) ==
    LET t == app.made + 1  old == ctl[Leader].pending
        seek == [id |-> t, kind |-> kind]
    IN  /\ app.todo = {}
        /\ t <= MaxSeeks
        /\ app' = [made |-> t, todo |-> Followers,
                   seek |-> IF Followers = {} THEN NoSeek ELSE seek]
        /\ ticket' = [(IF old = NoSeek THEN ticket
                       ELSE Answered(old.id, "Superseded"))
                         EXCEPT ![t].early = ~free]
        /\ ctl' = [ctl EXCEPT ![Leader].pending = seek]
        /\ UNCHANGED <<counts, src, links, runEnd, history>>

(* seek on the leader's controller, latest wins.                           *)
SeekLeader(kind) ==
    LET t == app.made + 1  old == ctl[Leader].pending
        seek == [id |-> t, kind |-> kind]
    IN  /\ app.todo = {}
        /\ t <= MaxSeeks
        /\ app' = [made |-> t, todo |-> Followers,
                   seek |-> IF Followers = {} THEN NoSeek ELSE seek]
        /\ ticket' = [(IF old = NoSeek THEN ticket
                       ELSE Answered(old.id, "Superseded"))
                         EXCEPT ![t].early = ~free]
        /\ ctl' = [ctl EXCEPT ![Leader].pending = seek, ![Leader].waker = FALSE]
        /\ src' = Roused({Leader})
        /\ UNCHANGED <<counts, links, runEnd, history>>

(* Mutant: a parked follower is not woken.                                 *)
SeekFollowerQuietly(s) ==
    /\ s \in app.todo
    /\ app' = [app EXCEPT !.todo = @ \ {s},
                          !.seek = IF app.todo = {s} THEN NoSeek ELSE @]
    /\ ctl' = [ctl EXCEPT ![s].pending = app.seek]
    /\ UNCHANGED <<counts, ticket, src, links, runEnd, history>>

(* The same call passes the seek on; nobody holds the followers' tickets.  *)
SeekFollower(s) ==
    /\ s \in app.todo
    /\ app' = [app EXCEPT !.todo = @ \ {s},
                          !.seek = IF app.todo = {s} THEN NoSeek ELSE @]
    /\ ctl' = [ctl EXCEPT ![s].pending = app.seek, ![s].waker = FALSE]
    /\ src' = Roused({s})
    /\ UNCHANGED <<counts, ticket, links, runEnd, history>>

LetRunEnd ==
    /\ app.todo = {}
    /\ counts.held
    /\ counts' = [counts EXCEPT !.held = FALSE]
    /\ runEnd' = WokenRunEnd
    /\ free' = TRUE
    /\ UNCHANGED <<ctl, ticket, app, src, links, sent, lastEos, faults>>

AppShutdown ==
    /\ AppShutsDown
    /\ app.todo = {}
    /\ ~ctl[Leader].shutdown
    /\ ShutDown
    /\ src' = Roused(Sources)
    /\ free' = TRUE
    /\ UNCHANGED <<counts, ticket, app, links, runEnd, sent, lastEos, faults>>

-----------------------------------------------------------------------------
(* The source.  take_seek empties the slot, then accepts or refuses what   *)
(* it held (flushing_only, or a live window), counts it and answers it.    *)

TakeSeek(s) ==
    /\ src[s].pc = "play"
    /\ ctl[s].pending # NoSeek
    /\ src' = [src EXCEPT ![s].pc = "accept", ![s].seek = ctl[s].pending]
    /\ ctl' = [ctl EXCEPT ![s].pending = NoSeek]
    /\ UNCHANGED <<counts, ticket, app, links, runEnd, history>>

Mode(kind) == IF kind \in {"loop", "reverse"} THEN kind ELSE "plain"

Flushing(s) == src[s].seek.kind \in FlushingKinds

RefuseSeek(s) ==
    /\ src[s].pc = "accept"
    /\ MayRefuse
    /\ ticket' = IF s = Leader THEN Answered(src[s].seek.id, "Refused") ELSE ticket
    /\ src' = [src EXCEPT ![s].pc = "play", ![s].seek = NoSeek]
    /\ UNCHANGED <<ctl, counts, app, links, runEnd, history>>

ServeSeek(s) ==
    /\ src[s].pc = "accept"
    /\ counts' = IF s = Leader /\ Flushing(s)
                 THEN [counts EXCEPT !.taken = @ + 1] ELSE counts
    /\ ticket' = IF s = Leader THEN Answered(src[s].seek.id, "Served") ELSE ticket
    /\ src' = [src EXCEPT ![s].pc = IF Flushing(s) THEN "flush" ELSE "play",
                          ![s].mode = Mode(src[s].seek.kind), ![s].seek = NoSeek]
    /\ UNCHANGED <<ctl, app, links, runEnd, history>>

(* A push into the arm below, which fails once that arm has ended.  The    *)
(* source's own end shuts the controllers down (shut_down_when_done).      *)
Push(s, packet, next) ==
    \/ /\ mid[s].up
       /\ Len(feed[s]) < LinkCapacity
       /\ feed' = [feed EXCEPT ![s] = Append(@, packet)]
       /\ IF next = "done"
          THEN ShutDown /\ src' = [Roused(Sources) EXCEPT ![s].pc = "done"]
          ELSE Goto(s, next) /\ UNCHANGED ctl
    \/ /\ ~mid[s].up
       /\ ShutDown
       /\ src' = [Roused(Sources) EXCEPT ![s].pc = "done"]
       /\ UNCHANGED feed

SendFlush(s) ==
    /\ src[s].pc = "flush"
    /\ Push(s, [is |-> "Flush", nth |-> sent[s] + 1], "play")
    /\ sent' = [sent EXCEPT ![s] = IF mid[s].up THEN @ + 1 ELSE @]
    /\ UNCHANGED <<counts, ticket, app, mid, link, sink, runEnd, lastEos,
                   free, faults>>

(* No seek at the head of the loop: frames go out until the stream or the  *)
(* segment has played out, or the head is reached again with a seek.       *)
PlayOn(s) ==
    /\ \/ src[s].pc = "play" /\ ctl[s].pending = NoSeek /\ Goto(s, "frames")
       \/ src[s].pc = "frames" /\ ctl[s].pending # NoSeek /\ Goto(s, "play")
       \/ src[s].pc = "frames" /\ Goto(s, "end")
    /\ UNCHANGED <<ctl, counts, ticket, app, links, runEnd, history>>

Eos(s) == [is |-> "Eos", nth |-> sent[s]]

(* A looping segment reports and parks without an Eos.                     *)
SegmentDone(s) ==
    /\ src[s].pc = "end"
    /\ src[s].mode = "loop"
    /\ counts' = IF s = Leader THEN [counts EXCEPT !.segments = @ + 1]
                 ELSE counts
    /\ Goto(s, "wait")
    /\ UNCHANGED <<ctl, ticket, app, links, runEnd, history>>

(* Reverse playback ends on its Eos; anything else waits for a seek.       *)
SendEos(s) ==
    /\ \/ src[s].pc = "end" /\ src[s].mode = "plain"
          /\ Push(s, Eos(s), "wait")
       \/ src[s].pc = "end" /\ src[s].mode = "reverse"
          /\ Push(s, Eos(s), "done")
       \/ src[s].pc = "lastEos"
          /\ Push(s, Eos(s), "done")
    /\ UNCHANGED <<counts, ticket, app, mid, link, sink, runEnd, history>>

(* wait_for_seek: a pending seek, then a shutdown, then WaitEvent, which   *)
(* looks for either, registers and looks again.                            *)
WaitPending(s) ==
    /\ src[s].pc = "wait"
    /\ Goto(s, IF ctl[s].pending # NoSeek THEN "play" ELSE "shut")
    /\ UNCHANGED <<ctl, counts, ticket, app, links, runEnd, history>>

WaitShutdown(s) ==
    /\ src[s].pc = "shut"
    /\ Goto(s, CASE ctl[s].shutdown /\ src[s].mode = "loop" -> "lastEos"
                 [] ctl[s].shutdown /\ src[s].mode # "loop" -> "done"
                 [] ~ctl[s].shutdown /\ HasEvent(s) -> "wait"
                 [] OTHER -> "register")
    /\ UNCHANGED <<ctl, counts, ticket, app, links, runEnd, history>>

WaitRegister(s) ==
    /\ src[s].pc = "register"
    /\ ctl' = [ctl EXCEPT ![s].waker = TRUE]
    /\ Goto(s, "recheck")
    /\ UNCHANGED <<counts, ticket, app, links, runEnd, history>>

WaitAgain(s) ==
    /\ src[s].pc = "recheck"
    /\ Goto(s, IF HasEvent(s) THEN "wait" ELSE "parked")
    /\ UNCHANGED <<ctl, counts, ticket, app, links, runEnd, history>>

-----------------------------------------------------------------------------
(* The arms.                                                               *)

SinksOf(s) == {s} \X Branches

(* Mutant: the Eos of the latest seek counts as stale.                     *)
StaleTooSoon(flushes) == flushes <= counts.taken

Stale(flushes) == flushes < counts.taken

(* The arm below the source drops a stale Eos and forwards the rest.  A    *)
(* branch that ended fails it, unless it is a tee that may drop branches:  *)
(* that one skips them, and is done once a packet finds none left.         *)
MidTake(s) ==
    LET packet == Head(feed[s])
        forwarded == ~(packet.is = "Eos" /\ Stale(mid[s].flushes))
        living == {k \in SinksOf(s) : sink[k].pc # "done"}
        ends == /\ forwarded
                /\ IF BranchDrop THEN living = {} /\ packet.is # "Eos"
                   ELSE living # SinksOf(s)
    IN  /\ mid[s].up
        /\ feed[s] # << >>
        /\ ends \/ ~forwarded
             \/ \A k \in living : Len(link[k]) < LinkCapacity
        /\ feed' = [feed EXCEPT ![s] = Tail(@)]
        /\ mid' = [mid EXCEPT ![s] =
                      [flushes |-> @.flushes + (IF packet.is = "Flush" THEN 1
                                                ELSE 0),
                       up |-> ~ends]]
        /\ link' = [k \in Sinks |-> IF forwarded /\ ~ends /\ k \in living
                                    THEN Append(link[k], packet) ELSE link[k]]
        /\ IF ends THEN ShutDown /\ src' = Roused(Sources)
           ELSE UNCHANGED <<ctl, src>>
        /\ UNCHANGED <<counts, ticket, app, sink, runEnd, history>>

(* Its input closed: it ends, and its end shuts the controllers down.      *)
MidEnds(s) ==
    /\ mid[s].up
    /\ feed[s] = << >> /\ src[s].pc = "done"
    /\ mid' = [mid EXCEPT ![s].up = FALSE]
    /\ ShutDown
    /\ src' = Roused(Sources)
    /\ UNCHANGED <<counts, ticket, app, feed, link, sink, runEnd, history>>

(* Mutant: the Flush leaves the reported end standing.                     *)
SinkFlushKeepsEos(k) ==
    /\ sink[k].pc = "recv"
    /\ link[k] # << >> /\ Head(link[k]).is = "Flush"
    /\ link' = [link EXCEPT ![k] = Tail(@)]
    /\ sink' = [sink EXCEPT ![k].flushes = @ + 1]
    /\ UNCHANGED <<ctl, counts, ticket, app, src, feed, mid, runEnd, history>>

(* A sink arm: a Flush takes back the end it reported.                     *)
SinkFlush(k) ==
    /\ sink[k].pc = "recv"
    /\ link[k] # << >> /\ Head(link[k]).is = "Flush"
    /\ link' = [link EXCEPT ![k] = Tail(@)]
    /\ sink' = [sink EXCEPT ![k] = [pc |-> "recv", flushes |-> @.flushes + 1,
                                    atEos |-> FALSE]]
    /\ UNCHANGED <<ctl, counts, ticket, app, src, feed, mid, runEnd, history>>

(* An Eos that is not stale is handed to the element, and only then        *)
(* reported.                                                               *)
SinkEos(k) ==
    /\ sink[k].pc = "recv"
    /\ link[k] # << >> /\ Head(link[k]).is = "Eos"
    /\ link' = [link EXCEPT ![k] = Tail(@)]
    /\ IF Stale(sink[k].flushes)
       THEN UNCHANGED <<sink, lastEos>>
       ELSE /\ sink' = [sink EXCEPT ![k].pc = "ending"]
            /\ lastEos' = [lastEos EXCEPT ![k] = Head(link[k]).nth]
    /\ UNCHANGED <<ctl, counts, ticket, app, src, feed, mid, runEnd, sent,
                   free, faults>>

(* Mutant: the end is reported to nobody.                                  *)
SinkEndedQuietly(k) ==
    /\ sink[k].pc = "ending"
    /\ sink' = [sink EXCEPT ![k] = [@ EXCEPT !.pc = "recv", !.atEos = TRUE]]
    /\ UNCHANGED <<ctl, counts, ticket, app, src, feed, mid, link, runEnd,
                   history>>

SinkEnded(k) ==
    /\ sink[k].pc = "ending"
    /\ sink' = [sink EXCEPT ![k] = [@ EXCEPT !.pc = "recv", !.atEos = TRUE]]
    /\ runEnd' = WokenRunEnd
    /\ UNCHANGED <<ctl, counts, ticket, app, src, feed, mid, link, history>>

SinkCloses(k) ==
    /\ sink[k].pc = "recv"
    /\ link[k] = << >> /\ ~mid[k[1]].up
    /\ sink' = [sink EXCEPT ![k].pc = "done"]
    /\ ShutDown
    /\ src' = Roused(Sources)
    /\ UNCHANGED <<counts, ticket, app, feed, mid, link, runEnd, history>>

(* Mutant: a failing arm leaves the parked source alone.                   *)
SinkFailsAlone(k) ==
    /\ faults < MaxFaults
    /\ sink[k].pc = "recv"
    /\ faults' = faults + 1
    /\ sink' = [sink EXCEPT ![k].pc = "done"]
    /\ free' = TRUE
    /\ UNCHANGED <<ctl, counts, ticket, app, src, feed, mid, link, runEnd,
                   sent, lastEos>>

(* A sink arm ends on an error or a Null stop.                             *)
SinkFails(k) ==
    /\ faults < MaxFaults
    /\ sink[k].pc = "recv"
    /\ faults' = faults + 1
    /\ sink' = [sink EXCEPT ![k].pc = "done"]
    /\ ShutDown
    /\ src' = Roused(Sources)
    /\ free' = TRUE
    /\ UNCHANGED <<counts, ticket, app, feed, mid, link, runEnd, sent,
                   lastEos>>

-----------------------------------------------------------------------------
(* end_when_nothing_more_is_sought, polled when its waker was taken.       *)

RunEndStart ==
    /\ runEnd.pc = "woken"
    /\ runEnd' = [pc |-> "scan", n |-> counts.taken, scan |-> Sinks,
                  waker |-> TRUE]
    /\ UNCHANGED <<ctl, counts, ticket, app, src, links, history>>

SinkHasEnded(k, n) == sink[k].atEos /\ sink[k].flushes >= n

(* A wake during the poll has the task polled again.                       *)
Asleep == IF runEnd.waker THEN "asleep" ELSE "woken"

RunEndScan ==
    /\ runEnd.pc = "scan"
    /\ \E k \in runEnd.scan :
          runEnd' = IF SinkHasEnded(k, runEnd.n)
                    THEN [runEnd EXCEPT !.scan = @ \ {k},
                             !.pc = IF runEnd.scan = {k} THEN "pending" ELSE @]
                    ELSE [runEnd EXCEPT !.scan = {}, !.pc = Asleep]
    /\ UNCHANGED <<ctl, counts, ticket, app, src, links, history>>

MarkStreamEnded ==
    /\ runEnd.pc = "pending"
    /\ IF ctl[Leader].pending = NoSeek
       THEN /\ counts' = [counts EXCEPT !.ended = runEnd.n]
            /\ runEnd' = [runEnd EXCEPT !.pc = "held"]
       ELSE /\ runEnd' = [runEnd EXCEPT !.pc = Asleep]
            /\ UNCHANGED counts
    /\ UNCHANGED <<ctl, ticket, app, src, links, history>>

(* Mutant: the hold of the application is not looked at.                   *)
RunEndShutdownAnyway ==
    /\ runEnd.pc = "held"
    /\ runEnd' = [runEnd EXCEPT !.pc = Asleep]
    /\ ShutDown
    /\ src' = Roused(Sources)
    /\ UNCHANGED <<counts, ticket, app, links, history>>

RunEndShutdown ==
    /\ runEnd.pc = "held"
    /\ runEnd' = [runEnd EXCEPT !.pc = Asleep]
    /\ IF counts.held THEN UNCHANGED <<ctl, src>>
       ELSE ShutDown /\ src' = Roused(Sources)
    /\ UNCHANGED <<counts, ticket, app, links, history>>

-----------------------------------------------------------------------------
RunDone == \A s \in Sources : src[s].pc = "done" /\ ~mid[s].up

(* The run is over once every arm has ended.                               *)
Finished ==
    /\ RunDone
    /\ \A k \in Sinks : sink[k].pc = "done"
    /\ UNCHANGED vars

AppNext ==
    \/ \E kind \in Kinds : SeekLeader(kind)
    \/ \E s \in Followers : SeekFollower(s)
    \/ LetRunEnd
    \/ AppShutdown

SourceNext(s) ==
    \/ TakeSeek(s) \/ RefuseSeek(s) \/ ServeSeek(s)
    \/ SendFlush(s) \/ PlayOn(s) \/ SegmentDone(s) \/ SendEos(s)
    \/ WaitPending(s) \/ WaitShutdown(s) \/ WaitRegister(s) \/ WaitAgain(s)

MidNext(s) == MidTake(s) \/ MidEnds(s)

SinkNext(k) ==
    SinkFlush(k) \/ SinkEos(k) \/ SinkEnded(k) \/ SinkCloses(k)

RunEndNext ==
    RunEndStart \/ RunEndScan \/ MarkStreamEnded \/ RunEndShutdown

Next ==
    \/ AppNext
    \/ \E s \in Sources : SourceNext(s) \/ MidNext(s)
    \/ \E k \in Sinks : SinkNext(k) \/ SinkFails(k)
    \/ RunEndNext
    \/ Finished

(* Every thread runs.  The application owes nothing but the rest of a seek *)
(* it began.                                                               *)
Fairness ==
    /\ \A s \in Sources : WF_vars(SourceNext(s)) /\ WF_vars(MidNext(s))
    /\ \A k \in Sinks : WF_vars(SinkNext(k))
    /\ \A s \in Followers : WF_vars(SeekFollower(s))
    /\ WF_vars(RunEndNext)

Spec == Init /\ [][Next]_vars /\ Fairness

-----------------------------------------------------------------------------
SeekRecord ==
    [id : 0..MaxSeeks, kind : FlushingKinds \cup {"accumulate", "none"}]

TypeOK ==
    /\ ctl \in [Sources -> [pending : SeekRecord, shutdown : BOOLEAN,
                            waker : BOOLEAN]]
    /\ counts \in [taken : 0..MaxSeeks, ended : -1..MaxSeeks, held : BOOLEAN,
                   segments : 0..MaxSeeks]
    /\ ticket \in [Seeks -> [outcome : {"none", "Served", "Refused",
                                        "Superseded"},
                             early : BOOLEAN]]
    /\ app \in [made : 0..MaxSeeks, seek : SeekRecord, todo : SUBSET Followers]
    /\ src \in [Sources -> [pc : SrcStates, seek : SeekRecord,
                            mode : {"plain", "loop", "reverse"}]]
    /\ mid \in [Sources -> [flushes : 0..MaxSeeks, up : BOOLEAN]]
    /\ sink \in [Sinks -> [pc : {"recv", "ending", "done"},
                           flushes : 0..MaxSeeks, atEos : BOOLEAN]]
    /\ runEnd \in [pc : RunEndStates, n : 0..MaxSeeks, scan : SUBSET Sinks,
                   waker : BOOLEAN]
    /\ sent \in [Sources -> 0..MaxSeeks]
    /\ lastEos \in [Sinks -> -1..MaxSeeks]
    /\ free \in BOOLEAN
    /\ faults \in 0..MaxFaults

(* While the end of the stream is marked for the latest flushing seek,     *)
(* every sink sits at an Eos that the source sent after that seek's Flush: *)
(* neither an Eos in flight when the seek was taken nor one a Flush took   *)
(* back is counted (every_sink_ended, eos_is_stale).                       *)
StreamEndIsReal ==
    counts.ended = counts.taken =>
        \A k \in Sinks : sink[k].atEos /\ lastEos[k] = counts.taken

(* An Eos that an arm drops as stale precedes a Flush: its source has sent *)
(* one since, or is about to (ArmFlushCount::eos_is_stale).                *)
StaleEosIsOld ==
    \A s \in Sources :
        mid[s].up /\ feed[s] # << >> /\ Stale(mid[s].flushes) =>
            \/ Head(feed[s]).is # "Eos"
            \/ Head(feed[s]).nth < sent[s]
            \/ src[s].pc \in {"accept", "flush", "done"}
            \/ ctl[s].pending # NoSeek
            \/ s \in app.todo

(* A run the application holds open stays up: no source returns before     *)
(* let_run_end, a shutdown by the application or an arm's failure          *)
(* (keep_run_open, run_held_open).                                         *)
HeldRunStaysUp ==
    \A s \in Sources : src[s].pc = "done" => free

(* A seek is answered, unless the source returned: whoever parked in       *)
(* wait_event is woken by it.                                              *)
TicketResolves ==
    \A t \in Seeks :
        app.made >= t ~> ticket[t].outcome # "none" \/ src[Leader].pc = "done"

(* A run nobody holds open ends, unless a looping segment is parked for    *)
(* its next seek: the last sink at its Eos, or let_run_end, wakes the      *)
(* future that shuts the sources down.                                     *)
RunEnds ==
    <>[](~counts.held) =>
        <>[](RunDone \/ \E s \in Sources : src[s].mode = "loop"
                                          /\ src[s].pc = "parked")

(* An arm that ends early ends the run, held open or not: a parked source  *)
(* is woken and returns (shut_down_when_done).                             *)
FaultEndsRun == faults > 0 ~> RunDone

(* A seek made before the application lets the run end is answered before  *)
(* the source returns, even when it races the run's end.                   *)
SeekBeforeReleaseAnswered ==
    (src[Leader].pc = "done" /\ faults = 0 /\ ~AppShutsDown) =>
        \A t \in Seeks : ticket[t].early => ticket[t].outcome # "none"
=============================================================================
