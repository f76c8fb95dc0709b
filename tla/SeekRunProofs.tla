--------------------------- MODULE SeekRunProofs ---------------------------
(***************************************************************************)
(* Proofs about seeking up to and past the end of the stream, for every    *)
(* number of sinks, seeks and faults, every link capacity and every mix of *)
(* seeks, refusals and shutdowns.                                          *)
(***************************************************************************)
EXTENDS SeekRun, TLAPS

(* What the followers and a reverse playback may do that the leader alone  *)
(* may not: the hypotheses of the theorems below.                          *)
LeaderAlone == Followers = {}
NoReverse == "reverse" \notin Kinds

Packet == [is : {"Flush", "Eos"}, nth : Nat]
SeekRec == [id : Nat, kind : Kinds \cup {"none"}]
SrcRec == [pc : SrcStates, seek : SeekRec,
           mode : {"plain"} \cup (Kinds \cap {"loop", "reverse"})]
CtlRec == [pending : SeekRec, shutdown : BOOLEAN, waker : BOOLEAN]
MidRec == [flushes : Nat, up : BOOLEAN]
SinkRec == [pc : {"recv", "ending", "done"}, flushes : Nat, atEos : BOOLEAN]

(* The types, with the counters unbounded.                                 *)
ControlTyped ==
    /\ ctl \in [Sources -> CtlRec]
    /\ src \in [Sources -> SrcRec]
    /\ counts \in [taken : Nat, ended : Int, held : BOOLEAN, segments : Nat]
    /\ app \in [made : Nat, seek : SeekRec, todo : SUBSET Followers]
    /\ runEnd \in [pc : RunEndStates, n : Nat, scan : SUBSET Sinks,
                   waker : BOOLEAN]
    /\ free \in BOOLEAN

ArmsTyped ==
    /\ feed \in [Sources -> Seq(Packet)]
    /\ mid \in [Sources -> MidRec]
    /\ link \in [Sinks -> Seq(Packet)]
    /\ sink \in [Sinks -> SinkRec]
    /\ sent \in [Sources -> Nat]
    /\ lastEos \in [Sinks -> Int]

Typed == ControlTyped /\ ArmsTyped

(* Waking a set of sources moves those that are parked, and nothing else.  *)
LEMMA RousedFacts ==
  ASSUME Typed, NEW W
  PROVE  /\ Roused(W) \in [Sources -> SrcRec]
         /\ \A s \in Sources :
               /\ Roused(W)[s].seek = src[s].seek
               /\ Roused(W)[s].mode = src[s].mode
               /\ \/ Roused(W)[s].pc = src[s].pc
                  \/ src[s].pc = "parked" /\ Roused(W)[s].pc = "wait"
BY DEF Roused, Typed, ControlTyped, SrcRec, SrcStates

(* A shutdown raises every flag and leaves the slots alone.                *)
LEMMA ShutDownFacts ==
  ASSUME Typed, ShutDown
  PROVE  /\ ctl' \in [Sources -> CtlRec]
         /\ \A s \in Sources : ctl'[s].pending = ctl[s].pending
BY DEF ShutDown, Typed, ControlTyped, CtlRec

(* A push goes into a link that has room, or ends the source.              *)
LEMMA PushFacts ==
  ASSUME Typed, NEW s \in Sources, NEW packet \in Packet,
         NEW next \in SrcStates, Push(s, packet, next)
  PROVE  /\ feed' \in [Sources -> Seq(Packet)]
         /\ src' \in [Sources -> SrcRec]
         /\ ctl' \in [Sources -> CtlRec]
         /\ \A t \in Sources : ctl'[t].pending = ctl[t].pending
         /\ \A t \in Sources : src'[t].seek = src[t].seek
                            /\ src'[t].mode = src[t].mode
         /\ \A t \in Sources \ {s} :
               \/ src'[t].pc = src[t].pc
               \/ src[t].pc = "parked" /\ src'[t].pc = "wait"
         /\ src'[s].pc = IF mid[s].up THEN next ELSE "done"
         /\ feed' = IF mid[s].up
                    THEN [feed EXCEPT ![s] = Append(feed[s], packet)] ELSE feed
<1>1. CASE mid[s].up /\ next # "done"
  <2>1. /\ src' = [src EXCEPT ![s].pc = next] /\ ctl' = ctl
        /\ feed' = [feed EXCEPT ![s] = Append(feed[s], packet)]
    BY <1>1 DEF Push, Goto
  <2>2. feed' \in [Sources -> Seq(Packet)]
    BY <2>1 DEF Typed, ArmsTyped
  <2>3. /\ src' \in [Sources -> SrcRec]
        /\ \A t \in Sources : src'[t].seek = src[t].seek
                            /\ src'[t].mode = src[t].mode
        /\ \A t \in Sources \ {s} : src'[t].pc = src[t].pc
        /\ src'[s].pc = next
    BY <2>1 DEF Typed, ControlTyped, SrcRec
  <2>4. QED  BY <2>1, <2>2, <2>3, <1>1 DEF Typed, ControlTyped
<1>2. CASE mid[s].up /\ next = "done"
  <2>1. /\ ShutDown /\ src' = [Roused(Sources) EXCEPT ![s].pc = "done"]
        /\ feed' = [feed EXCEPT ![s] = Append(feed[s], packet)]
    BY <1>2 DEF Push
  <2>2. feed' \in [Sources -> Seq(Packet)]
    BY <2>1 DEF Typed, ArmsTyped
  <2>3. QED  BY <2>1, <2>2, <1>2, RousedFacts, ShutDownFacts DEF SrcRec
<1>3. CASE ~mid[s].up
  <2>1. /\ ShutDown /\ src' = [Roused(Sources) EXCEPT ![s].pc = "done"]
        /\ feed' = feed
    BY <1>3 DEF Push
  <2>2. /\ src' \in [Sources -> SrcRec]
        /\ \A t \in Sources : src'[t].seek = src[t].seek
                            /\ src'[t].mode = src[t].mode
        /\ \A t \in Sources \ {s} :
               \/ src'[t].pc = src[t].pc
               \/ src[t].pc = "parked" /\ src'[t].pc = "wait"
        /\ src'[s].pc = "done"
    BY <2>1, RousedFacts DEF SrcRec, SrcStates
  <2>3. QED  BY <2>1, <2>2, <1>3, ShutDownFacts DEF Typed, ArmsTyped
<1>4. QED  BY <1>1, <1>2, <1>3

-----------------------------------------------------------------------------
(* The initial state is well typed.                                        *)
LEMMA TypedInit == Init => Typed
<1> SUFFICES ASSUME Init PROVE Typed
  OBVIOUS
<1>1. NoSeek \in SeekRec
  BY DEF NoSeek, SeekRec
<1>2. counts \in [taken : Nat, ended : Int, held : BOOLEAN, segments : Nat]
      /\ free \in BOOLEAN
  BY SeekRunAssumption DEF Init
<1>3. ControlTyped
  BY <1>1, <1>2 DEF Init, ControlTyped, CtlRec, SrcRec, SrcStates, RunEndStates
<1>4. ArmsTyped
  BY DEF Init, ArmsTyped, MidRec, SinkRec
<1>5. QED  BY <1>3, <1>4 DEF Typed

(* A source that only moves on.                                            *)
LEMMA GotoFacts ==
  ASSUME Typed, NEW s \in Sources, NEW next \in SrcStates, Goto(s, next)
  PROVE  /\ src' \in [Sources -> SrcRec]
         /\ \A t \in Sources : src'[t].seek = src[t].seek
                            /\ src'[t].mode = src[t].mode
         /\ \A t \in Sources \ {s} : src'[t].pc = src[t].pc
         /\ src'[s].pc = next
BY DEF Goto, Typed, ControlTyped, SrcRec

(* What the steps of the application leave: the leader's slot or a         *)
(* follower's holds the seek it makes.                                     *)
LEMMA AppTyped ==
  ASSUME Typed, AppNext
  PROVE  Typed'
<1>1. ASSUME NEW kind \in Kinds, SeekLeader(kind) PROVE Typed'
  <2>1. [id |-> app.made + 1, kind |-> kind] \in SeekRec /\ NoSeek \in SeekRec
    BY DEF SeekRec, NoSeek, Typed, ControlTyped
  <2>2. app' \in [made : Nat, seek : SeekRec, todo : SUBSET Followers]
    BY <1>1, <2>1 DEF SeekLeader, Typed, ControlTyped
  <2>3. ctl' \in [Sources -> CtlRec]
    BY <1>1, <2>1 DEF SeekLeader, Typed, ControlTyped, CtlRec, Sources
  <2>4. src' \in [Sources -> SrcRec]
    BY <1>1, RousedFacts DEF SeekLeader
  <2>5. QED  BY <1>1, <2>2, <2>3, <2>4 DEF SeekLeader, Typed, ControlTyped, ArmsTyped,
             links, history
<1>2. ASSUME NEW s \in Followers, SeekFollower(s) PROVE Typed'
  <2>1. s \in Sources  BY DEF Sources
  <2>2. app' \in [made : Nat, seek : SeekRec, todo : SUBSET Followers]
    <3>1. NoSeek \in SeekRec  BY DEF NoSeek, SeekRec
    <3>2. QED  BY <1>2, <3>1 DEF SeekFollower, Typed, ControlTyped
  <2>3. ctl' \in [Sources -> CtlRec]
    BY <1>2, <2>1 DEF SeekFollower, Typed, ControlTyped, CtlRec
  <2>4. src' \in [Sources -> SrcRec]
    BY <1>2, RousedFacts DEF SeekFollower
  <2>5. QED  BY <1>2, <2>2, <2>3, <2>4 DEF SeekFollower, Typed, ControlTyped, ArmsTyped,
             links, history
<1>3. CASE LetRunEnd
  BY <1>3 DEF LetRunEnd, WokenRunEnd, RunEndStates, Typed, ControlTyped, ArmsTyped, links
<1>4. CASE AppShutdown
  BY <1>4, RousedFacts, ShutDownFacts DEF AppShutdown, Typed, ControlTyped, ArmsTyped, links
<1>5. QED  BY <1>1, <1>2, <1>3, <1>4 DEF AppNext

(* A source that moves on with a seek and a mode of its own.                *)
LEMMA ReplacedFacts ==
  ASSUME Typed, NEW s \in Sources, NEW next \in SrcStates, NEW seek \in SeekRec,
         NEW mode \in {"plain"} \cup (Kinds \cap {"loop", "reverse"}),
         \/ src' = [src EXCEPT ![s].pc = next, ![s].mode = mode, ![s].seek = seek]
         \/ src' = [src EXCEPT ![s].pc = next, ![s].seek = seek]
            /\ mode = src[s].mode
  PROVE  /\ src' \in [Sources -> SrcRec]
         /\ \A t \in Sources \ {s} : src'[t] = src[t]
         /\ src'[s].pc = next /\ src'[s].seek = seek /\ src'[s].mode = mode
<1>1. src[s] \in SrcRec /\ DOMAIN src[s] = {"pc", "seek", "mode"}
  BY DEF Typed, ControlTyped, SrcRec
<1>2. PICK r : /\ src' = [src EXCEPT ![s] = r]
               /\ \/ r = [[[src[s] EXCEPT !.pc = next] EXCEPT !.mode = mode]
                             EXCEPT !.seek = seek]
                  \/ r = [[src[s] EXCEPT !.pc = next] EXCEPT !.seek = seek]
                     /\ mode = src[s].mode
  BY DEF Typed, ControlTyped
<1>3. r \in SrcRec /\ r.pc = next /\ r.seek = seek /\ r.mode = mode
  BY <1>1, <1>2 DEF SrcRec
<1>4. QED  BY <1>2, <1>3 DEF Typed, ControlTyped

(* The steps of a source.                                                  *)
LEMMA SourceTyped ==
  ASSUME Typed, NEW s \in Sources, SourceNext(s)
  PROVE  Typed'
<1> USE DEF SrcStates
<1> NoSeek \in SeekRec
  BY DEF NoSeek, SeekRec
<1> src[s].mode \in {"plain"} \cup (Kinds \cap {"loop", "reverse"})
  BY DEF Typed, ControlTyped, SrcRec
<1>1. CASE TakeSeek(s)
  <2>1. ctl' \in [Sources -> CtlRec]
    BY <1>1 DEF TakeSeek, Typed, ControlTyped, CtlRec
  <2>2. ctl[s].pending \in SeekRec
    BY DEF Typed, ControlTyped, CtlRec
  <2>4. src' \in [Sources -> SrcRec]
    <3>1. src' = [src EXCEPT ![s].pc = "accept", ![s].seek = ctl[s].pending]
      BY <1>1 DEF TakeSeek
    <3>2. QED  BY <2>2, <3>1, ReplacedFacts
  <2>5. QED  BY <1>1, <2>1, <2>4 DEF TakeSeek, Typed, ControlTyped, ArmsTyped, links, history
<1>2. CASE RefuseSeek(s)
  <2>2. src' \in [Sources -> SrcRec]
    BY <1>2, ReplacedFacts DEF RefuseSeek
  <2>3. QED  BY <1>2, <2>2 DEF RefuseSeek, Typed, ControlTyped, ArmsTyped, links, history
<1>3. CASE ServeSeek(s)
  <2>1. counts' \in [taken : Nat, ended : Int, held : BOOLEAN, segments : Nat]
    BY <1>3 DEF ServeSeek, Typed, ControlTyped
  <2>2. Mode(src[s].seek.kind) \in {"plain"} \cup (Kinds \cap {"loop", "reverse"})
    BY DEF Mode, Typed, ControlTyped, SrcRec, SeekRec
  <2>3. src' \in [Sources -> SrcRec]
    <3>1. PICK next \in SrcStates :
             src' = [src EXCEPT ![s].pc = next, ![s].mode = Mode(src[s].seek.kind),
                                ![s].seek = NoSeek]
      BY <1>3 DEF ServeSeek
    <3>2. QED  BY <2>2, <3>1, ReplacedFacts
  <2>4. QED  BY <1>3, <2>1, <2>3 DEF ServeSeek, Typed, ControlTyped, ArmsTyped, links, history
<1>4. CASE SendFlush(s)
  <2>1. [is |-> "Flush", nth |-> sent[s] + 1] \in Packet
    BY DEF Packet, Typed, ArmsTyped
  <2>2. sent' \in [Sources -> Nat]
    BY <1>4 DEF SendFlush, Typed, ArmsTyped
  <2>3. QED  BY <1>4, <2>1, <2>2, PushFacts DEF SendFlush, Typed, ControlTyped, ArmsTyped
<1>5. CASE PlayOn(s)
  BY <1>5, GotoFacts DEF PlayOn, Typed, ControlTyped, ArmsTyped, links, history
<1>6. CASE SegmentDone(s)
  <2>1. counts' \in [taken : Nat, ended : Int, held : BOOLEAN, segments : Nat]
    BY <1>6 DEF SegmentDone, Typed, ControlTyped
  <2>2. QED  BY <1>6, <2>1, GotoFacts DEF SegmentDone, Typed, ControlTyped, ArmsTyped,
             links, history
<1>7. CASE SendEos(s)
  <2>1. Eos(s) \in Packet
    BY DEF Eos, Packet, Typed, ArmsTyped
  <2>2. Push(s, Eos(s), "wait") \/ Push(s, Eos(s), "done")
    BY <1>7 DEF SendEos
  <2>3. QED  BY <1>7, <2>1, <2>2, PushFacts DEF SendEos, Typed, ControlTyped, ArmsTyped, history
<1>8. CASE WaitPending(s)
  BY <1>8, GotoFacts DEF WaitPending, Typed, ControlTyped, ArmsTyped, links, history
<1>9. CASE WaitShutdown(s)
  <2>1. \E next \in SrcStates : Goto(s, next)
    BY <1>9 DEF WaitShutdown
  <2>2. QED  BY <1>9, <2>1, GotoFacts DEF WaitShutdown, Typed, ControlTyped, ArmsTyped,
             links, history
<1>10. CASE WaitRegister(s)
  <2>1. ctl' \in [Sources -> CtlRec]
    BY <1>10 DEF WaitRegister, Typed, ControlTyped, CtlRec
  <2>2. \E next \in SrcStates : Goto(s, next)
    BY <1>10 DEF WaitRegister
  <2>3. QED  BY <1>10, <2>1, <2>2, GotoFacts DEF WaitRegister, Typed, ControlTyped, ArmsTyped,
             links, history
<1>11. CASE WaitAgain(s)
  BY <1>11, GotoFacts DEF WaitAgain, Typed, ControlTyped, ArmsTyped, links, history
<1>12. QED  BY <1>1, <1>2, <1>3, <1>4, <1>5, <1>6, <1>7, <1>8, <1>9, <1>10, <1>11
            DEF SourceNext

(* The steps of the arms.                                                  *)
LEMMA ArmTyped ==
  ASSUME Typed,
         \/ \E s \in Sources : MidNext(s)
         \/ \E k \in Sinks : SinkNext(k) \/ SinkFails(k)
  PROVE  Typed'
<1>1. ASSUME NEW s \in Sources, MidTake(s) PROVE Typed'
  <2> DEFINE packet == Head(feed[s])
             forwarded == ~(packet.is = "Eos" /\ Stale(mid[s].flushes))
             living == {k \in SinksOf(s) : sink[k].pc # "done"}
             ends == /\ forwarded
                     /\ IF BranchDrop THEN living = {} /\ packet.is # "Eos"
                        ELSE living # SinksOf(s)
             more == mid[s].flushes + (IF packet.is = "Flush" THEN 1 ELSE 0)
  <2>1. feed[s] \in Seq(Packet) /\ feed[s] # << >>
    BY <1>1 DEF MidTake, Typed, ArmsTyped
  <2>2. packet \in Packet /\ Tail(feed[s]) \in Seq(Packet)
    BY <2>1
  <2>3. feed' \in [Sources -> Seq(Packet)]
    BY <1>1, <2>2 DEF MidTake, Typed, ArmsTyped
  <2>4. mid[s].flushes \in Nat
    BY DEF Typed, ArmsTyped, MidRec
  <2>5. more \in Nat
    BY <2>4
  <2>6. mid' = [mid EXCEPT ![s] = [flushes |-> more, up |-> ~ends]]
    BY <1>1 DEF MidTake
  <2>7. ends \in BOOLEAN
    OBVIOUS
  <2>8. mid' \in [Sources -> MidRec]
    <3> HIDE DEF more, ends
    <3> QED  BY <2>5, <2>6, <2>7 DEF MidRec, Typed, ArmsTyped
  <2>9. link' = [k \in Sinks |-> IF forwarded /\ ~ends /\ k \in living
                                 THEN Append(link[k], packet) ELSE link[k]]
    BY <1>1 DEF MidTake
  <2>10. link' \in [Sinks -> Seq(Packet)]
    <3> HIDE DEF forwarded, ends, living, packet
    <3> QED  BY <2>2, <2>9 DEF Typed, ArmsTyped
  <2>11. src' \in [Sources -> SrcRec] /\ ctl' \in [Sources -> CtlRec]
    <3>1. (ShutDown /\ src' = Roused(Sources)) \/ (ctl' = ctl /\ src' = src)
      BY <1>1 DEF MidTake
    <3>2. QED  BY <3>1, RousedFacts, ShutDownFacts DEF Typed, ControlTyped
  <2>12. QED  BY <1>1, <2>3, <2>8, <2>10, <2>11
              DEF MidTake, Typed, ControlTyped, ArmsTyped, history
<1>2. ASSUME NEW s \in Sources, MidEnds(s) PROVE Typed'
  <2>1. mid' \in [Sources -> MidRec]
    BY <1>2 DEF MidEnds, Typed, ArmsTyped, MidRec
  <2>2. QED  BY <1>2, <2>1, RousedFacts, ShutDownFacts
             DEF MidEnds, Typed, ControlTyped, ArmsTyped, history
<1>3. ASSUME NEW k \in Sinks, SinkFlush(k) \/ SinkEos(k) PROVE Typed'
  <2>1. link[k] \in Seq(Packet) /\ link[k] # << >>
    BY <1>3 DEF SinkFlush, SinkEos, Typed, ArmsTyped
  <2>2. Head(link[k]) \in Packet /\ Tail(link[k]) \in Seq(Packet)
    BY <2>1
  <2>3. link' \in [Sinks -> Seq(Packet)]
    BY <1>3, <2>2 DEF SinkFlush, SinkEos, Typed, ArmsTyped
  <2>4. CASE SinkFlush(k)
    <3>1. sink[k] \in SinkRec
      BY DEF Typed, ArmsTyped
    <3>2. sink' \in [Sinks -> SinkRec]
      <4>1. sink[k].flushes + 1 \in Nat
        BY <3>1 DEF SinkRec
      <4>2. sink' = [sink EXCEPT ![k] = [pc |-> "recv", flushes |-> sink[k].flushes + 1,
                                         atEos |-> FALSE]]
        BY <2>4 DEF SinkFlush
      <4>3. QED  BY <4>1, <4>2 DEF Typed, ArmsTyped, SinkRec
    <3>3. QED  BY <2>3, <2>4, <3>2 DEF SinkFlush, Typed, ControlTyped, ArmsTyped, history
  <2>5. CASE SinkEos(k)
    <3>1. sink' \in [Sinks -> SinkRec] /\ lastEos' \in [Sinks -> Int]
      <4>1. sink' = sink \/ sink' = [sink EXCEPT ![k].pc = "ending"]
        BY <2>5 DEF SinkEos
      <4>2. sink' \in [Sinks -> SinkRec]
        BY <4>1 DEF Typed, ArmsTyped, SinkRec
      <4>3. Head(link[k]).nth \in Int
        BY <2>2 DEF Packet
      <4>4. QED  BY <2>5, <4>2, <4>3 DEF SinkEos, Typed, ArmsTyped
    <3>2. QED  BY <2>3, <2>5, <3>1 DEF SinkEos, Typed, ControlTyped, ArmsTyped
  <2>6. QED  BY <1>3, <2>4, <2>5
<1>4. ASSUME NEW k \in Sinks, SinkEnded(k) PROVE Typed'
  <2>1. [sink[k] EXCEPT !.pc = "recv", !.atEos = TRUE] \in SinkRec
    BY DEF Typed, ArmsTyped, SinkRec
  <2>2. sink' \in [Sinks -> SinkRec]
    BY <1>4, <2>1 DEF SinkEnded, Typed, ArmsTyped
  <2>3. runEnd' \in [pc : RunEndStates, n : Nat, scan : SUBSET Sinks, waker : BOOLEAN]
    BY <1>4 DEF SinkEnded, WokenRunEnd, RunEndStates, Typed, ControlTyped
  <2>4. QED  BY <1>4, <2>2, <2>3 DEF SinkEnded, Typed, ControlTyped, ArmsTyped, history
<1>5. ASSUME NEW k \in Sinks, SinkCloses(k) \/ SinkFails(k) PROVE Typed'
  <2>1. sink' \in [Sinks -> SinkRec]
    <3>1. sink' = [sink EXCEPT ![k].pc = "done"]
      BY <1>5 DEF SinkCloses, SinkFails
    <3>2. QED  BY <3>1 DEF Typed, ArmsTyped, SinkRec
  <2>2. free' \in BOOLEAN
    BY <1>5 DEF SinkCloses, SinkFails, history, Typed, ControlTyped
  <2>3. QED  BY <1>5, <2>1, <2>2, RousedFacts, ShutDownFacts
             DEF SinkCloses, SinkFails, Typed, ControlTyped, ArmsTyped, history
<1>6. QED  BY <1>1, <1>2, <1>3, <1>4, <1>5 DEF MidNext, SinkNext

(* The steps of the future that ends the run.                              *)
LEMMA RunEndTyped ==
  ASSUME Typed, RunEndNext
  PROVE  Typed'
<1> USE DEF RunEndStates
<1>1. CASE RunEndStart
  BY <1>1 DEF RunEndStart, Typed, ControlTyped, ArmsTyped, links, history
<1>2. CASE RunEndScan
  <2>1. PICK k \in runEnd.scan :
          runEnd' = IF SinkHasEnded(k, runEnd.n)
                    THEN [runEnd EXCEPT !.scan = @ \ {k},
                             !.pc = IF runEnd.scan = {k} THEN "pending" ELSE @]
                    ELSE [runEnd EXCEPT !.scan = {}, !.pc = Asleep]
    BY <1>2 DEF RunEndScan
  <2>2. runEnd' \in [pc : RunEndStates, n : Nat, scan : SUBSET Sinks, waker : BOOLEAN]
    BY <2>1 DEF Asleep, Typed, ControlTyped
  <2>3. QED  BY <1>2, <2>2 DEF RunEndScan, Typed, ControlTyped, ArmsTyped, links, history
<1>3. CASE MarkStreamEnded
  <2>1. runEnd' \in [pc : RunEndStates, n : Nat, scan : SUBSET Sinks, waker : BOOLEAN]
    BY <1>3 DEF MarkStreamEnded, Asleep, Typed, ControlTyped
  <2>2. counts' \in [taken : Nat, ended : Int, held : BOOLEAN, segments : Nat]
    BY <1>3 DEF MarkStreamEnded, Typed, ControlTyped
  <2>3. QED  BY <1>3, <2>1, <2>2 DEF MarkStreamEnded, Typed, ControlTyped, ArmsTyped, links, history
<1>4. CASE RunEndShutdown
  <2>1. runEnd' \in [pc : RunEndStates, n : Nat, scan : SUBSET Sinks, waker : BOOLEAN]
    BY <1>4 DEF RunEndShutdown, Asleep, Typed, ControlTyped
  <2>2. src' \in [Sources -> SrcRec] /\ ctl' \in [Sources -> CtlRec]
    BY <1>4, RousedFacts, ShutDownFacts DEF RunEndShutdown, Typed, ControlTyped
  <2>3. QED  BY <1>4, <2>1, <2>2 DEF RunEndShutdown, Typed, ControlTyped, ArmsTyped, links, history
<1>5. QED  BY <1>1, <1>2, <1>3, <1>4 DEF RunEndNext

(* Every step keeps the types.                                             *)
LEMMA TypedNext ==
  ASSUME Typed, [Next]_vars
  PROVE  Typed'
<1>1. CASE UNCHANGED vars \/ Finished
  BY <1>1 DEF vars, Finished, Typed, ControlTyped, ArmsTyped
<1>2. QED  BY <1>1, AppTyped, SourceTyped, ArmTyped, RunEndTyped DEF Next

-----------------------------------------------------------------------------
(* Whatever ends a source, or would end one, goes back to the application  *)
(* or to an arm's failure: the flag of a controller, an arm or a sink that *)
(* has ended, a source on its way out, a run no longer held.               *)
UpInv ==
    /\ \A s \in Sources : ctl[s].shutdown => free
    /\ \A s \in Sources : src[s].pc \in {"lastEos", "done"} => free
    /\ \A s \in Sources : ~mid[s].up => free
    /\ \A k \in Sinks : sink[k].pc = "done" => free
    /\ ~counts.held => free

(* Waking sources ends none of them.                                       *)
LEMMA RousedUp ==
  ASSUME Typed, UpInv, NEW W
  PROVE  \A s \in Sources : Roused(W)[s].pc \in {"lastEos", "done"} => free
BY RousedFacts DEF UpInv

(* No source ends while the run is held, unless it plays in reverse.       *)
LEMMA UpNext ==
  ASSUME NoReverse, Typed, UpInv, [Next]_vars
  PROVE  UpInv'
<1>0. CASE free'
  BY <1>0 DEF UpInv
<1>1. ASSUME ~free' PROVE ~free
  BY <1>1 DEF Next, vars, AppNext, SourceNext, MidNext, SinkNext, RunEndNext, history,
     SeekLeader, SeekFollower, LetRunEnd, AppShutdown, TakeSeek, RefuseSeek, ServeSeek,
     SendFlush, PlayOn, SegmentDone, SendEos, WaitPending, WaitShutdown, WaitRegister,
     WaitAgain, MidTake, MidEnds, SinkFlush, SinkEos, SinkEnded, SinkCloses, SinkFails,
     RunEndStart, RunEndScan, MarkStreamEnded, RunEndShutdown, Finished
<1> SUFFICES ASSUME ~free', ~free PROVE UpInv'
  BY <1>0, <1>1
<1>2. /\ \A s \in Sources : ~ctl[s].shutdown /\ src[s].pc \notin {"lastEos", "done"}
                         /\ mid[s].up /\ src[s].mode # "reverse"
      /\ \A k \in Sinks : sink[k].pc # "done"
      /\ counts.held
  BY DEF UpInv, NoReverse, Typed, ControlTyped, SrcRec
<1>3. /\ \A s \in Sources : ~ctl'[s].shutdown
      /\ \A s \in Sources : src'[s].pc \notin {"lastEos", "done"}
      /\ \A s \in Sources : mid'[s].up
      /\ \A k \in Sinks : sink'[k].pc # "done"
      /\ counts'.held
  <2>1. CASE UNCHANGED vars \/ Finished
    BY <2>1, <1>2 DEF vars, Finished
  <2>2. CASE AppNext
    <3>1. ASSUME NEW kind \in Kinds, SeekLeader(kind) PROVE <1>3!:
      <4>1. \A s \in Sources : ctl'[s].shutdown = ctl[s].shutdown
        BY <3>1 DEF SeekLeader, Typed, ControlTyped, CtlRec
      <4>2. QED  BY <3>1, <4>1, <1>2, RousedFacts DEF SeekLeader, links
    <3>2. ASSUME NEW s \in Followers, SeekFollower(s) PROVE <1>3!:
      <4>1. \A t \in Sources : ctl'[t].shutdown = ctl[t].shutdown
        BY <3>2 DEF SeekFollower, Typed, ControlTyped, CtlRec
      <4>2. QED  BY <3>2, <4>1, <1>2, RousedFacts DEF SeekFollower, links
    <3>3. ~LetRunEnd /\ ~AppShutdown
      BY DEF LetRunEnd, AppShutdown
    <3>4. QED  BY <2>2, <3>1, <3>2, <3>3 DEF AppNext
  <2>3. ASSUME NEW s \in Sources, SourceNext(s) PROVE <1>3!:
    <3>1. CASE TakeSeek(s)
      <4>1. \A t \in Sources : ctl'[t].shutdown = ctl[t].shutdown
        BY <3>1 DEF TakeSeek, Typed, ControlTyped, CtlRec
      <4>2. \A t \in Sources : src'[t].pc = IF t = s THEN "accept" ELSE src[t].pc
        BY <3>1 DEF TakeSeek, Typed, ControlTyped, SrcRec
      <4>3. UNCHANGED <<counts, mid, sink>>
        BY <3>1 DEF TakeSeek, links
      <4>4. QED  BY <4>1, <4>2, <4>3, <1>2
    <3>2. CASE RefuseSeek(s)
      <4>1. \A t \in Sources : src'[t].pc = IF t = s THEN "play" ELSE src[t].pc
        BY <3>2 DEF RefuseSeek, Typed, ControlTyped, SrcRec
      <4>2. UNCHANGED <<ctl, counts, mid, sink>>
        BY <3>2 DEF RefuseSeek, links
      <4>3. QED  BY <4>1, <4>2, <1>2
    <3>3. CASE ServeSeek(s)
      <4>1. \A t \in Sources : src'[t].pc \in {"flush", "play", src[t].pc}
        BY <3>3 DEF ServeSeek, Typed, ControlTyped, SrcRec
      <4>2. counts'.held = counts.held
        BY <3>3 DEF ServeSeek, Typed, ControlTyped
      <4>3. QED  BY <3>3, <4>1, <4>2, <1>2 DEF ServeSeek, links
    <3>4. CASE SendFlush(s)
      <4>1. UNCHANGED <<ctl, counts, mid, sink>> /\ src' = [src EXCEPT ![s].pc = "play"]
        BY <3>4, <1>2 DEF SendFlush, Push, Goto
      <4>2. \A t \in Sources : src'[t].pc = IF t = s THEN "play" ELSE src[t].pc
        BY <4>1 DEF Typed, ControlTyped, SrcRec
      <4>3. QED  BY <4>1, <4>2, <1>2
    <3>5. CASE PlayOn(s)
      BY <3>5, <1>2 DEF PlayOn, Goto, Typed, ControlTyped, SrcRec, links
    <3>6. CASE SegmentDone(s)
      <4>1. counts'.held = counts.held
        BY <3>6 DEF SegmentDone, Typed, ControlTyped
      <4>2. QED  BY <3>6, <4>1, <1>2 DEF SegmentDone, Goto, Typed, ControlTyped, SrcRec, links
    <3>7. CASE SendEos(s)
      <4>1. Push(s, Eos(s), "wait")
        BY <3>7, <1>2 DEF SendEos
      <4>2. QED  BY <3>7, <4>1, <1>2 DEF SendEos, Push, Goto, Typed, ControlTyped, SrcRec
    <3>8. CASE WaitPending(s)
      BY <3>8, <1>2 DEF WaitPending, Goto, Typed, ControlTyped, SrcRec, links
    <3>9. CASE WaitShutdown(s)
      BY <3>9, <1>2 DEF WaitShutdown, Goto, Typed, ControlTyped, SrcRec, links
    <3>10. CASE WaitRegister(s)
      <4>1. \A t \in Sources : ctl'[t].shutdown = ctl[t].shutdown
        BY <3>10 DEF WaitRegister, Typed, ControlTyped, CtlRec
      <4>2. QED  BY <3>10, <4>1, <1>2 DEF WaitRegister, Goto, Typed, ControlTyped, SrcRec, links
    <3>11. CASE WaitAgain(s)
      BY <3>11, <1>2 DEF WaitAgain, Goto, Typed, ControlTyped, SrcRec, links
    <3>12. QED  BY <2>3, <3>1, <3>2, <3>3, <3>4, <3>5, <3>6, <3>7, <3>8, <3>9, <3>10,
                <3>11 DEF SourceNext
  <2>4. ASSUME NEW s \in Sources, MidNext(s) PROVE <1>3!:
    <3>1. ~MidEnds(s)
      BY <1>2 DEF MidEnds
    <3>2. MidTake(s)
      BY <2>4, <3>1 DEF MidNext
    <3>3. \A k \in SinksOf(s) : sink[k].pc # "done"
      BY <1>2 DEF SinksOf, Sinks
    <3>4. /\ {k \in SinksOf(s) : sink[k].pc # "done"} = SinksOf(s)
          /\ SinksOf(s) # {}
      <4>1. {k \in SinksOf(s) : sink[k].pc # "done"} = SinksOf(s)
        BY <3>3
      <4>2. PICK b \in Branches : TRUE
        BY SeekRunAssumption
      <4>3. <<s, b>> \in SinksOf(s)
        BY <4>2 DEF SinksOf
      <4>4. QED  BY <4>1, <4>3
    <3>5. /\ UNCHANGED <<ctl, src, sink, counts>>
          /\ \E n : mid' = [mid EXCEPT ![s] = [flushes |-> n, up |-> TRUE]]
      BY <3>2, <3>4 DEF MidTake
    <3>6. QED  BY <3>5, <1>2 DEF Typed, ArmsTyped
  <2>5. ASSUME NEW k \in Sinks, SinkNext(k) \/ SinkFails(k) PROVE <1>3!:
    <3>1. ~SinkCloses(k) /\ ~SinkFails(k)
      BY <1>2 DEF SinkCloses, SinkFails, Sinks
    <3>2. SinkFlush(k) \/ SinkEos(k) \/ SinkEnded(k)
      BY <2>5, <3>1 DEF SinkNext
    <3>3. \A j \in Sinks : sink'[j].pc \in {"recv", "ending", sink[j].pc}
      <4>1. CASE SinkFlush(k)
        BY <4>1 DEF SinkFlush, Typed, ArmsTyped, SinkRec
      <4>2. CASE SinkEos(k)
        BY <4>2 DEF SinkEos, Typed, ArmsTyped, SinkRec
      <4>3. CASE SinkEnded(k)
        BY <4>3 DEF SinkEnded, Typed, ArmsTyped, SinkRec
      <4>4. QED  BY <3>2, <4>1, <4>2, <4>3
    <3>4. QED  BY <3>2, <3>3, <1>2 DEF SinkFlush, SinkEos, SinkEnded
  <2>6. CASE RunEndNext
    <3>1. counts'.held = counts.held
      BY <2>6 DEF RunEndNext, RunEndStart, RunEndScan, MarkStreamEnded, RunEndShutdown,
         Typed, ControlTyped
    <3>2. UNCHANGED <<ctl, src, mid, sink>>
      BY <2>6, <1>2 DEF RunEndNext, RunEndStart, RunEndScan, MarkStreamEnded,
         RunEndShutdown, links
    <3>3. QED  BY <3>1, <3>2, <1>2
  <2>7. QED  BY <2>1, <2>2, <2>3, <2>4, <2>5, <2>6 DEF Next
<1>4. QED  BY <1>3 DEF UpInv

(* The types and UpInv hold in every state.                                *)
THEOREM HoldInductive == ASSUME NoReverse PROVE Spec => [](Typed /\ UpInv)
<1>1. Init => UpInv
  <2> SUFFICES ASSUME Init PROVE UpInv
    OBVIOUS
  <2>1. PICK h \in Holds :
          /\ counts = [taken |-> 0, ended |-> -1, held |-> h, segments |-> 0]
          /\ free = ~h
    BY DEF Init
  <2> h \in BOOLEAN
    BY SeekRunAssumption
  <2>2. ~counts.held => free
    BY <2>1
  <2>3. QED  BY <2>2 DEF Init, UpInv
<1>2. Typed /\ UpInv /\ [Next]_vars => (Typed /\ UpInv)'
  BY TypedNext, UpNext
<1>3. QED  BY <1>1, <1>2, TypedInit, PTL DEF Spec

(* A run that the application holds open stays up, with any number of      *)
(* sources and sinks and whatever is sought, as long as no source plays in *)
(* reverse: no source returns before let_run_end, a shutdown by the        *)
(* application or an arm's failure.                                        *)
THEOREM HeldUp == ASSUME NoReverse PROVE Spec => []HeldRunStaysUp
<1>1. Typed /\ UpInv => HeldRunStaysUp
  BY DEF UpInv, HeldRunStaysUp
<1>2. QED  BY <1>1, HoldInductive, PTL

-----------------------------------------------------------------------------
(* Counting Flushes.  A packet's nth counts the Flushes its source had     *)
(* sent; the arms count those they have taken.  Along a link the numbers   *)
(* go up by one with each Flush, from the count of the arm that reads it   *)
(* to the count of whoever writes it.                                      *)
Counted(p) == IF p.is = "Flush" THEN 1 ELSE 0
Numbered(q, n) ==
    \A i \in 1..Len(q) :
        q[i].nth = (IF i = 1 THEN n ELSE q[i - 1].nth) + Counted(q[i])
Upto(q, n) == IF q = << >> THEN n ELSE q[Len(q)].nth
AtMost(q, n) == \A i \in 1..Len(q) : q[i].nth <= n

FeedNumbered(s) ==
    /\ Numbered(feed[s], mid[s].flushes)
    /\ Upto(feed[s], mid[s].flushes) = sent[s]
    /\ AtMost(feed[s], sent[s])
    /\ mid[s].flushes <= sent[s]

(* An arm that ended on a packet has counted it and not passed it on, and  *)
(* a tee that may drop branches passes nothing on to one that is done.     *)
LinkNumbered(k) ==
    /\ Numbered(link[k], sink[k].flushes)
    /\ mid[k[1]].up /\ sink[k].pc # "done" =>
          Upto(link[k], sink[k].flushes) = mid[k[1]].flushes
    /\ AtMost(link[k], mid[k[1]].flushes)
    /\ sink[k].flushes <= mid[k[1]].flushes

NumberInv ==
    /\ \A s \in Sources : FeedNumbered(s)
    /\ \A k \in Sinks : LinkNumbered(k)

(* The leader has sent a Flush for every flushing seek it has counted, but *)
(* for the one it is about to send or found its arm gone for.              *)
SentInv ==
    /\ sent[Leader] <= counts.taken
    /\ src[Leader].pc = "flush" => counts.taken = sent[Leader] + 1
    /\ src[Leader].pc \notin {"flush", "done"} => counts.taken = sent[Leader]

(* A sink that is at an Eos has taken no Flush since; what the future has  *)
(* seen of the sinks, and what it marked, stands until the next flushing   *)
(* seek is counted.                                                        *)
AtEnd(k) == sink[k].atEos /\ sink[k].flushes = counts.taken
EndInv ==
    /\ counts.ended <= counts.taken /\ runEnd.n <= counts.taken
    /\ \A k \in Sinks : sink[k].atEos \/ sink[k].pc = "ending" =>
                           lastEos[k] = sink[k].flushes
    /\ runEnd.pc \in {"pending", "held"} => runEnd.scan = {}
    /\ runEnd.pc \in {"scan", "pending", "held"} /\ runEnd.n = counts.taken =>
          \A k \in Sinks \ runEnd.scan : AtEnd(k)
    /\ counts.ended = counts.taken => \A k \in Sinks : AtEnd(k)

(* Taking the head of a numbered link counts it if it is a Flush, and what *)
(* remains is numbered from there.                                         *)
LEMMA TailNumbered ==
  ASSUME NEW q \in Seq(Packet), NEW n \in Nat, NEW m \in Nat, q # << >>, Numbered(q, n)
  PROVE  /\ Head(q).nth = n + Counted(Head(q))
         /\ Numbered(Tail(q), Head(q).nth)
         /\ Upto(Tail(q), Head(q).nth) = Upto(q, n)
         /\ AtMost(q, m) => Head(q).nth <= m /\ AtMost(Tail(q), m)
<1>1. /\ Len(q) \in Nat \ {0} /\ Head(q) = q[1] /\ 1 \in 1..Len(q)
      /\ Len(Tail(q)) = Len(q) - 1
      /\ \A i \in 1..Len(Tail(q)) : Tail(q)[i] = q[i + 1] /\ i + 1 \in 1..Len(q)
  OBVIOUS
<1>2. Head(q).nth = n + Counted(Head(q))
  BY <1>1 DEF Numbered
<1>3. Numbered(Tail(q), Head(q).nth)
  <2> SUFFICES ASSUME NEW i \in 1..Len(Tail(q))
               PROVE  Tail(q)[i].nth = (IF i = 1 THEN Head(q).nth ELSE Tail(q)[i - 1].nth)
                                          + Counted(Tail(q)[i])
    BY DEF Numbered
  <2>1. Tail(q)[i] = q[i + 1] /\ i + 1 \in 1..Len(q) /\ i + 1 # 1 /\ (i + 1) - 1 = i
    BY <1>1
  <2>2. q[i + 1].nth = q[i].nth + Counted(q[i + 1])
    BY <2>1 DEF Numbered
  <2>3. q[i] = IF i = 1 THEN Head(q) ELSE Tail(q)[i - 1]
    <3>1. CASE i = 1  BY <3>1, <1>1
    <3>2. CASE i # 1
      <4>1. i - 1 \in 1..Len(Tail(q)) /\ (i - 1) + 1 = i  BY <3>2
      <4>2. Tail(q)[i - 1] = q[(i - 1) + 1]  BY <1>1, <4>1
      <4>3. QED  BY <3>2, <4>1, <4>2
    <3>3. QED  BY <3>1, <3>2
  <2>4. QED  BY <2>1, <2>2, <2>3
<1>4. Upto(Tail(q), Head(q).nth) = Upto(q, n)
  <2>1. CASE Tail(q) = << >>
    <3>0. Len(<< >>) = 0  OBVIOUS
    <3>1. Len(Tail(q)) = 0  BY <2>1, <3>0, Zenon
    <3>2. Len(q) - 1 = 0  BY <1>1, <3>1, Zenon
    <3>3. Len(q) \in Nat  OBVIOUS
    <3> Len(q) = 1  BY <3>2, <3>3
    <3>4. QED  BY <2>1, <1>1 DEF Upto
  <2>2. CASE Tail(q) # << >>
    <3>1. Len(Tail(q)) \in 1..Len(Tail(q)) /\ Len(Tail(q)) + 1 = Len(q)
      BY <2>2, <1>1
    <3>2. Tail(q)[Len(Tail(q))] = q[Len(q)]
      BY <3>1, <1>1
    <3>3. QED  BY <2>2, <3>2 DEF Upto
  <2>3. QED  BY <2>1, <2>2
<1>5. AtMost(q, m) => Head(q).nth <= m /\ AtMost(Tail(q), m)
  BY <1>1 DEF AtMost
<1>6. QED  BY <1>2, <1>3, <1>4, <1>5

(* A link stays numbered when a packet with the next number goes in.       *)
LEMMA AppendNumbered ==
  ASSUME NEW q \in Seq(Packet), NEW n \in Nat, NEW m \in Nat, NEW p \in Packet,
         Numbered(q, n), p.nth = Upto(q, n) + Counted(p)
  PROVE  /\ Numbered(Append(q, p), n)
         /\ Upto(Append(q, p), n) = p.nth
         /\ AtMost(q, m) /\ p.nth <= m => AtMost(Append(q, p), m)
<1> DEFINE a == Append(q, p)
<1>1. /\ Len(q) \in Nat /\ Len(a) = Len(q) + 1 /\ a[Len(a)] = p
      /\ \A i \in 1..Len(q) : a[i] = q[i]
      /\ \A i \in 1..Len(a) : i # Len(a) => i \in 1..Len(q)
  OBVIOUS
<1>2. a # << >>
  BY <1>1
<1> HIDE DEF a
<1>3. Numbered(a, n)
  <2> SUFFICES ASSUME NEW i \in 1..Len(a)
               PROVE  a[i].nth = (IF i = 1 THEN n ELSE a[i - 1].nth) + Counted(a[i])
    BY DEF Numbered
  <2>1. CASE i # Len(a)
    <3>1. i \in 1..Len(q) /\ a[i] = q[i]
      BY <2>1, <1>1
    <3>2. i # 1 => a[i - 1] = q[i - 1]
      BY <3>1, <1>1
    <3>3. QED  BY <3>1, <3>2 DEF Numbered
  <2>2. CASE i = Len(a)
    <3>1. CASE q = << >>
      BY <3>1, <2>2, <1>1 DEF Upto
    <3>2. CASE q # << >>
      <4>1. i # 1 /\ i - 1 = Len(q) /\ Len(q) \in 1..Len(q)
        BY <3>2, <2>2, <1>1
      <4>2. a[i - 1] = q[Len(q)]
        BY <4>1, <1>1
      <4>3. QED  BY <4>1, <4>2, <3>2, <2>2, <1>1 DEF Upto
    <3>3. QED  BY <3>1, <3>2
  <2>3. QED  BY <2>1, <2>2
<1>4. Upto(a, n) = p.nth
  BY <1>1, <1>2 DEF Upto
<1>5. AtMost(q, m) /\ p.nth <= m => AtMost(a, m)
  <2> SUFFICES ASSUME AtMost(q, m), p.nth <= m, NEW i \in 1..Len(a) PROVE a[i].nth <= m
    BY DEF AtMost
  <2>1. CASE i = Len(a)  BY <2>1, <1>1
  <2>2. CASE i # Len(a)  BY <2>2, <1>1 DEF AtMost
  <2>3. QED  BY <2>1, <2>2
<1>6. QED  BY <1>3, <1>4, <1>5 DEF a

(* A step that takes nothing from a link, puts nothing into one and counts *)
(* nothing keeps the numbers; an arm may end in it.                        *)
Quiet ==
    /\ UNCHANGED <<feed, link, sent>>
    /\ \A s \in Sources : mid'[s].flushes = mid[s].flushes /\ (mid'[s].up => mid[s].up)
    /\ \A k \in Sinks : /\ sink'[k].flushes = sink[k].flushes
                        /\ sink[k].pc = "done" => sink'[k].pc = "done"

(* Quiet steps keep the flushes and the ends numbered.                     *)
LEMMA QuietNumbers ==
  ASSUME NumberInv, Quiet
  PROVE  NumberInv'
<1>1. \A k \in Sinks : k[1] \in Sources
  BY DEF Sinks
<1>2. ASSUME NEW s \in Sources PROVE FeedNumbered(s)'
  BY DEF NumberInv, Quiet, FeedNumbered
<1>3. ASSUME NEW k \in Sinks PROVE LinkNumbered(k)'
  BY <1>1 DEF NumberInv, Quiet, LinkNumbered
<1>4. QED  BY <1>2, <1>3 DEF NumberInv

(* A push into the arm below puts the source's next number into the feed.  *)
LEMMA PushNumbers ==
  ASSUME Typed, NumberInv, NEW s \in Sources, NEW p \in Packet, NEW next \in SrcStates,
         Push(s, p, next), p.nth = sent[s] + Counted(p),
         sent' = [sent EXCEPT ![s] = IF mid[s].up THEN p.nth ELSE sent[s]],
         UNCHANGED <<mid, link, sink>>
  PROVE  NumberInv'
<1>1. feed' = IF mid[s].up
              THEN [feed EXCEPT ![s] = Append(feed[s], p)] ELSE feed
  BY PushFacts
<1>2. ASSUME NEW t \in Sources PROVE FeedNumbered(t)'
  <2>1. CASE t = s /\ mid[s].up
    <3>1. feed[s] \in Seq(Packet) /\ mid[s].flushes \in Nat /\ sent[s] \in Nat
      BY DEF Typed, ArmsTyped, MidRec
    <3>2. p.nth \in Nat /\ sent[s] <= p.nth
      BY <3>1 DEF Counted, Packet
    <3>3. /\ Numbered(feed[s], mid[s].flushes) /\ Upto(feed[s], mid[s].flushes) = sent[s]
          /\ AtMost(feed[s], sent[s]) /\ mid[s].flushes <= sent[s]
      BY DEF NumberInv, FeedNumbered
    <3>4. AtMost(feed[s], p.nth)
      <4> SUFFICES ASSUME NEW i \in 1..Len(feed[s]) PROVE feed[s][i].nth <= p.nth
        BY DEF AtMost
      <4>1. feed[s][i].nth <= sent[s] /\ feed[s][i].nth \in Nat
        <5>1. feed[s][i] \in Packet
          BY <3>1
        <5>2. QED  BY <3>3, <5>1 DEF AtMost, Packet
      <4>2. QED  BY <4>1, <3>1, <3>2
    <3>5. /\ Numbered(Append(feed[s], p), mid[s].flushes)
          /\ Upto(Append(feed[s], p), mid[s].flushes) = p.nth
          /\ AtMost(Append(feed[s], p), p.nth)
      BY <3>1, <3>2, <3>3, <3>4, AppendNumbered
    <3>6. feed'[t] = Append(feed[s], p) /\ sent'[t] = p.nth /\ mid' = mid
      BY <1>1, <2>1 DEF Typed, ArmsTyped
    <3>7. mid[s].flushes <= p.nth
      BY <3>1, <3>2, <3>3
    <3>8. QED  BY <2>1, <3>5, <3>6, <3>7 DEF FeedNumbered
  <2>2. CASE ~(t = s /\ mid[s].up)
    <3>1. feed'[t] = feed[t] /\ sent'[t] = sent[t] /\ mid' = mid
      BY <1>1, <2>2 DEF Typed, ArmsTyped
    <3>2. QED  BY <3>1 DEF NumberInv, FeedNumbered
  <2>3. QED  BY <2>1, <2>2
<1>3. ASSUME NEW k \in Sinks PROVE LinkNumbered(k)'
  BY DEF NumberInv, LinkNumbered
<1>4. QED  BY <1>2, <1>3 DEF NumberInv

(* The arm below the source takes a packet, counts it and passes it on.    *)
LEMMA MidNumbers ==
  ASSUME Typed, NumberInv, NEW s \in Sources, MidTake(s)
  PROVE  NumberInv'
<1> DEFINE p == Head(feed[s])
           forwarded == ~(p.is = "Eos" /\ Stale(mid[s].flushes))
           living == {k \in SinksOf(s) : sink[k].pc # "done"}
           ends == /\ forwarded
                   /\ IF BranchDrop THEN living = {} /\ p.is # "Eos"
                      ELSE living # SinksOf(s)
<1>1. /\ feed[s] \in Seq(Packet) /\ feed[s] # << >> /\ mid[s].flushes \in Nat
      /\ sent[s] \in Nat
  BY DEF MidTake, Typed, ArmsTyped, MidRec
<1>2. p \in Packet /\ p.nth \in Nat /\ p.is \in {"Flush", "Eos"}
  <2>1. p \in Packet
    BY <1>1
  <2>2. QED  BY <2>1 DEF Packet
<1>3. /\ p.nth = mid[s].flushes + Counted(p)
      /\ Numbered(Tail(feed[s]), p.nth)
      /\ Upto(Tail(feed[s]), p.nth) = sent[s]
      /\ p.nth <= sent[s] /\ AtMost(Tail(feed[s]), sent[s])
  BY <1>1, TailNumbered DEF NumberInv, FeedNumbered
<1>4. /\ feed' = [feed EXCEPT ![s] = Tail(feed[s])]
      /\ mid' = [mid EXCEPT ![s] = [flushes |-> p.nth, up |-> ~ends]]
      /\ link' = [k \in Sinks |-> IF forwarded /\ ~ends /\ k \in living
                                  THEN Append(link[k], p) ELSE link[k]]
      /\ sent' = sent /\ sink' = sink
  BY <1>3 DEF MidTake, Counted, history
<1>5. mid[s].up /\ mid[s].flushes <= p.nth /\ (~forwarded => p.nth = mid[s].flushes)
  BY <1>1, <1>2, <1>3 DEF MidTake, Counted
<1> HIDE DEF p, forwarded, ends
<1>6. ASSUME NEW t \in Sources PROVE FeedNumbered(t)'
  <2>1. CASE t = s
    <3>1. feed'[t] = Tail(feed[s]) /\ mid'[t].flushes = p.nth /\ sent'[t] = sent[s]
      BY <2>1, <1>4 DEF Typed, ArmsTyped
    <3>2. QED  BY <3>1, <1>3, <2>1 DEF FeedNumbered
  <2>2. CASE t # s
    <3>1. feed'[t] = feed[t] /\ mid'[t] = mid[t] /\ sent'[t] = sent[t]
      BY <2>2, <1>4 DEF Typed, ArmsTyped
    <3>2. QED  BY <3>1 DEF NumberInv, FeedNumbered
  <2>3. QED  BY <2>1, <2>2
<1>7. ASSUME NEW k \in Sinks PROVE LinkNumbered(k)'
  <2>0. /\ k[1] \in Sources
        /\ k \in living <=> k[1] = s /\ sink[k].pc # "done"
    BY DEF Sinks, SinksOf
  <2>1. /\ link[k] \in Seq(Packet) /\ sink[k].flushes \in Nat /\ mid[k[1]].flushes \in Nat
        /\ Numbered(link[k], sink[k].flushes)
        /\ mid[k[1]].up /\ sink[k].pc # "done" =>
              Upto(link[k], sink[k].flushes) = mid[k[1]].flushes
        /\ AtMost(link[k], mid[k[1]].flushes)
        /\ sink[k].flushes <= mid[k[1]].flushes
    BY <2>0 DEF NumberInv, LinkNumbered, Typed, ArmsTyped, SinkRec, MidRec
  <2>2. CASE k[1] # s
    <3>1. link'[k] = link[k] /\ mid'[k[1]] = mid[k[1]] /\ sink'[k] = sink[k]
      BY <2>0, <2>2, <1>4 DEF Typed, ArmsTyped
    <3>2. QED  BY <2>1, <3>1 DEF LinkNumbered
  <2>3. CASE k[1] = s
    <3>1. AtMost(link[k], p.nth) /\ sink[k].flushes <= p.nth
      <4>1. sink[k].flushes <= p.nth
        BY <2>1, <2>3, <1>2, <1>5
      <4>2. ASSUME NEW i \in 1..Len(link[k]) PROVE link[k][i].nth <= p.nth
        <5>1. link[k][i].nth <= mid[s].flushes /\ link[k][i].nth \in Nat
          <6>1. link[k][i] \in Packet
            BY <2>1
          <6>2. QED  BY <2>1, <2>3, <6>1 DEF AtMost, Packet
        <5>2. QED  BY <5>1, <1>1, <1>2, <1>5
      <4>3. QED  BY <4>1, <4>2 DEF AtMost
    <3>2. mid'[k[1]].flushes = p.nth /\ mid'[k[1]].up = ~ends /\ sink'[k] = sink[k]
      BY <2>3, <1>4 DEF Typed, ArmsTyped
    <3>3. CASE forwarded /\ ~ends /\ k \in living
      <4>1. link'[k] = Append(link[k], p)
        BY <2>0, <2>3, <3>3, <1>4
      <4>2. p.nth = Upto(link[k], sink[k].flushes) + Counted(p)
        BY <2>0, <2>1, <2>3, <3>3, <1>3, <1>5
      <4>3. /\ Numbered(Append(link[k], p), sink[k].flushes)
            /\ Upto(Append(link[k], p), sink[k].flushes) = p.nth
            /\ AtMost(Append(link[k], p), p.nth)
        <5>1. p.nth <= p.nth
          BY <1>2
        <5>2. QED  BY <2>1, <3>1, <4>2, <1>2, <5>1, AppendNumbered
      <4>4. QED  BY <3>1, <3>2, <4>1, <4>3 DEF LinkNumbered
    <3>4. CASE ~(forwarded /\ ~ends /\ k \in living)
      <4>1. link'[k] = link[k]
        BY <3>4, <1>4
      <4>2. ~ends /\ sink[k].pc # "done" => p.nth = mid[s].flushes
        BY <2>0, <2>3, <3>4, <1>5
      <4>3. mid'[k[1]].up /\ sink[k].pc # "done" => Upto(link[k], sink[k].flushes) = p.nth
        BY <2>1, <2>3, <3>2, <4>2, <1>5
      <4>4. QED  BY <2>1, <3>1, <3>2, <4>1, <4>3 DEF LinkNumbered
    <3>5. QED  BY <3>3, <3>4
  <2>4. QED  BY <2>2, <2>3
<1>8. QED  BY <1>6, <1>7 DEF NumberInv

(* A sink takes a packet, and counts it if it is a Flush.                  *)
LEMMA SinkNumbers ==
  ASSUME Typed, NumberInv, NEW k \in Sinks, SinkFlush(k) \/ SinkEos(k)
  PROVE  NumberInv'
<1> DEFINE p == Head(link[k])
<1>1. /\ link[k] \in Seq(Packet) /\ link[k] # << >> /\ sink[k].flushes \in Nat
      /\ k[1] \in Sources /\ mid[k[1]].flushes \in Nat
  BY DEF SinkFlush, SinkEos, Typed, ArmsTyped, SinkRec, MidRec, Sinks
<1>2. /\ p.nth = sink[k].flushes + Counted(p)
      /\ Numbered(Tail(link[k]), p.nth)
      /\ Upto(Tail(link[k]), p.nth) = Upto(link[k], sink[k].flushes)
      /\ p.nth <= mid[k[1]].flushes /\ AtMost(Tail(link[k]), mid[k[1]].flushes)
  BY <1>1, TailNumbered DEF NumberInv, LinkNumbered
<1>3. /\ link' = [link EXCEPT ![k] = Tail(link[k])]
      /\ \A j \in Sinks \ {k} : sink'[j] = sink[j]
      /\ UNCHANGED <<feed, mid, sent>>
  BY DEF SinkFlush, SinkEos, history, Typed, ArmsTyped
<1>4. sink'[k].flushes = p.nth
  <2>1. CASE SinkFlush(k)
    BY <2>1, <1>2 DEF SinkFlush, Counted, Typed, ArmsTyped
  <2>2. CASE SinkEos(k)
    <3>1. p.nth = sink[k].flushes
      BY <2>2, <1>1, <1>2 DEF SinkEos, Counted
    <3>2. QED  BY <2>2, <3>1 DEF SinkEos, Typed, ArmsTyped, SinkRec
  <2>3. QED  BY <2>1, <2>2
<1> HIDE DEF p
<1>5. ASSUME NEW t \in Sources PROVE FeedNumbered(t)'
  BY <1>3 DEF NumberInv, FeedNumbered
<1>6. ASSUME NEW j \in Sinks PROVE LinkNumbered(j)'
  <2>1. CASE j = k
    <3>1. link'[j] = Tail(link[k]) /\ sink'[j].flushes = p.nth
      BY <2>1, <1>3, <1>4 DEF Typed, ArmsTyped
    <3>2. mid[k[1]].up => Upto(link[k], sink[k].flushes) = mid[k[1]].flushes
      BY DEF NumberInv, LinkNumbered, SinkFlush, SinkEos
    <3>3. QED  BY <2>1, <3>1, <3>2, <1>2, <1>3 DEF LinkNumbered
  <2>2. CASE j # k
    <3>1. link'[j] = link[j] /\ sink'[j] = sink[j]
      BY <2>2, <1>3 DEF Typed, ArmsTyped
    <3>2. QED  BY <3>1, <1>3 DEF NumberInv, LinkNumbered
  <2>3. QED  BY <2>1, <2>2
<1>7. QED  BY <1>5, <1>6 DEF NumberInv

(* Every step keeps the numbers, for any number of sources.                *)
LEMMA NumberNext ==
  ASSUME Typed, NumberInv, [Next]_vars
  PROVE  NumberInv'
<1> USE DEF Quiet, links, history
<1>1. CASE UNCHANGED vars \/ Finished \/ AppNext \/ RunEndNext
  <2>1. Quiet
    BY <1>1 DEF vars, Finished, AppNext, RunEndNext, SeekLeader, SeekFollower, LetRunEnd,
       AppShutdown, RunEndStart, RunEndScan, MarkStreamEnded, RunEndShutdown
  <2>2. QED  BY <2>1, QuietNumbers
<1>2. ASSUME NEW s \in Sources, SourceNext(s) PROVE NumberInv'
  <2>1. CASE SendFlush(s)
    <3> DEFINE p == [is |-> "Flush", nth |-> sent[s] + 1]
    <3>1. sent[s] \in Nat
      BY DEF Typed, ArmsTyped
    <3>2. p \in Packet /\ p.nth = sent[s] + Counted(p)
      BY <3>1 DEF Packet, Counted
    <3>3. Push(s, p, "play") /\ UNCHANGED <<mid, link, sink>>
      BY <2>1 DEF SendFlush
    <3>4. sent' = [sent EXCEPT ![s] = IF mid[s].up THEN p.nth ELSE sent[s]]
      BY <2>1 DEF SendFlush
    <3> HIDE DEF p
    <3>5. QED  BY <3>2, <3>3, <3>4, PushNumbers DEF SrcStates
  <2>2. CASE SendEos(s)
    <3>1. sent[s] \in Nat /\ sent \in [Sources -> Nat]
      BY DEF Typed, ArmsTyped
    <3>2. Eos(s) \in Packet /\ Eos(s).nth = sent[s] /\ Counted(Eos(s)) = 0
      BY <3>1 DEF Packet, Counted, Eos
    <3>3. /\ Push(s, Eos(s), "wait") \/ Push(s, Eos(s), "done")
          /\ UNCHANGED <<mid, link, sink, sent>>
      BY <2>2 DEF SendEos
    <3>4. sent' = [sent EXCEPT ![s] = IF mid[s].up THEN Eos(s).nth ELSE sent[s]]
      BY <3>1, <3>2, <3>3
    <3>5. Eos(s).nth = sent[s] + Counted(Eos(s))
      BY <3>1, <3>2
    <3>6. QED  BY <3>2, <3>3, <3>4, <3>5, PushNumbers DEF SrcStates
  <2>3. CASE ~SendFlush(s) /\ ~SendEos(s)
    <3>1. Quiet
      BY <1>2, <2>3 DEF SourceNext, TakeSeek, RefuseSeek, ServeSeek, PlayOn, SegmentDone,
         WaitPending, WaitShutdown, WaitRegister, WaitAgain
    <3>2. QED  BY <3>1, QuietNumbers
  <2>4. QED  BY <2>1, <2>2, <2>3
<1>3. ASSUME NEW s \in Sources, MidNext(s) PROVE NumberInv'
  <2>1. CASE MidEnds(s)
    <3>1. Quiet
      BY <2>1 DEF MidEnds, Typed, ArmsTyped, MidRec
    <3>2. QED  BY <3>1, QuietNumbers
  <2>2. QED  BY <1>3, <2>1, MidNumbers DEF MidNext
<1>4. ASSUME NEW k \in Sinks, SinkNext(k) \/ SinkFails(k) PROVE NumberInv'
  <2>1. CASE SinkEnded(k)
    <3>1. \A j \in Sinks : /\ sink'[j].flushes = sink[j].flushes
                           /\ sink[j].pc = "done" => sink'[j].pc = "done"
      BY <2>1 DEF SinkEnded, Typed, ArmsTyped, SinkRec
    <3>2. Quiet
      BY <2>1, <3>1 DEF SinkEnded
    <3>3. QED  BY <3>2, QuietNumbers
  <2>2. CASE SinkCloses(k) \/ SinkFails(k)
    <3>1. \A j \in Sinks : /\ sink'[j].flushes = sink[j].flushes
                           /\ sink[j].pc = "done" => sink'[j].pc = "done"
      <4>1. sink' = [sink EXCEPT ![k].pc = "done"]
        BY <2>2 DEF SinkCloses, SinkFails
      <4>2. QED  BY <4>1 DEF Typed, ArmsTyped, SinkRec
    <3>2. Quiet
      BY <2>2, <3>1 DEF SinkCloses, SinkFails
    <3>3. QED  BY <3>2, QuietNumbers
  <2>3. QED  BY <1>4, <2>1, <2>2, SinkNumbers DEF SinkNext
<1>5. QED  BY <1>1, <1>2, <1>3, <1>4 DEF Next

(* Every step keeps what the leader has counted and sent in step.          *)
LEMMA SentNext ==
  ASSUME Typed, SentInv, [Next]_vars
  PROVE  SentInv'
<1> USE DEF links, history
<1>0. Leader \in Sources /\ counts.taken \in Nat /\ sent[Leader] \in Nat
  BY DEF Sources, Typed, ControlTyped, ArmsTyped
<1>1. ASSUME counts'.taken = counts.taken, sent'[Leader] = sent[Leader],
             \/ src'[Leader].pc = src[Leader].pc
             \/ src[Leader].pc # "flush" /\ src'[Leader].pc # "flush"
                /\ src[Leader].pc # "done"
             \/ src'[Leader].pc = "done"
      PROVE  SentInv'
  BY <1>1 DEF SentInv
<1>2. CASE UNCHANGED vars \/ Finished
  BY <1>2, <1>1 DEF vars, Finished
<1>3. CASE AppNext
  <2>1. counts'.taken = counts.taken
    BY <1>3 DEF AppNext, SeekLeader, SeekFollower, LetRunEnd, AppShutdown, Typed, ControlTyped
  <2>2. sent' = sent /\ (src' = src \/ \E W : src' = Roused(W))
    BY <1>3 DEF AppNext, SeekLeader, SeekFollower, LetRunEnd, AppShutdown
  <2>3. QED  BY <2>1, <2>2, <1>0, <1>1, RousedFacts
<1>4. ASSUME NEW s \in Sources, SourceNext(s) PROVE SentInv'
  <2>1. CASE s = Leader /\ ServeSeek(s)
    <3>1. counts.taken = sent[Leader]
      BY <2>1 DEF ServeSeek, SentInv
    <3>2. src'[Leader].pc = IF Flushing(s) THEN "flush" ELSE "play"
      BY <2>1, <1>0 DEF ServeSeek, Typed, ControlTyped, SrcRec
    <3>3. counts'.taken = IF Flushing(s) THEN counts.taken + 1 ELSE counts.taken
      BY <2>1 DEF ServeSeek, Typed, ControlTyped
    <3>4. QED  BY <2>1, <3>1, <3>2, <3>3, <1>0 DEF ServeSeek, SentInv
  <2>2. CASE s = Leader /\ SendFlush(s)
    <3>1. counts.taken = sent[Leader] + 1
      BY <2>2 DEF SendFlush, SentInv
    <3>2. [is |-> "Flush", nth |-> sent[s] + 1] \in Packet
      BY <2>2, <1>0 DEF Packet
    <3>3. src'[Leader].pc = IF mid[s].up THEN "play" ELSE "done"
      BY <2>2, <3>2, PushFacts DEF SendFlush, SrcStates
    <3>4. sent'[Leader] = IF mid[s].up THEN sent[Leader] + 1 ELSE sent[Leader]
      BY <2>2, <1>0 DEF SendFlush, Typed, ArmsTyped
    <3>5. counts' = counts
      BY <2>2 DEF SendFlush
    <3>6. QED  BY <3>1, <3>3, <3>4, <3>5, <1>0 DEF SentInv
  <2>3. CASE s # Leader /\ (ServeSeek(s) \/ SendFlush(s))
    <3>1. counts' = counts
      BY <2>3 DEF ServeSeek, SendFlush
    <3>2. sent'[Leader] = sent[Leader]
      BY <2>3, <1>0 DEF ServeSeek, SendFlush, Typed, ArmsTyped
    <3>3. \/ src'[Leader].pc = src[Leader].pc
          \/ src[Leader].pc = "parked" /\ src'[Leader].pc = "wait"
      <4>1. CASE ServeSeek(s)
        BY <2>3, <4>1, <1>0 DEF ServeSeek, Typed, ControlTyped
      <4>2. CASE SendFlush(s)
        <5>1. [is |-> "Flush", nth |-> sent[s] + 1] \in Packet
          BY DEF Packet, Typed, ArmsTyped
        <5>2. QED  BY <2>3, <4>2, <5>1, <1>0, PushFacts DEF SendFlush, SrcStates
      <4>3. QED  BY <2>3, <4>1, <4>2
    <3>4. QED  BY <3>1, <3>2, <3>3, <1>1
  <2>4. CASE SendEos(s)
    <3>1. Eos(s) \in Packet
      BY DEF Eos, Packet, Typed, ArmsTyped
    <3>2. /\ Push(s, Eos(s), "wait") \/ Push(s, Eos(s), "done")
          /\ src[s].pc \in {"end", "lastEos"} /\ counts' = counts /\ sent' = sent
      BY <2>4 DEF SendEos
    <3>3. /\ src'[s].pc \in {"wait", "done"}
          /\ \A t \in Sources \ {s} : \/ src'[t].pc = src[t].pc
                                      \/ src[t].pc = "parked" /\ src'[t].pc = "wait"
      BY <3>1, <3>2, PushFacts DEF SrcStates
    <3>4. QED  BY <3>2, <3>3, <1>0, <1>1
  <2>5. CASE /\ ~ServeSeek(s) /\ ~SendFlush(s) /\ ~SendEos(s)
    <3>1. counts'.taken = counts.taken /\ sent' = sent
      BY <1>4, <2>5 DEF SourceNext, TakeSeek, RefuseSeek, PlayOn, SegmentDone, WaitPending,
         WaitShutdown, WaitRegister, WaitAgain, Typed, ControlTyped
    <3>2. \A t \in Sources \ {s} : src'[t] = src[t]
      BY <1>4, <2>5 DEF SourceNext, TakeSeek, RefuseSeek, PlayOn, SegmentDone, WaitPending,
         WaitShutdown, WaitRegister, WaitAgain, Goto, Typed, ControlTyped
    <3>3. src[s].pc \notin {"flush", "done"}
      BY <1>4, <2>5 DEF SourceNext, TakeSeek, RefuseSeek, PlayOn, SegmentDone, WaitPending,
         WaitShutdown, WaitRegister, WaitAgain
    <3>4. src'[s].pc # "flush"
      <4>1. CASE TakeSeek(s)  BY <4>1 DEF TakeSeek, Typed, ControlTyped, SrcRec
      <4>2. CASE RefuseSeek(s)  BY <4>2 DEF RefuseSeek, Typed, ControlTyped, SrcRec
      <4>3. CASE ~TakeSeek(s) /\ ~RefuseSeek(s)
        <5>1. \E next \in SrcStates \ {"flush"} : Goto(s, next)
          BY <1>4, <2>5, <4>3 DEF SourceNext, PlayOn, SegmentDone, WaitPending,
             WaitShutdown, WaitRegister, WaitAgain, SrcStates
        <5>2. QED  BY <5>1, GotoFacts
      <4>4. QED  BY <4>1, <4>2, <4>3
    <3>5. QED  BY <3>1, <3>2, <3>3, <3>4, <1>0, <1>1
  <2>6. QED  BY <2>1, <2>2, <2>3, <2>4, <2>5
<1>5. CASE \/ \E s \in Sources : MidNext(s)
           \/ \E k \in Sinks : SinkNext(k) \/ SinkFails(k)
           \/ RunEndNext
  <2>1. counts'.taken = counts.taken /\ sent' = sent
    BY <1>5 DEF MidNext, SinkNext, RunEndNext, MidTake, MidEnds, SinkFlush, SinkEos,
       SinkEnded, SinkCloses, SinkFails, RunEndStart, RunEndScan, MarkStreamEnded,
       RunEndShutdown, Typed, ControlTyped
  <2>2. src' = src \/ src' = Roused(Sources)
    BY <1>5 DEF MidNext, SinkNext, RunEndNext, MidTake, MidEnds, SinkFlush, SinkEos,
       SinkEnded, SinkCloses, SinkFails, RunEndStart, RunEndScan, MarkStreamEnded,
       RunEndShutdown
  <2>3. QED  BY <2>1, <2>2, <1>0, <1>1, RousedFacts
<1>6. QED  BY <1>2, <1>3, <1>4, <1>5 DEF Next

(* With the leader alone, no sink has taken more Flushes than seeks were   *)
(* counted, and one with a Flush in its link has taken fewer.              *)
LEMMA FlushesTaken ==
  ASSUME LeaderAlone, Typed, NumberInv, SentInv, NEW k \in Sinks
  PROVE  /\ sink[k].flushes \in Nat /\ counts.taken \in Nat
         /\ sink[k].flushes <= counts.taken
         /\ link[k] # << >> => Head(link[k]).nth = sink[k].flushes + Counted(Head(link[k]))
         /\ link[k] # << >> /\ Head(link[k]).is = "Flush" => sink[k].flushes < counts.taken
<1>1. k[1] = Leader /\ Leader \in Sources
  BY DEF LeaderAlone, Sinks, Sources
<1>2. /\ sink[k].flushes \in Nat /\ mid[Leader].flushes \in Nat /\ sent[Leader] \in Nat
      /\ counts.taken \in Nat /\ link[k] \in Seq(Packet)
  BY <1>1 DEF Typed, ControlTyped, ArmsTyped, SinkRec, MidRec
<1>3. /\ sink[k].flushes <= mid[Leader].flushes /\ mid[Leader].flushes <= sent[Leader]
      /\ sent[Leader] <= counts.taken
      /\ Numbered(link[k], sink[k].flushes) /\ AtMost(link[k], mid[Leader].flushes)
  BY <1>1 DEF NumberInv, FeedNumbered, LinkNumbered, SentInv
<1>4. ASSUME link[k] # << >>
      PROVE  /\ Head(link[k]).nth = sink[k].flushes + Counted(Head(link[k]))
             /\ Head(link[k]).nth <= mid[Leader].flushes
  BY <1>2, <1>3, <1>4, TailNumbered
<1>5. QED  BY <1>2, <1>3, <1>4 DEF Counted

(* A step that leaves the counts, the sinks and the future alone.          *)
LEMMA EndKept ==
  ASSUME EndInv, counts'.taken = counts.taken, counts'.ended = counts.ended,
         UNCHANGED <<runEnd, sink, lastEos>>
  PROVE  EndInv'
BY DEF EndInv, AtEnd

(* Every step keeps what the sinks have reported and the future has seen.  *)
LEMMA EndNext ==
  ASSUME LeaderAlone, Typed, NumberInv, SentInv, EndInv, [Next]_vars
  PROVE  EndInv'
<1> USE DEF links, history
<1>0. /\ counts.taken \in Nat /\ counts.ended \in Int /\ runEnd.n \in Nat
      /\ runEnd.pc \in RunEndStates
  BY DEF Typed, ControlTyped
<1>1. CASE UNCHANGED vars \/ Finished
  BY <1>1, EndKept DEF vars, Finished
<1>2. CASE AppNext
  <2>1. CASE LetRunEnd
    <3>1. counts'.taken = counts.taken /\ counts'.ended = counts.ended
      BY <2>1 DEF LetRunEnd, Typed, ControlTyped
    <3>2. /\ runEnd'.n = runEnd.n /\ runEnd'.scan = runEnd.scan
          /\ \/ runEnd'.pc = runEnd.pc
             \/ runEnd'.pc = "woken"
          /\ UNCHANGED <<sink, lastEos>>
      BY <2>1 DEF LetRunEnd, WokenRunEnd, Typed, ControlTyped
    <3>3. QED  BY <3>1, <3>2 DEF EndInv, AtEnd
  <2>2. CASE ~LetRunEnd
    <3>1. UNCHANGED <<counts, runEnd, sink, lastEos>>
      BY <1>2, <2>2 DEF AppNext, SeekLeader, SeekFollower, AppShutdown
    <3>2. QED  BY <3>1, EndKept
  <2>3. QED  BY <2>1, <2>2
<1>3. ASSUME NEW s \in Sources, SourceNext(s) PROVE EndInv'
  <2>1. UNCHANGED <<runEnd, sink, lastEos>>
    BY <1>3 DEF SourceNext, TakeSeek, RefuseSeek, ServeSeek, SendFlush, PlayOn, SegmentDone,
       SendEos, WaitPending, WaitShutdown, WaitRegister, WaitAgain
  <2>2. CASE ServeSeek(s)
    <3>1. /\ counts'.ended = counts.ended
          /\ counts'.taken \in {counts.taken, counts.taken + 1}
      BY <2>2 DEF ServeSeek, Typed, ControlTyped
    <3>2. CASE counts'.taken = counts.taken
      BY <2>1, <3>1, <3>2, EndKept
    <3>3. CASE counts'.taken = counts.taken + 1
      BY <2>1, <3>1, <3>3, <1>0 DEF EndInv
    <3>4. QED  BY <3>1, <3>2, <3>3
  <2>3. CASE ~ServeSeek(s)
    <3>1. counts'.ended = counts.ended /\ counts'.taken = counts.taken
      BY <1>3, <2>3 DEF SourceNext, TakeSeek, RefuseSeek, SendFlush, PlayOn, SegmentDone,
         SendEos, WaitPending, WaitShutdown, WaitRegister, WaitAgain, Typed, ControlTyped
    <3>2. QED  BY <2>1, <3>1, EndKept
  <2>4. QED  BY <2>2, <2>3
<1>4. ASSUME NEW s \in Sources, MidNext(s) PROVE EndInv'
  <2>1. UNCHANGED <<counts, runEnd, sink, lastEos>>
    BY <1>4 DEF MidNext, MidTake, MidEnds
  <2>2. QED  BY <2>1, EndKept
<1>5. ASSUME NEW k \in Sinks, SinkFlush(k) PROVE EndInv'
  <2>1. sink[k].flushes \in Nat /\ sink[k].flushes < counts.taken
    BY <1>5, FlushesTaken DEF SinkFlush
  <2>2. ~AtEnd(k)
    BY <2>1, <1>0 DEF AtEnd
  <2>3. /\ \A j \in Sinks \ {k} : sink'[j] = sink[j]
        /\ sink'[k].pc = "recv" /\ sink'[k].atEos = FALSE
        /\ UNCHANGED <<counts, runEnd, lastEos>>
    BY <1>5 DEF SinkFlush, Typed, ArmsTyped
  <2>4. counts.ended # counts.taken
    BY <2>2 DEF EndInv
  <2>5. runEnd.pc \in {"scan", "pending", "held"} /\ runEnd.n = counts.taken =>
          k \in runEnd.scan
    BY <2>2 DEF EndInv
  <2>6. QED  BY <2>3, <2>4, <2>5 DEF EndInv, AtEnd
<1>6. ASSUME NEW k \in Sinks, SinkEos(k) PROVE EndInv'
  <2>1. Head(link[k]).nth = sink[k].flushes
    BY <1>6, FlushesTaken DEF SinkEos, Counted
  <2>2. /\ \A j \in Sinks \ {k} : sink'[j] = sink[j] /\ lastEos'[j] = lastEos[j]
        /\ sink'[k].flushes = sink[k].flushes /\ sink'[k].atEos = sink[k].atEos
        /\ \/ sink'[k] = sink[k] /\ lastEos'[k] = lastEos[k]
           \/ lastEos'[k] = sink[k].flushes
        /\ UNCHANGED <<counts, runEnd>>
    BY <1>6, <2>1 DEF SinkEos, Typed, ArmsTyped, SinkRec
  <2>3. \A j \in Sinks : AtEnd(j)' <=> AtEnd(j)
    BY <2>2 DEF AtEnd
  <2>4. \A j \in Sinks : sink'[j].atEos \/ sink'[j].pc = "ending" =>
                            lastEos'[j] = sink'[j].flushes
    BY <2>2 DEF EndInv
  <2>5. QED  BY <2>2, <2>3, <2>4 DEF EndInv
<1>7. ASSUME NEW k \in Sinks, SinkEnded(k) PROVE EndInv'
  <2>1. /\ \A j \in Sinks \ {k} : sink'[j] = sink[j]
        /\ sink'[k].flushes = sink[k].flushes /\ sink'[k].atEos = TRUE
        /\ sink[k].pc = "ending"
        /\ UNCHANGED <<counts, lastEos>>
    BY <1>7 DEF SinkEnded, Typed, ArmsTyped, SinkRec
  <2>2. /\ runEnd'.n = runEnd.n /\ runEnd'.scan = runEnd.scan
        /\ \/ runEnd'.pc = runEnd.pc
           \/ runEnd'.pc = "woken"
    BY <1>7 DEF SinkEnded, WokenRunEnd, Typed, ControlTyped
  <2>3. \A j \in Sinks : AtEnd(j) => AtEnd(j)'
    BY <2>1 DEF AtEnd
  <2>4. \A j \in Sinks : sink'[j].atEos \/ sink'[j].pc = "ending" =>
                            lastEos'[j] = sink'[j].flushes
    BY <2>1 DEF EndInv
  <2>5. QED  BY <2>1, <2>2, <2>3, <2>4 DEF EndInv
<1>8. ASSUME NEW k \in Sinks, SinkCloses(k) \/ SinkFails(k) PROVE EndInv'
  <2>1. sink' = [sink EXCEPT ![k].pc = "done"] /\ UNCHANGED <<counts, lastEos, runEnd>>
    BY <1>8 DEF SinkCloses, SinkFails
  <2>2. \A j \in Sinks : /\ sink'[j].flushes = sink[j].flushes
                         /\ sink'[j].atEos = sink[j].atEos
                         /\ sink'[j].pc = "ending" => sink[j].pc = "ending"
    BY <2>1 DEF Typed, ArmsTyped, SinkRec
  <2>3. QED  BY <2>1, <2>2 DEF EndInv, AtEnd
<1>9. CASE RunEndStart
  <2>1. /\ runEnd'.pc = "scan" /\ runEnd'.n = counts.taken /\ runEnd'.scan = Sinks
        /\ UNCHANGED <<counts, sink, lastEos>>
    BY <1>9 DEF RunEndStart
  <2>2. QED  BY <2>1, <1>0 DEF EndInv, AtEnd
<1>10. CASE RunEndScan
  <2>1. PICK k \in runEnd.scan :
          runEnd' = IF SinkHasEnded(k, runEnd.n)
                    THEN [runEnd EXCEPT !.scan = @ \ {k},
                             !.pc = IF runEnd.scan = {k} THEN "pending" ELSE @]
                    ELSE [runEnd EXCEPT !.scan = {}, !.pc = Asleep]
    BY <1>10 DEF RunEndScan
  <2>2. k \in Sinks /\ runEnd.pc = "scan" /\ UNCHANGED <<counts, sink, lastEos>>
    BY <1>10 DEF RunEndScan, Typed, ControlTyped
  <2>3. CASE SinkHasEnded(k, runEnd.n)
    <3>1. /\ runEnd'.scan = runEnd.scan \ {k} /\ runEnd'.n = runEnd.n
          /\ runEnd'.pc \in {"scan", "pending"}
          /\ runEnd'.pc = "pending" => runEnd.scan = {k}
      BY <2>1, <2>2, <2>3 DEF Typed, ControlTyped
    <3>2. runEnd.n = counts.taken => AtEnd(k)
      BY <2>2, <2>3, <1>0, FlushesTaken DEF SinkHasEnded, AtEnd
    <3>3. QED  BY <2>2, <3>1, <3>2 DEF EndInv, AtEnd
  <2>4. CASE ~SinkHasEnded(k, runEnd.n)
    <3>1. runEnd'.n = runEnd.n /\ runEnd'.pc \in {"asleep", "woken"}
      BY <2>1, <2>4 DEF Asleep, Typed, ControlTyped
    <3>2. QED  BY <2>2, <3>1 DEF EndInv, AtEnd
  <2>5. QED  BY <2>3, <2>4
<1>11. CASE MarkStreamEnded
  <2>1. runEnd.pc = "pending" /\ UNCHANGED <<sink, lastEos>>
    BY <1>11 DEF MarkStreamEnded
  <2>2. CASE ctl[Leader].pending = NoSeek
    <3>1. /\ counts'.ended = runEnd.n /\ counts'.taken = counts.taken
          /\ runEnd'.pc = "held" /\ runEnd'.n = runEnd.n /\ runEnd'.scan = runEnd.scan
      BY <1>11, <2>2 DEF MarkStreamEnded, Typed, ControlTyped
    <3>2. QED  BY <2>1, <3>1 DEF EndInv, AtEnd
  <2>3. CASE ctl[Leader].pending # NoSeek
    <3>1. /\ counts' = counts /\ runEnd'.n = runEnd.n
          /\ runEnd'.pc \in {"asleep", "woken"}
      BY <1>11, <2>3 DEF MarkStreamEnded, Asleep, Typed, ControlTyped
    <3>2. QED  BY <2>1, <3>1 DEF EndInv, AtEnd
  <2>4. QED  BY <2>2, <2>3
<1>12. CASE RunEndShutdown
  <2>1. /\ UNCHANGED <<counts, sink, lastEos>> /\ runEnd'.n = runEnd.n
        /\ runEnd'.pc \in {"asleep", "woken"}
    BY <1>12 DEF RunEndShutdown, Asleep, Typed, ControlTyped
  <2>2. QED  BY <2>1 DEF EndInv, AtEnd
<1>13. QED  BY <1>1, <1>2, <1>3, <1>4, <1>5, <1>6, <1>7, <1>8, <1>9, <1>10, <1>11, <1>12
            DEF Next, SinkNext, RunEndNext

-----------------------------------------------------------------------------
(* However many sources and sinks there are: the arms count the Flushes    *)
(* their source sent, in order, and the leader sends one for every         *)
(* flushing seek it counts.                                                *)
THEOREM NumbersInductive == Spec => [](Typed /\ NumberInv /\ SentInv)
<1>1. Init => NumberInv /\ SentInv
  <2> SUFFICES ASSUME Init PROVE NumberInv /\ SentInv
    OBVIOUS
  <2>1. \A s \in Sources : feed[s] = << >> /\ mid[s].flushes = 0 /\ sent[s] = 0
    BY DEF Init
  <2>2. \A k \in Sinks : /\ link[k] = << >> /\ sink[k].flushes = 0
                         /\ mid[k[1]].flushes = 0
    BY DEF Init, Sinks
  <2>3. NumberInv
    BY <2>1, <2>2 DEF NumberInv, FeedNumbered, LinkNumbered, Numbered, Upto, AtMost
  <2>4. Leader \in Sources /\ counts.taken = 0
    BY DEF Init, Sources
  <2>5. SentInv
    BY <2>1, <2>4 DEF SentInv, Init
  <2>6. QED  BY <2>3, <2>5
<1>2. Typed /\ NumberInv /\ SentInv /\ [Next]_vars => (Typed /\ NumberInv /\ SentInv)'
  BY TypedNext, NumberNext, SentNext
<1>3. QED  BY <1>1, <1>2, TypedInit, PTL DEF Spec

(* With the leader alone, what the sinks report and the future has seen of *)
(* them is as EndInv says.                                                 *)
THEOREM EndInductive ==
  ASSUME LeaderAlone
  PROVE  Spec => [](Typed /\ NumberInv /\ SentInv /\ EndInv)
<1>1. Init => EndInv
  <2> SUFFICES ASSUME Init PROVE EndInv
    OBVIOUS
  <2>1. /\ counts.taken = 0 /\ counts.ended = -1 /\ runEnd.n = 0 /\ runEnd.pc = "woken"
        /\ \A k \in Sinks : sink[k].atEos = FALSE /\ sink[k].pc = "recv"
    BY DEF Init
  <2>2. QED  BY <2>1 DEF EndInv
<1>2. Typed /\ NumberInv /\ SentInv /\ EndInv /\ [Next]_vars => EndInv'
  BY EndNext
<1>3. QED  BY <1>1, <1>2, NumbersInductive, PTL DEF Spec

(* With the leader alone, the stream's end is marked for the latest        *)
(* flushing seek only while every sink sits at an Eos that the source sent *)
(* after that seek's Flush, whatever is sought, refused, superseded or     *)
(* failing meanwhile.                                                      *)
THEOREM EndMarkedIsReal == ASSUME LeaderAlone PROVE Spec => []StreamEndIsReal
<1>1. EndInv => StreamEndIsReal
  BY DEF EndInv, AtEnd, StreamEndIsReal
<1>2. QED  BY <1>1, EndInductive, PTL

(* With the leader alone, an Eos that an arm drops as stale precedes a     *)
(* Flush that its source has sent or is about to send.                     *)
THEOREM DroppedEosIsOld == ASSUME LeaderAlone PROVE Spec => []StaleEosIsOld
<1>1. ASSUME Typed, NumberInv, SentInv PROVE StaleEosIsOld
  <2> SUFFICES ASSUME NEW s \in Sources, feed[s] # << >>, Stale(mid[s].flushes),
                      Head(feed[s]).is = "Eos"
               PROVE  Head(feed[s]).nth < sent[s] \/ src[s].pc \in {"flush", "done"}
    BY DEF StaleEosIsOld
  <2>1. s = Leader
    BY DEF LeaderAlone, Sources
  <2>2. /\ feed[s] \in Seq(Packet) /\ mid[s].flushes \in Nat /\ sent[s] \in Nat
        /\ counts.taken \in Nat /\ Numbered(feed[s], mid[s].flushes)
    BY <1>1 DEF Typed, ControlTyped, ArmsTyped, MidRec, NumberInv, FeedNumbered
  <2>3. Head(feed[s]).nth = mid[s].flushes
    BY <2>2, TailNumbered DEF Counted
  <2>4. QED  BY <1>1, <2>1, <2>2, <2>3 DEF Stale, SentInv
<1>2. QED  BY <1>1, NumbersInductive, PTL

-----------------------------------------------------------------------------
(* The seeks bound the counters.  A seek made is still to be passed on, in *)
(* a slot, being taken, about to be flushed, or has been sent or refused;  *)
(* a segment of the leader is done at most once for each seek it served.   *)
One(b) == IF b THEN 1 ELSE 0
Held(s) == One(ctl[s].pending # NoSeek) + One(src[s].pc = "accept")
Looping == /\ src[Leader].mode = "loop"
           /\ \/ src[Leader].pc \in {"flush", "frames", "end"}
              \/ src[Leader].pc = "play" /\ ctl[Leader].pending = NoSeek

SourceBound(s) ==
    sent[s] + Held(s) + One(src[s].pc = "flush") + One(s \in app.todo) <= app.made

BoundInv ==
    /\ app.made <= MaxSeeks
    /\ \A s \in Sources : SourceBound(s)
    /\ counts.taken + Held(Leader) <= app.made
    /\ counts.segments + Held(Leader) + One(Looping) <= app.made
    /\ counts.ended <= counts.taken /\ counts.ended >= -1 /\ runEnd.n <= counts.taken
    /\ \A s \in Sources : ctl[s].pending.id <= MaxSeeks /\ src[s].seek.id <= MaxSeeks
    /\ app.seek.id <= MaxSeeks
    /\ \A k \in Sinks : lastEos[k] >= -1 /\ lastEos[k] <= app.made
    /\ faults \in 0..MaxFaults
    /\ ticket \in [Seeks -> [outcome : {"none", "Served", "Refused", "Superseded"},
                             early : BOOLEAN]]

(* What the bounds speak of are numbers.                                   *)
LEMMA BoundTypes ==
  ASSUME Typed
  PROVE  /\ app.made \in Nat /\ counts.taken \in Nat /\ counts.segments \in Nat
         /\ counts.ended \in Int /\ runEnd.n \in Nat
         /\ \A b : One(b) \in {0, 1}
         /\ \A s \in Sources : sent[s] \in Nat /\ Held(s) \in Nat
         /\ Leader \in Sources
BY DEF Typed, ControlTyped, ArmsTyped, One, Held, Sources

(* A step that makes, takes and sends no seek.                             *)
LEMMA BoundKept ==
  ASSUME Typed, BoundInv, UNCHANGED <<app, sent, ticket>>,
         counts'.taken = counts.taken, counts'.segments = counts.segments,
         counts'.ended \in {counts.ended, runEnd.n},
         runEnd'.n \in {runEnd.n, counts.taken},
         \A s \in Sources : ctl'[s].pending = ctl[s].pending /\ src'[s].seek = src[s].seek,
         \A s \in Sources : /\ src'[s].pc = "accept" => src[s].pc = "accept"
                            /\ src'[s].pc = "flush" => src[s].pc = "flush",
         Looping' => Looping,
         \A k \in Sinks : lastEos'[k] >= -1 /\ lastEos'[k] <= app.made,
         faults' \in 0..MaxFaults
  PROVE  BoundInv'
<1>1. \A s \in Sources : Held(s)' \in Nat /\ Held(s)' <= Held(s)
  BY DEF Held, One
<1>2. \A s \in Sources : One(src'[s].pc = "flush") <= One(src[s].pc = "flush")
  BY DEF One
<1>3. One(Looping') <= One(Looping)
  BY DEF One
<1>4. \A s \in Sources : SourceBound(s)'
  BY <1>1, <1>2, BoundTypes DEF BoundInv, SourceBound, One
<1>5. /\ counts'.taken + Held(Leader)' <= app'.made
      /\ counts'.segments + Held(Leader)' + One(Looping') <= app'.made
  <2>1. Leader \in Sources /\ Held(Leader)' \in Nat /\ Held(Leader)' <= Held(Leader)
    BY <1>1, BoundTypes
  <2>2. One(Looping') \in Nat /\ One(Looping) \in Nat
    BY DEF One
  <2>3. QED  BY <1>3, <2>1, <2>2, BoundTypes DEF BoundInv
<1>6. counts'.ended <= counts'.taken /\ counts'.ended >= -1 /\ runEnd'.n <= counts'.taken
  BY BoundTypes DEF BoundInv
<1>7. QED  BY <1>4, <1>5, <1>6 DEF BoundInv

(* The application makes a seek: the bound grows with what it leaves to    *)
(* do.                                                                     *)
LEMMA AppBound ==
  ASSUME Typed, BoundInv, AppNext
  PROVE  BoundInv'
<1> USE DEF links, history
<1>0. Leader \in Sources /\ Leader \notin Followers
  BY SeekRunAssumption DEF Sources
<1>1. ASSUME NEW kind \in Kinds, SeekLeader(kind) PROVE BoundInv'
  <2>1. /\ app.todo = {} /\ app'.made = app.made + 1 /\ app'.todo = Followers
        /\ app'.made <= MaxSeeks /\ app'.seek.id <= MaxSeeks
    BY <1>1, BoundTypes, SeekRunAssumption DEF SeekLeader, NoSeek
  <2>2. /\ \A s \in Sources : s # Leader => ctl'[s].pending = ctl[s].pending
        /\ ctl'[Leader].pending = [id |-> app.made + 1, kind |-> kind]
    BY <1>1, <1>0 DEF SeekLeader, Typed, ControlTyped, CtlRec
  <2>3. ctl'[Leader].pending # NoSeek /\ ctl'[Leader].pending.id = app'.made
    BY <2>1, <2>2, BoundTypes DEF NoSeek
  <2>4. \A s \in Sources : /\ src'[s].seek = src[s].seek /\ src'[s].mode = src[s].mode
                           /\ \/ src'[s].pc = src[s].pc
                              \/ src[s].pc = "parked" /\ src'[s].pc = "wait"
    BY <1>1, RousedFacts DEF SeekLeader
  <2>5. \A s \in Sources : s # Leader => Held(s)' <= Held(s) /\ Held(s)' \in Nat
    BY <2>2, <2>4 DEF Held, One
  <2>6. Held(Leader)' <= Held(Leader) + 1 /\ Held(Leader)' \in Nat
    BY <1>0, <2>4 DEF Held, One
  <2>7. Looping' => Looping
    BY <1>0, <2>3, <2>4 DEF Looping
  <2>8. UNCHANGED <<counts, runEnd, sent, lastEos, faults>>
    BY <1>1 DEF SeekLeader
  <2>9. ASSUME NEW s \in Sources PROVE SourceBound(s)'
    <3>1. One(src'[s].pc = "flush") <= One(src[s].pc = "flush")
      BY <2>4 DEF One
    <3>2. One(s \in app.todo) = 0
      BY <2>1 DEF One
    <3>3. sent[s] + Held(s) + One(src[s].pc = "flush") <= app.made
      BY <3>2, BoundTypes DEF BoundInv, SourceBound
    <3>4. CASE s = Leader
      <4>1. One(s \in app'.todo) = 0
        BY <1>0, <2>1, <3>4 DEF One
      <4>2. QED  BY <2>1, <2>6, <2>8, <3>1, <3>3, <3>4, <4>1, BoundTypes DEF SourceBound
    <3>5. CASE s # Leader
      BY <2>1, <2>5, <2>8, <3>1, <3>3, <3>5, BoundTypes DEF SourceBound
    <3>6. QED  BY <3>4, <3>5
  <2>10. /\ counts'.taken + Held(Leader)' <= app'.made
         /\ counts'.segments + Held(Leader)' + One(Looping') <= app'.made
    <3>1. One(Looping') <= One(Looping) /\ One(Looping') \in Nat /\ One(Looping) \in Nat
      BY <2>7 DEF One
    <3>2. QED  BY <2>1, <2>6, <2>8, <3>1, BoundTypes DEF BoundInv
  <2>11. \A s \in Sources : ctl'[s].pending.id <= MaxSeeks /\ src'[s].seek.id <= MaxSeeks
    BY <2>1, <2>2, <2>3, <2>4 DEF BoundInv
  <2>12. ticket' \in [Seeks -> [outcome : {"none", "Served", "Refused", "Superseded"},
                                early : BOOLEAN]]
    <3>1. PICK old : /\ old \in [Seeks -> [outcome : {"none", "Served", "Refused",
                                                       "Superseded"}, early : BOOLEAN]]
                     /\ ticket' = [old EXCEPT ![app.made + 1].early = ~free]
      BY <1>1 DEF SeekLeader, Answered, BoundInv
    <3>2. QED  BY <3>1
  <2>13. \A k \in Sinks : lastEos'[k] >= -1 /\ lastEos'[k] <= app'.made
    BY <2>1, <2>8, BoundTypes DEF BoundInv, Typed, ArmsTyped
  <2>14. QED  BY <2>1, <2>8, <2>9, <2>10, <2>11, <2>12, <2>13 DEF BoundInv
<1>2. ASSUME NEW s \in Followers, SeekFollower(s) PROVE BoundInv'
  <2>0. s \in Sources /\ s # Leader
    BY <1>0 DEF Sources
  <2>1. /\ s \in app.todo /\ app'.made = app.made /\ app'.todo = app.todo \ {s}
        /\ app'.seek.id <= MaxSeeks
    BY <1>2, SeekRunAssumption DEF SeekFollower, NoSeek, BoundInv, Typed, ControlTyped
  <2>2. /\ \A t \in Sources : t # s => ctl'[t].pending = ctl[t].pending
        /\ ctl'[s].pending = app.seek
    BY <1>2, <2>0 DEF SeekFollower, Typed, ControlTyped, CtlRec
  <2>3. \A t \in Sources : /\ src'[t].seek = src[t].seek /\ src'[t].mode = src[t].mode
                           /\ \/ src'[t].pc = src[t].pc
                              \/ src[t].pc = "parked" /\ src'[t].pc = "wait"
    BY <1>2, RousedFacts DEF SeekFollower
  <2>4. \A t \in Sources : t # s => Held(t)' <= Held(t) /\ Held(t)' \in Nat
    BY <2>2, <2>3 DEF Held, One
  <2>5. Held(s)' <= Held(s) + 1 /\ Held(s)' \in Nat
    BY <2>0, <2>3 DEF Held, One
  <2>6. Looping' => Looping
    BY <1>0, <2>0, <2>2, <2>3 DEF Looping
  <2>7. UNCHANGED <<counts, runEnd, sent, lastEos, faults, ticket>>
    BY <1>2 DEF SeekFollower
  <2>8. ASSUME NEW t \in Sources PROVE SourceBound(t)'
    <3>1. One(src'[t].pc = "flush") <= One(src[t].pc = "flush")
      BY <2>3 DEF One
    <3>2. SourceBound(t)
      BY DEF BoundInv
    <3>3. CASE t = s
      <4>1. One(t \in app.todo) = 1 /\ One(t \in app'.todo) = 0
        BY <2>1, <3>3 DEF One
      <4>2. QED  BY <2>1, <2>5, <2>7, <3>1, <3>2, <3>3, <4>1, BoundTypes DEF SourceBound
    <3>4. CASE t # s
      <4>1. One(t \in app'.todo) = One(t \in app.todo)
        BY <2>1, <3>4 DEF One
      <4>2. QED  BY <2>1, <2>4, <2>7, <3>1, <3>2, <3>4, <4>1, BoundTypes DEF SourceBound
    <3>5. QED  BY <3>3, <3>4
  <2>9. /\ counts'.taken + Held(Leader)' <= app'.made
        /\ counts'.segments + Held(Leader)' + One(Looping') <= app'.made
    <3>1. One(Looping') <= One(Looping) /\ One(Looping') \in Nat /\ One(Looping) \in Nat
      BY <2>6 DEF One
    <3>2. Held(Leader)' <= Held(Leader) /\ Held(Leader)' \in Nat
      BY <1>0, <2>0, <2>4
    <3>3. QED  BY <2>1, <2>7, <3>1, <3>2, BoundTypes DEF BoundInv
  <2>10. \A t \in Sources : ctl'[t].pending.id <= MaxSeeks /\ src'[t].seek.id <= MaxSeeks
    BY <2>2, <2>3 DEF BoundInv
  <2>11. QED  BY <2>1, <2>7, <2>8, <2>9, <2>10 DEF BoundInv
<1>3. CASE LetRunEnd
  <2>1. /\ counts'.taken = counts.taken /\ counts'.segments = counts.segments
        /\ counts'.ended = counts.ended /\ runEnd'.n = runEnd.n
    BY <1>3 DEF LetRunEnd, WokenRunEnd, Typed, ControlTyped
  <2>2. UNCHANGED <<app, sent, ticket, ctl, src, lastEos, faults>>
    BY <1>3 DEF LetRunEnd
  <2>3. Looping' => Looping
    BY <2>2 DEF Looping
  <2>4. QED  BY <2>1, <2>2, <2>3, BoundKept DEF BoundInv
<1>4. CASE AppShutdown
  <2>1. /\ \A s \in Sources : ctl'[s].pending = ctl[s].pending
        /\ src' = Roused(Sources)
        /\ UNCHANGED <<app, sent, ticket, counts, runEnd, lastEos, faults>>
    BY <1>4, ShutDownFacts DEF AppShutdown
  <2>2. Looping' => Looping
    BY <1>0, <2>1, RousedFacts DEF Looping
  <2>3. QED  BY <2>1, <2>2, BoundKept, RousedFacts DEF BoundInv
<1>5. QED  BY <1>1, <1>2, <1>3, <1>4 DEF AppNext

(* A source takes, refuses, serves or sends a seek: the bound moves it     *)
(* from one place to the next.                                             *)
LEMMA SeekBound ==
  ASSUME Typed, BoundInv, NEW s \in Sources,
         TakeSeek(s) \/ RefuseSeek(s) \/ ServeSeek(s) \/ SendFlush(s)
  PROVE  BoundInv'
<1> USE DEF links, history
<1>0. Leader \in Sources
  BY DEF Sources
<1>1. UNCHANGED <<app, lastEos, faults, runEnd>>
  BY DEF TakeSeek, RefuseSeek, ServeSeek, SendFlush
<1>2. counts'.ended = counts.ended /\ counts'.segments = counts.segments
  BY DEF TakeSeek, RefuseSeek, ServeSeek, SendFlush, Typed, ControlTyped
<1>3. /\ \A t \in Sources \ {s} :
           /\ ctl'[t].pending = ctl[t].pending /\ src'[t].seek = src[t].seek
           /\ src'[t].mode = src[t].mode /\ sent'[t] = sent[t]
           /\ \/ src'[t].pc = src[t].pc
              \/ src[t].pc = "parked" /\ src'[t].pc = "wait"
  <2>1. CASE SendFlush(s)
    <3>1. [is |-> "Flush", nth |-> sent[s] + 1] \in Packet
      BY DEF Packet, Typed, ArmsTyped
    <3>2. QED  BY <2>1, <3>1, PushFacts DEF SendFlush, SrcStates, Typed, ArmsTyped
  <2>2. CASE TakeSeek(s) \/ RefuseSeek(s) \/ ServeSeek(s)
    BY <2>2 DEF TakeSeek, RefuseSeek, ServeSeek, Typed, ControlTyped, ArmsTyped
  <2>3. QED  BY <2>1, <2>2
<1>4. ticket' \in [Seeks -> [outcome : {"none", "Served", "Refused", "Superseded"},
                             early : BOOLEAN]]
  BY DEF TakeSeek, RefuseSeek, ServeSeek, SendFlush, Answered, BoundInv
<1>5. /\ ctl'[s].pending.id <= MaxSeeks /\ src'[s].seek.id <= MaxSeeks
      /\ \/ /\ src[s].pc = "play" /\ ctl[s].pending # NoSeek
            /\ src'[s].pc = "accept" /\ ctl'[s].pending = NoSeek
            /\ sent'[s] = sent[s] /\ counts'.taken = counts.taken
         \/ /\ src[s].pc = "accept" /\ src'[s].pc = "play"
            /\ ctl'[s].pending = ctl[s].pending
            /\ sent'[s] = sent[s] /\ counts'.taken = counts.taken
         \/ /\ src[s].pc = "accept" /\ src'[s].pc = "flush"
            /\ ctl'[s].pending = ctl[s].pending
            /\ sent'[s] = sent[s]
            /\ counts'.taken = IF s = Leader THEN counts.taken + 1 ELSE counts.taken
         \/ /\ src[s].pc = "flush" /\ src'[s].pc \in {"play", "done"}
            /\ ctl'[s].pending = ctl[s].pending /\ src'[s].mode = src[s].mode
            /\ sent'[s] \in {sent[s], sent[s] + 1} /\ counts'.taken = counts.taken
  <2>0. /\ ctl[s].pending.id <= MaxSeeks /\ src[s].seek.id <= MaxSeeks
        /\ NoSeek.id <= MaxSeeks
    BY SeekRunAssumption DEF BoundInv, NoSeek
  <2>1. CASE TakeSeek(s)
    <3>1. /\ src'[s].pc = "accept" /\ src'[s].seek = ctl[s].pending
          /\ ctl'[s].pending = NoSeek
      BY <2>1 DEF TakeSeek, Typed, ControlTyped, SrcRec, CtlRec
    <3>2. QED  BY <2>0, <2>1, <3>1 DEF TakeSeek
  <2>2. CASE RefuseSeek(s)
    <3>1. src'[s].pc = "play" /\ src'[s].seek = NoSeek
      BY <2>2 DEF RefuseSeek, Typed, ControlTyped, SrcRec
    <3>2. QED  BY <2>0, <2>2, <3>1 DEF RefuseSeek
  <2>3. CASE ServeSeek(s)
    <3>1. src'[s].seek = NoSeek /\ src'[s].pc = IF Flushing(s) THEN "flush" ELSE "play"
      BY <2>3 DEF ServeSeek, Typed, ControlTyped, SrcRec
    <3>2. counts'.taken = IF s = Leader /\ Flushing(s) THEN counts.taken + 1 ELSE counts.taken
      BY <2>3 DEF ServeSeek, Typed, ControlTyped
    <3>3. QED  BY <2>0, <2>3, <3>1, <3>2 DEF ServeSeek
  <2>4. CASE SendFlush(s)
    <3>1. [is |-> "Flush", nth |-> sent[s] + 1] \in Packet
      BY DEF Packet, Typed, ArmsTyped
    <3>2. /\ src'[s].pc \in {"play", "done"} /\ src'[s].seek = src[s].seek
          /\ src'[s].mode = src[s].mode /\ ctl'[s].pending = ctl[s].pending
      BY <2>4, <3>1, PushFacts DEF SendFlush, SrcStates
    <3>3. sent'[s] \in {sent[s], sent[s] + 1}
      BY <2>4 DEF SendFlush, Typed, ArmsTyped
    <3>4. QED  BY <2>0, <2>4, <3>2, <3>3 DEF SendFlush
  <2>5. QED  BY <2>1, <2>2, <2>3, <2>4
<1>6. ASSUME NEW t \in Sources PROVE SourceBound(t)'
  <2>1. SourceBound(t)
    BY DEF BoundInv
  <2>2. CASE t = s
    <3>1. sent[s] \in Nat /\ app.made \in Nat
      BY BoundTypes
    <3>2. QED  BY <1>1, <1>5, <2>1, <2>2, <3>1 DEF SourceBound, Held, One
  <2>3. CASE t # s
    BY <1>1, <1>3, <2>1, <2>3, BoundTypes DEF SourceBound, Held, One
  <2>4. QED  BY <2>2, <2>3
<1>7. /\ counts'.taken + Held(Leader)' <= app'.made
      /\ counts'.segments + Held(Leader)' + One(Looping') <= app'.made
  <2>1. /\ counts.taken + Held(Leader) <= app.made
        /\ counts.segments + Held(Leader) + One(Looping) <= app.made
    BY DEF BoundInv
  <2>2. CASE s = Leader
    <3>1. counts'.taken + Held(Leader)' <= app'.made
      BY <1>1, <1>5, <2>1, <2>2, BoundTypes DEF Held, One
    <3>2. Held(Leader)' + One(Looping') <= Held(Leader) + One(Looping)
      BY <1>5, <2>2 DEF Held, One, Looping
    <3>3. Held(Leader)' \in Nat /\ One(Looping') \in Nat /\ One(Looping) \in Nat
      BY DEF Held, One
    <3>4. QED  BY <1>1, <1>2, <2>1, <3>1, <3>2, <3>3, BoundTypes
  <2>3. CASE s # Leader
    <3>1. counts'.taken = counts.taken
      BY <1>5, <2>3
    <3>2. Held(Leader)' = Held(Leader)
      BY <1>0, <1>3, <2>3 DEF Held, One
    <3>3. Looping' => Looping
      BY <1>0, <1>3, <2>3 DEF Looping
    <3>4. One(Looping') <= One(Looping) /\ One(Looping') \in Nat /\ One(Looping) \in Nat
      BY <3>3 DEF One
    <3>5. QED  BY <1>1, <1>2, <2>1, <3>1, <3>2, <3>4, BoundTypes
  <2>4. QED  BY <2>2, <2>3
<1>8. counts'.ended <= counts'.taken /\ counts'.ended >= -1 /\ runEnd'.n <= counts'.taken
  <2>1. counts'.taken \in {counts.taken, counts.taken + 1}
    BY <1>5
  <2>2. QED  BY <1>1, <1>2, <2>1, BoundTypes DEF BoundInv
<1>9. \A t \in Sources : ctl'[t].pending.id <= MaxSeeks /\ src'[t].seek.id <= MaxSeeks
  BY <1>3, <1>5 DEF BoundInv
<1>10. QED  BY <1>1, <1>4, <1>6, <1>7, <1>8, <1>9 DEF BoundInv

(* The other steps of a source.                                            *)
LEMMA SourceBoundKept ==
  ASSUME Typed, BoundInv, NEW s \in Sources, SourceNext(s)
  PROVE  BoundInv'
<1> USE DEF links, history
<1>0. Leader \in Sources
  BY DEF Sources
<1>1. CASE TakeSeek(s) \/ RefuseSeek(s) \/ ServeSeek(s) \/ SendFlush(s)
  BY <1>1, SeekBound
<1>2. CASE SegmentDone(s)
  <2>1. UNCHANGED <<app, lastEos, faults, runEnd, ticket, sent, ctl>>
    BY <1>2 DEF SegmentDone
  <2>2. /\ src[s].pc = "end" /\ src[s].mode = "loop" /\ src'[s].pc = "wait"
        /\ \A t \in Sources : src'[t].seek = src[t].seek
        /\ \A t \in Sources \ {s} : src'[t] = src[t]
    BY <1>2, GotoFacts DEF SegmentDone, SrcStates, Goto, Typed, ControlTyped
  <2>3. /\ counts'.taken = counts.taken /\ counts'.ended = counts.ended
        /\ counts'.segments = IF s = Leader THEN counts.segments + 1 ELSE counts.segments
    BY <1>2 DEF SegmentDone, Typed, ControlTyped
  <2>4. CASE s # Leader
    <3>1. Looping' => Looping
      BY <1>0, <2>1, <2>2, <2>4 DEF Looping
    <3>2. counts'.segments = counts.segments
      BY <2>3, <2>4
    <3>3. \A t \in Sources : /\ src'[t].pc = "accept" => src[t].pc = "accept"
                             /\ src'[t].pc = "flush" => src[t].pc = "flush"
      BY <2>2
    <3>4. QED  BY <2>1, <2>2, <2>3, <3>1, <3>2, <3>3, BoundKept DEF BoundInv
  <2>5. CASE s = Leader
    <3>1. Looping /\ ~Looping'
      BY <2>2, <2>5 DEF Looping
    <3>2. One(Looping) = 1 /\ One(Looping') = 0
      BY <3>1 DEF One
    <3>3. \A t \in Sources : Held(t)' = Held(t)
      BY <2>1, <2>2 DEF Held, One
    <3>4. \A t \in Sources : SourceBound(t)'
      BY <2>1, <2>2, <3>3 DEF BoundInv, SourceBound, One
    <3>5. /\ counts'.taken + Held(Leader)' <= app'.made
          /\ counts'.segments + Held(Leader)' + One(Looping') <= app'.made
      BY <1>0, <2>1, <2>3, <2>5, <3>2, <3>3, BoundTypes DEF BoundInv
    <3>6. QED  BY <2>1, <2>2, <2>3, <3>4, <3>5 DEF BoundInv
  <2>6. QED  BY <2>4, <2>5
<1>3. CASE SendEos(s)
  <2>1. Eos(s) \in Packet
    BY DEF Eos, Packet, Typed, ArmsTyped
  <2>2. /\ Push(s, Eos(s), "wait") \/ Push(s, Eos(s), "done")
        /\ UNCHANGED <<app, sent, ticket, counts, runEnd, lastEos, faults>>
    BY <1>3 DEF SendEos
  <2>3. /\ \A t \in Sources : /\ ctl'[t].pending = ctl[t].pending
                              /\ src'[t].seek = src[t].seek /\ src'[t].mode = src[t].mode
        /\ \A t \in Sources \ {s} : \/ src'[t].pc = src[t].pc
                                    \/ src[t].pc = "parked" /\ src'[t].pc = "wait"
        /\ src'[s].pc \in {"wait", "done"}
    BY <2>1, <2>2, PushFacts DEF SrcStates
  <2>4. Looping' => Looping
    BY <1>0, <2>3 DEF Looping
  <2>5. \A t \in Sources : /\ src'[t].pc = "accept" => src[t].pc = "accept"
                           /\ src'[t].pc = "flush" => src[t].pc = "flush"
    BY <2>3
  <2>6. QED  BY <2>2, <2>3, <2>4, <2>5, BoundKept DEF BoundInv
<1>4. CASE PlayOn(s) \/ WaitPending(s) \/ WaitShutdown(s) \/ WaitRegister(s) \/ WaitAgain(s)
  <2>1. UNCHANGED <<app, sent, ticket, counts, runEnd, lastEos, faults>>
    BY <1>4 DEF PlayOn, WaitPending, WaitShutdown, WaitRegister, WaitAgain
  <2>2. \A t \in Sources : ctl'[t].pending = ctl[t].pending
    BY <1>4 DEF PlayOn, WaitPending, WaitShutdown, WaitRegister, WaitAgain, Typed,
       ControlTyped, CtlRec
  <2>3. PICK next \in SrcStates :
          /\ Goto(s, next)
          /\ next \notin {"accept", "flush"}
          /\ next = "play" => ctl[s].pending # NoSeek
          /\ next = "frames" => src[s].pc = "play" /\ ctl[s].pending = NoSeek
          /\ next = "end" => src[s].pc = "frames"
    BY <1>4 DEF PlayOn, WaitPending, WaitShutdown, WaitRegister, WaitAgain, SrcStates
  <2>4. /\ \A t \in Sources : src'[t].seek = src[t].seek /\ src'[t].mode = src[t].mode
        /\ \A t \in Sources \ {s} : src'[t].pc = src[t].pc
        /\ src'[s].pc = next
    BY <2>3, GotoFacts
  <2>5. Looping' => Looping
    BY <1>0, <2>2, <2>3, <2>4 DEF Looping
  <2>6. \A t \in Sources : /\ src'[t].pc = "accept" => src[t].pc = "accept"
                           /\ src'[t].pc = "flush" => src[t].pc = "flush"
    BY <2>3, <2>4
  <2>7. QED  BY <2>1, <2>2, <2>4, <2>5, <2>6, BoundKept DEF BoundInv
<1>5. QED  BY <1>1, <1>2, <1>3, <1>4 DEF SourceNext

(* The arms, the sinks and the future that ends the run take no seek.      *)
LEMMA BoundNext ==
  ASSUME Typed, NumberInv, BoundInv, [Next]_vars
  PROVE  BoundInv'
<1> USE DEF links, history
<1>0. Leader \in Sources
  BY DEF Sources
<1>1. CASE UNCHANGED vars \/ Finished
  BY <1>1 DEF vars, Finished, BoundInv, SourceBound, Held, Looping
<1>2. CASE \/ \E s \in Sources : MidNext(s)
           \/ \E k \in Sinks : SinkNext(k) \/ SinkFails(k)
           \/ RunEndNext
  <2>1. UNCHANGED <<app, sent, ticket>>
    BY <1>2 DEF MidNext, SinkNext, RunEndNext, MidTake, MidEnds, SinkFlush, SinkEos,
       SinkEnded, SinkCloses, SinkFails, RunEndStart, RunEndScan, MarkStreamEnded,
       RunEndShutdown
  <2>2. (src' = src /\ ctl' = ctl) \/ (src' = Roused(Sources) /\ ShutDown)
    BY <1>2 DEF MidNext, SinkNext, RunEndNext, MidTake, MidEnds, SinkFlush, SinkEos,
       SinkEnded, SinkCloses, SinkFails, RunEndStart, RunEndScan, MarkStreamEnded,
       RunEndShutdown
  <2>3. /\ \A t \in Sources : /\ ctl'[t].pending = ctl[t].pending
                              /\ src'[t].seek = src[t].seek /\ src'[t].mode = src[t].mode
        /\ \A t \in Sources : \/ src'[t].pc = src[t].pc
                              \/ src[t].pc = "parked" /\ src'[t].pc = "wait"
    BY <2>2, RousedFacts, ShutDownFacts
  <2>4. Looping' => Looping
    BY <1>0, <2>3 DEF Looping
  <2>5. /\ counts'.taken = counts.taken /\ counts'.segments = counts.segments
        /\ counts'.ended \in {counts.ended, runEnd.n}
    BY <1>2 DEF MidNext, SinkNext, RunEndNext, MidTake, MidEnds, SinkFlush, SinkEos,
       SinkEnded, SinkCloses, SinkFails, RunEndStart, RunEndScan, MarkStreamEnded,
       RunEndShutdown, Typed, ControlTyped
  <2>6. runEnd'.n \in {runEnd.n, counts.taken}
    <3>1. CASE RunEndNext
      <4>1. CASE RunEndStart
        BY <4>1 DEF RunEndStart
      <4>2. CASE RunEndScan
        BY <4>2 DEF RunEndScan, Typed, ControlTyped
      <4>3. CASE MarkStreamEnded \/ RunEndShutdown
        BY <4>3 DEF MarkStreamEnded, RunEndShutdown, Typed, ControlTyped
      <4>4. QED  BY <3>1, <4>1, <4>2, <4>3 DEF RunEndNext
    <3>2. CASE ~RunEndNext
      <4>1. runEnd' = runEnd \/ runEnd' = WokenRunEnd
        BY <1>2, <3>2 DEF MidNext, SinkNext, MidTake, MidEnds, SinkFlush, SinkEos,
           SinkEnded, SinkCloses, SinkFails
      <4>2. QED  BY <4>1 DEF WokenRunEnd, Typed, ControlTyped
    <3>3. QED  BY <3>1, <3>2
  <2>7. faults' \in 0..MaxFaults
    <3>1. faults' = faults \/ (faults < MaxFaults /\ faults' = faults + 1)
      BY <1>2 DEF MidNext, SinkNext, RunEndNext, MidTake, MidEnds, SinkFlush, SinkEos,
         SinkEnded, SinkCloses, SinkFails, RunEndStart, RunEndScan, MarkStreamEnded,
         RunEndShutdown
    <3>2. faults \in 0..MaxFaults /\ MaxFaults \in Nat
      BY SeekRunAssumption DEF BoundInv
    <3>3. QED  BY <3>1, <3>2
  <2>8. \A k \in Sinks : lastEos'[k] >= -1 /\ lastEos'[k] <= app.made
    <3>1. CASE lastEos' = lastEos
      BY <3>1 DEF BoundInv
    <3>2. ASSUME NEW k \in Sinks, SinkEos(k), lastEos' # lastEos
          PROVE  lastEos' = [lastEos EXCEPT ![k] = Head(link[k]).nth]
                 /\ Head(link[k]).nth \in Nat /\ Head(link[k]).nth <= app.made
      <4>1. link[k] \in Seq(Packet) /\ link[k] # << >> /\ k[1] \in Sources
        BY <3>2 DEF SinkEos, Typed, ArmsTyped, Sinks
      <4>2. Head(link[k]) \in Packet /\ Head(link[k]) = link[k][1] /\ 1 \in 1..Len(link[k])
        BY <4>1
      <4>3. Head(link[k]).nth \in Nat
        BY <4>2 DEF Packet
      <4>4. /\ Head(link[k]).nth <= mid[k[1]].flushes /\ mid[k[1]].flushes <= sent[k[1]]
            /\ mid[k[1]].flushes \in Nat
        BY <4>1, <4>2 DEF NumberInv, LinkNumbered, FeedNumbered, AtMost, Typed, ArmsTyped,
           MidRec
      <4>5. sent[k[1]] <= app.made
        <5>1. SourceBound(k[1])
          BY <4>1 DEF BoundInv
        <5>2. QED  BY <4>1, <5>1, BoundTypes DEF SourceBound, One
      <4>6. QED  BY <3>2, <4>1, <4>3, <4>4, <4>5, BoundTypes DEF SinkEos
    <3>3. lastEos' = lastEos \/ \E k \in Sinks : SinkEos(k)
      BY <1>2 DEF MidNext, SinkNext, RunEndNext, MidTake, MidEnds, SinkFlush,
         SinkEnded, SinkCloses, SinkFails, RunEndStart, RunEndScan, MarkStreamEnded,
         RunEndShutdown
    <3>4. ASSUME lastEos' # lastEos, NEW j \in Sinks
          PROVE  lastEos'[j] >= -1 /\ lastEos'[j] <= app.made
      <4>1. PICK k \in Sinks : SinkEos(k)
        BY <3>3, <3>4
      <4>2. /\ lastEos' = [lastEos EXCEPT ![k] = Head(link[k]).nth]
            /\ Head(link[k]).nth \in Nat /\ Head(link[k]).nth <= app.made
        BY <3>2, <3>4, <4>1
      <4>3. CASE j = k
        BY <4>2, <4>3 DEF Typed, ArmsTyped
      <4>4. CASE j # k
        BY <4>2, <4>4 DEF BoundInv, Typed, ArmsTyped
      <4>5. QED  BY <4>3, <4>4
    <3>5. QED  BY <3>1, <3>4
  <2>9. \A t \in Sources : /\ src'[t].pc = "accept" => src[t].pc = "accept"
                           /\ src'[t].pc = "flush" => src[t].pc = "flush"
    BY <2>3
  <2>10. QED  BY <2>1, <2>3, <2>4, <2>5, <2>6, <2>7, <2>8, <2>9, BoundKept
<1>3. QED  BY <1>1, <1>2, AppBound, SourceBoundKept DEF Next

(* The state stays within TypeOK, its counters bounded by the seeks made:  *)
(* no arm counts a Flush twice and no segment is reported done twice.      *)
THEOREM TypeCorrect == Spec => []TypeOK
<1>1. Init => BoundInv
  <2> SUFFICES ASSUME Init PROVE BoundInv
    OBVIOUS
  <2>0. Leader \in Sources
    BY DEF Sources
  <2>1. /\ app.made = 0 /\ app.todo = {} /\ app.seek = NoSeek
        /\ \A s \in Sources : /\ ctl[s].pending = NoSeek /\ src[s].pc = "play"
                              /\ src[s].seek = NoSeek /\ src[s].mode = "plain"
                              /\ sent[s] = 0
        /\ counts.taken = 0 /\ counts.segments = 0 /\ counts.ended = -1 /\ runEnd.n = 0
        /\ \A k \in Sinks : lastEos[k] = -1
        /\ faults = 0
    BY DEF Init
  <2>2. \A s \in Sources : SourceBound(s) /\ Held(s) = 0
    BY <2>1 DEF SourceBound, Held, One
  <2>3. ~Looping
    BY <2>0, <2>1 DEF Looping
  <2>4. One(Looping) = 0
    BY <2>3 DEF One
  <2>5. ticket \in [Seeks -> [outcome : {"none", "Served", "Refused", "Superseded"},
                              early : BOOLEAN]]
    BY DEF Init
  <2>6. NoSeek.id = 0
    BY DEF NoSeek
  <2>7. QED  BY <2>0, <2>1, <2>2, <2>4, <2>5, <2>6, SeekRunAssumption DEF BoundInv
<1>2. Typed /\ NumberInv /\ BoundInv /\ [Next]_vars => BoundInv'
  BY BoundNext
<1>3. ASSUME Typed, NumberInv, BoundInv PROVE TypeOK
  <2>0. MaxSeeks \in Nat /\ app.made \in 0..MaxSeeks
    BY <1>3, SeekRunAssumption, BoundTypes DEF BoundInv
  <2>1. \A r \in SeekRec : r.id <= MaxSeeks => r \in SeekRecord
    <3>1. Kinds \cup {"none"} \subseteq FlushingKinds \cup {"accumulate", "none"}
      BY SeekRunAssumption
    <3> SUFFICES ASSUME NEW r \in SeekRec, r.id <= MaxSeeks PROVE r \in SeekRecord
      OBVIOUS
    <3>2. /\ r = [id |-> r.id, kind |-> r.kind]
          /\ r.id \in Nat /\ r.kind \in Kinds \cup {"none"}
      BY DEF SeekRec
    <3>3. r.id \in 0..MaxSeeks
      BY <2>0, <3>2
    <3>4. r.kind \in FlushingKinds \cup {"accumulate", "none"}
      BY <3>1, <3>2
    <3> HIDE DEF FlushingKinds
    <3>5. QED  BY <3>2, <3>3, <3>4 DEF SeekRecord
  <2>2. ctl \in [Sources -> [pending : SeekRecord, shutdown : BOOLEAN, waker : BOOLEAN]]
    BY <1>3, <2>1 DEF Typed, ControlTyped, CtlRec, BoundInv
  <2>3. src \in [Sources -> [pc : SrcStates, seek : SeekRecord,
                             mode : {"plain", "loop", "reverse"}]]
    BY <1>3, <2>1 DEF Typed, ControlTyped, SrcRec, BoundInv
  <2>4. app \in [made : 0..MaxSeeks, seek : SeekRecord, todo : SUBSET Followers]
    BY <1>3, <2>0, <2>1 DEF Typed, ControlTyped, BoundInv
  <2>5. counts \in [taken : 0..MaxSeeks, ended : -1..MaxSeeks, held : BOOLEAN,
                    segments : 0..MaxSeeks]
    <3>1. /\ counts.taken \in 0..MaxSeeks /\ counts.segments \in 0..MaxSeeks
          /\ counts.ended \in -1..MaxSeeks
      BY <1>3, <2>0, BoundTypes DEF BoundInv, One
    <3>2. QED  BY <1>3, <3>1 DEF Typed, ControlTyped
  <2>6. runEnd \in [pc : RunEndStates, n : 0..MaxSeeks, scan : SUBSET Sinks,
                    waker : BOOLEAN]
    <3>1. counts.taken \in 0..MaxSeeks /\ runEnd.n <= counts.taken
      BY <2>5, <1>3 DEF BoundInv
    <3>2. runEnd.n \in 0..MaxSeeks
      BY <1>3, <3>1, <2>0, BoundTypes
    <3>3. QED  BY <1>3, <3>2 DEF Typed, ControlTyped
  <2>7. \A s \in Sources : sent[s] \in 0..MaxSeeks
    <3> SUFFICES ASSUME NEW s \in Sources PROVE sent[s] \in 0..MaxSeeks
      OBVIOUS
    <3>1. SourceBound(s)
      BY <1>3 DEF BoundInv
    <3>2. QED  BY <1>3, <2>0, <3>1, BoundTypes DEF SourceBound, One
  <2>8. \A s \in Sources : mid[s].flushes \in 0..MaxSeeks
    BY <1>3, <2>0, <2>7 DEF NumberInv, FeedNumbered, Typed, ArmsTyped, MidRec
  <2>9. \A k \in Sinks : sink[k].flushes \in 0..MaxSeeks
    <3> SUFFICES ASSUME NEW k \in Sinks PROVE sink[k].flushes \in 0..MaxSeeks
      OBVIOUS
    <3>1. k[1] \in Sources
      BY DEF Sinks
    <3>2. mid[k[1]].flushes \in 0..MaxSeeks
      BY <2>8, <3>1
    <3>3. sink[k].flushes \in Nat /\ sink[k].flushes <= mid[k[1]].flushes
      BY <1>3 DEF NumberInv, LinkNumbered, Typed, ArmsTyped, SinkRec
    <3>4. QED  BY <2>0, <3>2, <3>3
  <2>10. mid \in [Sources -> [flushes : 0..MaxSeeks, up : BOOLEAN]]
    BY <1>3, <2>8 DEF Typed, ArmsTyped, MidRec
  <2>11. sink \in [Sinks -> [pc : {"recv", "ending", "done"}, flushes : 0..MaxSeeks,
                             atEos : BOOLEAN]]
    BY <1>3, <2>9 DEF Typed, ArmsTyped, SinkRec
  <2>12. sent \in [Sources -> 0..MaxSeeks]
    BY <1>3, <2>7 DEF Typed, ArmsTyped
  <2>13. lastEos \in [Sinks -> -1..MaxSeeks]
    <3>1. \A k \in Sinks : lastEos[k] \in -1..MaxSeeks
      BY <1>3, <2>0 DEF BoundInv, Typed, ArmsTyped
    <3>2. QED  BY <1>3, <3>1 DEF Typed, ArmsTyped
  <2>14. /\ free \in BOOLEAN /\ faults \in 0..MaxFaults
         /\ ticket \in [Seeks -> [outcome : {"none", "Served", "Refused", "Superseded"},
                                  early : BOOLEAN]]
    BY <1>3 DEF Typed, ControlTyped, BoundInv
  <2>15. QED  BY <2>2, <2>3, <2>4, <2>5, <2>6, <2>10, <2>11, <2>12, <2>13, <2>14 DEF TypeOK
<1>4. QED  BY <1>1, <1>2, <1>3, NumbersInductive, PTL DEF Spec
=============================================================================
