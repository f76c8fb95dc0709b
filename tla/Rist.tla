-------------------------------- MODULE Rist --------------------------------
(***************************************************************************)
(* A RIST stream between RistSink and RistSrc (g2g-plugins: ristsink.rs,   *)
(* ristsrc.rs, rist.rs, rtpjitter.rs, rtx.rs; g2g-core: rtp.rs) over one   *)
(* unicast link that loses, repeats and reorders datagrams.  The sender    *)
(* numbers its packets modulo Period and keeps a copy of each for a while; *)
(* the receiver unrolls the numbers, holds every packet for the receiver   *)
(* buffer, and asks for the holes it sees.  A sender that crashed comes    *)
(* back as another process with a new SSRC.                                *)
(*                                                                         *)
(* One tick is TIMER_CHECK_MS, the longest either loop sleeps.  A time the *)
(* code stores is kept as the ticks since it or until it.                  *)
(***************************************************************************)
EXTENDS Integers, Sequences, FiniteSetsExt

CONSTANTS
    Period,       \* RTP sequence numbers wrap here (2^16)
    Offsets,      \* the first sequence numbers a sender may draw
    Hold,         \* receiver-buffer: how long a packet is held
    Reorder,      \* reorder-section: how long a hole waits for its request
    MaxRequests,  \* max-rtx-retries: requests for one packet
    MaxNacked,    \* MAX_NACKED_PER_REPORT
    MaxTracked,   \* MAX_TRACKED_LOSSES
    Depth,        \* MAX_BUFFERED_PACKETS
    Keep,         \* sender-buffer: how long a copy stays, and the drain
    ReportEvery,  \* min-rtcp-interval, of the sender's reports
    Lead,         \* FIRST_REPORT_LEAD, from the first report to the first packet
    MaxDelay,     \* ticks from a datagram's send to its read, if not lost
    MaxSent,      \* packets sent, by all senders together
    MaxLives,     \* senders, one after the other
    MaxFaults     \* datagrams the network loses or delivers twice

ASSUME RistAssumption ==
    /\ Period \in Nat /\ Period > 1 /\ Period % 2 = 0
    /\ Offsets \subseteq 0 .. Period - 1
    /\ {Hold, Reorder, MaxRequests, Keep, Lead, MaxDelay, MaxFaults} \subseteq Nat
    /\ {MaxNacked, MaxTracked, Depth, ReportEvery, MaxSent, MaxLives} \subseteq Nat \ {0}

VARIABLES
    snd,     \* the RistSink running now, or the last that ran
    rcv,     \* the StreamState of RistSrc and its loop's locals
    net,     \* datagrams under way
    out,     \* what RistSrc has pushed downstream
    faults   \* what the network and the senders have done wrong so far

vars == <<snd, rcv, net, out, faults>>

None == 0
Lives == 1 .. MaxLives
Numbers == 1 .. MaxSent
NoHoles == [s \in {} |-> None]
NoPackets == [e \in {} |-> None]
-----------------------------------------------------------------------------
(* The sender.                                                             *)

(* RistSink::default draws the SSRC, here the life; configure_pipeline the *)
(* first number.                                                           *)
NewSender(life, offset, input) ==
    [life |-> life, phase |-> "new", offset |-> offset, sent |-> 0, input |-> input,
     base |-> 0, history |-> <<>>, report |-> 0, left |-> 0, served |-> FALSE]

SequenceOf(offset, num) == (offset + num - 1) % Period

(* SentPackets::push behind RetransmissionHistory::record: a number that   *)
(* does not follow starts the history anew; copies past their time, or     *)
(* past half the number space, go.                                         *)
Record(s, num) ==
    LET seq == SequenceOf(s.offset, num)
        follows == s.history # <<>> /\ seq = (s.base + Len(s.history)) % Period
        base == IF follows THEN s.base ELSE seq
        kept == Append(IF follows THEN s.history ELSE <<>>, [num |-> num, age |-> 0])
        Expired(i) == kept[i].age > Keep \/ Len(kept) - (i - 1) > Period \div 2
        gone == Max({n \in 0 .. Len(kept) : \A i \in 1 .. n : Expired(i)})
    IN  [s EXCEPT !.base = (base + gone) % Period,
                  !.history = SubSeq(kept, gone + 1, Len(kept))]

(* SentPackets::get of each number asked for.                              *)
Retransmissions(s, asked) ==
    LET Index(seq) == (seq - s.base) % Period
    IN  {s.history[Index(seq) + 1].num :
            seq \in {q \in asked : Index(q) < Len(s.history)}}

Media(s, num, resent) ==
    [kind |-> "media", life |-> s.life, num |-> num,
     seq |-> SequenceOf(s.offset, num), resent |-> resent, age |-> 0]

Rtcp(kind, life) == [kind |-> kind, life |-> life, age |-> 0]

(* NACKs that have reached the sender's socket; a sender that is gone has  *)
(* none.                                                                   *)
AtSender == {m \in net : m.kind = "nack" /\ m.to = snd.life}

(* service_rtcp: answer the NACKs that ask this stream (requested_ranges), *)
(* then report if it is time.                                              *)
Resends(s, nacks) ==
    {Media(s, num, TRUE) : num \in Retransmissions(s,
        UNION {m.asked : m \in {n \in nacks : n.life = s.life}})}

ReportDue(s) == s.report = 0
Reports(s) == IF ReportDue(s) THEN {Rtcp("report", s.life)} ELSE {}
Served(s) ==
    [s EXCEPT !.served = TRUE,
              !.report = IF ReportDue(s) THEN ReportEvery ELSE s.report]

(* process(DataFrame) leads the first frame of all by a report, and sleeps *)
(* so that the report gets there first.                                    *)
Announce ==
    /\ snd.phase = "new"
    /\ snd.input > 0
    /\ snd' = [Served(snd) EXCEPT !.phase = "leading", !.left = Lead]
    /\ net' = net \cup Reports(snd)
    /\ UNCHANGED <<rcv, out, faults>>

(* process(DataFrame): the frame, one packet of it, and then the RTCP that *)
(* has arrived.                                                            *)
SendFrame ==
    /\ snd.phase = "sending" \/ (snd.phase = "leading" /\ snd.left = 0)
    /\ snd.input > 0
    /\ \E nacks \in SUBSET AtSender :
          LET num == snd.sent + 1
              after == Record([snd EXCEPT !.phase = "sending", !.sent = num,
                                          !.input = @ - 1], num)
          IN  /\ snd' = Served(after)
              /\ net' = (net \ nacks) \cup {Media(snd, num, FALSE)}
                            \cup Resends(after, nacks) \cup Reports(after)
    /\ UNCHANGED <<rcv, out, faults>>

(* process(Eos): a sender that sent nothing has nobody to take leave of.   *)
SendEos ==
    /\ snd.phase \in {"new", "sending"}
    /\ snd' = [snd EXCEPT !.phase = IF snd.sent > 0 THEN "draining" ELSE "gone",
                          !.left = Keep]
    /\ UNCHANGED <<rcv, net, out, faults>>

(* One turn of drain_and_close's loop.                                     *)
Drain ==
    /\ snd.phase = "draining"
    /\ snd.left > 0
    /\ \E nacks \in SUBSET AtSender :
          /\ nacks # {} \/ ~snd.served
          /\ snd' = Served(snd)
          /\ net' = (net \ nacks) \cup Resends(snd, nacks) \cup Reports(snd)
    /\ UNCHANGED <<rcv, out, faults>>

(* Its deadline has passed.                                                *)
SayGoodbye ==
    /\ snd.phase = "draining"
    /\ snd.left = 0
    /\ snd' = [snd EXCEPT !.phase = "gone"]
    /\ net' = net \cup {Rtcp("bye", snd.life)}
    /\ UNCHANGED <<rcv, out, faults>>

(* The process dies with its history; another takes its place later (the   *)
(* last one allowed does not crash).                                       *)
Crash ==
    /\ snd.phase # "gone"
    /\ snd.life < MaxLives
    /\ snd' = [snd EXCEPT !.phase = "gone"]
    /\ faults' = [faults EXCEPT !.crashed = @ \cup {snd.life}]
    /\ UNCHANGED <<rcv, net, out>>

Restart ==
    /\ snd.phase = "gone"
    /\ snd.life < MaxLives
    /\ \E offset \in Offsets : snd' = NewSender(snd.life + 1, offset, snd.input)
    /\ UNCHANGED <<rcv, net, out, faults>>
-----------------------------------------------------------------------------
(* The receiver.  Each operator takes the state r of the loop and gives    *)
(* what it becomes.                                                        *)

(* StreamState::default.                                                   *)
NewStream(r) ==
    [r EXCEPT !.highest = None, !.next = None, !.released = FALSE,
              !.buffer = NoPackets, !.holes = NoHoles, !.goodbye = FALSE]

(* extend_wrapping: a step of half the period or more counts as backward.  *)
Extend(highest, seq) ==
    LET forward == (seq - highest) % Period
    IN  IF highest = None THEN Period + seq
        ELSE IF forward < Period \div 2 THEN highest + forward
        ELSE highest - (Period - forward)

(* Mutant of ArrivalAge: every packet starts a time of its own.            *)
ArrivalAgeAnew(r, ext) == 0

(* A packet that fills a hole takes over the time of the packet behind it, *)
(* so that it does not hold that one up.                                   *)
ArrivalAge(r, ext) ==
    LET following == {e \in DOMAIN r.buffer : e > ext}
    IN  IF following = {} THEN 0 ELSE r.buffer[Min(following)].age

(* RtpJitterBuffer::push: too late once something was released behind it,  *)
(* dropped if it is there already.                                         *)
Push(r, m) ==
    LET ext == Extend(r.highest, m.seq)
        high == Max({r.highest, ext})
        late == r.next # None /\ ext < r.next /\ r.released
        first == IF r.next = None THEN ext ELSE Min({r.next, ext})
        packet == [life |-> m.life, num |-> m.num, age |-> ArrivalAge(r, ext)]
    IN  IF late \/ ext \in DOMAIN r.buffer THEN [r EXCEPT !.highest = high]
        ELSE [r EXCEPT !.highest = high, !.next = first,
                       !.buffer = [e \in DOMAIN @ \cup {ext} |->
                                      IF e = ext THEN packet ELSE @[e]]]

(* follow_restarted_sender drops what the old stream left.                 *)
FollowRestarted(r, life) ==
    [NewStream(r) EXCEPT !.media = life, !.previous = r.media]

(* Mutant of Accept: the stream before is not remembered.                  *)
AcceptAnyStream(r, m) ==
    IF m.resent /\ r.media # m.life THEN r
    ELSE IF r.media = None THEN Push([r EXCEPT !.media = m.life], m)
    ELSE IF r.media = m.life THEN Push(r, m)
    ELSE Push(FollowRestarted(r, m.life), m)

(* accept_media: an original packet adopts the stream or a new one, a      *)
(* resent one only fills a gap, and the stream before is over.             *)
Accept(r, m) ==
    IF m.resent /\ r.media # m.life THEN r
    ELSE IF r.media = None THEN Push([r EXCEPT !.media = m.life], m)
    ELSE IF r.media = m.life THEN Push(r, m)
    ELSE IF r.previous = m.life THEN r
    ELSE Push(FollowRestarted(r, m.life), m)

(* The RTCP read in one pass: any of it names the address to answer to, a  *)
(* goodbye of the stream ends it.                                          *)
TakeRtcp(r, ms, last) ==
    [r EXCEPT !.dest = last,
              !.goodbye = @ \/ \E m \in ms : m.kind = "bye" /\ m.life = r.media]

(* What RtpJitterBuffer::pop gives until it gives nothing, in constant     *)
(* delay mode: the head once overdue, gap or no gap, or a full buffer's.   *)
Due(r) ==
    LET Ready(e) == \/ r.buffer[e].age >= Hold
                    \/ Cardinality({d \in DOMAIN r.buffer : d >= e}) >= Depth
    IN  {e \in DOMAIN r.buffer : \A d \in DOMAIN r.buffer : d <= e => Ready(d)}

Pop(r) ==
    LET due == Due(r)
    IN  IF due = {} THEN r
        ELSE [r EXCEPT !.next = Max(due) + 1, !.released = TRUE,
                       !.buffer = [e \in DOMAIN @ \ due |-> @[e]],
                       !.forced = @ \/ \E e \in due : r.buffer[e].age < Hold]

(* The numbers of a set, lowest first.                                     *)
Ascending(S) ==
    CHOOSE s \in [1 .. Cardinality(S) -> S] : \A i, j \in DOMAIN s : i < j => s[i] < s[j]

Popped(r) ==
    [i \in 1 .. Cardinality(Due(r)) |->
        LET p == r.buffer[Ascending(Due(r))[i]] IN [life |-> p.life, num |-> p.num]]

(* The first n of a set's numbers, in their order.                         *)
Lowest(S, n) == {x \in S : Cardinality({y \in S : y < x}) < n}

(* missing_seqs, cut to the losses tracked.                                *)
Missing(r) ==
    IF r.next = None \/ DOMAIN r.buffer = {} THEN {}
    ELSE LET end == Min({Max(DOMAIN r.buffer), r.next + Depth})
         IN  Lowest((r.next .. end - 1) \ DOMAIN r.buffer, MaxTracked)

RetryInterval == (IF Hold > Reorder THEN Hold - Reorder ELSE 0) \div Max({MaxRequests, 1})

(* NackScheduler::due.                                                     *)
Loss(r, seq) ==
    IF seq \in DOMAIN r.holes THEN r.holes[seq] ELSE [wait |-> Reorder, asked |-> 0]

Requests(r) ==
    LET May(e) == LET loss == Loss(r, e % Period)
                  IN  loss.asked < MaxRequests /\ loss.wait = 0
    IN  {e % Period : e \in Lowest({h \in Missing(r) : May(h)}, MaxNacked)}

(* Mutant of Asked: a hole is new at every look.                           *)
AskedForgets(r) == [r EXCEPT !.check = 1, !.holes = NoHoles]

Asked(r) ==
    [r EXCEPT !.check = 1,
              !.holes = [seq \in {e % Period : e \in Missing(r)} |->
                            IF seq \in Requests(r)
                            THEN [wait |-> RetryInterval, asked |-> Loss(r, seq).asked + 1]
                            ELSE Loss(r, seq)]]

(* The holes are looked at once a tick, and only when there is somebody to *)
(* ask.                                                                    *)
Checks(r) == r.dest # None /\ r.check = 0

Nacks(r) ==
    IF Checks(r) /\ r.media # None /\ Requests(r) # {}
    THEN {[kind |-> "nack", to |-> r.dest, life |-> r.media, asked |-> Requests(r), age |-> 0]}
    ELSE {}

AtMediaSocket == {m \in net : m.kind = "media"}
AtRtcpSocket == {m \in net : m.kind \in {"report", "bye"}}

(* One pass of RistSrc's loop over what it reads: at most one media        *)
(* datagram, the RTCP there is, then pop, the end, and the NACK.           *)
PassOver(r, before) ==
    LET popped == Pop(r)
    IN  IF popped.goodbye /\ DOMAIN popped.buffer = {}
        THEN /\ rcv' = [popped EXCEPT !.ended = TRUE]
             /\ net' = before
             /\ out' = out \o Popped(r)
        ELSE /\ rcv' = [(IF Checks(popped) THEN Asked(popped) ELSE popped)
                            EXCEPT !.passed = TRUE]
             /\ net' = before \cup Nacks(popped)
             /\ out' = out \o Popped(r)

(* A pass that finds nothing to read comes when TIMER_CHECK_MS is over.    *)
Pass ==
    /\ ~rcv.ended
    /\ \E ms \in SUBSET AtRtcpSocket :
       \E last \in IF ms = {} THEN {rcv.dest} ELSE {m.life : m \in ms} :
          \/ /\ ms # {} \/ ~rcv.passed
             /\ PassOver(TakeRtcp(rcv, ms, last), net \ ms)
             /\ UNCHANGED faults
          \/ \E m \in AtMediaSocket :
             /\ PassOver(TakeRtcp(Accept(rcv, m), ms, last), net \ (ms \cup {m}))
             /\ UNCHANGED faults
          \/ \E m \in AtMediaSocket :
             /\ faults.count < MaxFaults
             /\ PassOver(TakeRtcp(Accept(rcv, m), ms, last), net \ ms)
             /\ faults' = [faults EXCEPT !.count = @ + 1]
    /\ UNCHANGED snd
-----------------------------------------------------------------------------
(* The network and the clock.                                              *)

Lose ==
    /\ faults.count < MaxFaults
    /\ \E m \in net : net' = net \ {m}
    /\ faults' = [faults EXCEPT !.count = @ + 1]
    /\ UNCHANGED <<snd, rcv, out>>

(* A datagram nobody will read any more.                                   *)
Dead(m) ==
    IF m.kind = "nack" THEN m.to # snd.life \/ snd.phase = "gone" ELSE rcv.ended

(* A datagram waiting in the socket of a sender that sleeps.               *)
Unread(m) == m.kind = "nack" /\ snd.phase = "leading"

Down(n) == IF n > 0 THEN n - 1 ELSE 0
Up(n, limit) == IF n <= limit THEN n + 1 ELSE n
Held(p, limit) == [p EXCEPT !.age = Up(@, limit)]
Waited(loss) == [loss EXCEPT !.wait = Down(@)]

(* The sender has something to do before time moves on: its input is live, *)
(* a frame or the end of the stream comes in every tick.                   *)
Overdue ==
    CASE snd.phase = "gone" -> FALSE
      [] snd.phase = "leading" -> snd.left = 0
      [] snd.phase = "draining" -> snd.left = 0 \/ ~snd.served
      [] OTHER -> ~snd.served

(* Time moves on once both loops have run in this tick.                    *)
Tick ==
    /\ ~Overdue
    /\ rcv.passed \/ rcv.ended
    /\ \A m \in net : Dead(m) \/ Unread(m) \/ m.age < MaxDelay
    /\ net' = {[m EXCEPT !.age = IF @ < MaxDelay THEN @ + 1 ELSE @] :
                  m \in {d \in net : ~Dead(d)}}
    /\ snd' = [snd EXCEPT !.served = FALSE, !.report = Down(@),
                          !.left = Down(@),
                          !.history = [i \in DOMAIN @ |-> Held(@[i], Keep)]]
    /\ rcv' = [rcv EXCEPT !.passed = FALSE, !.check = 0,
                          !.buffer = [e \in DOMAIN @ |-> Held(@[e], Hold)],
                          !.holes = [s \in DOMAIN @ |-> Waited(@[s])]]
    /\ UNCHANGED <<out, faults>>

Init ==
    /\ \E offset \in Offsets : snd = NewSender(1, offset, MaxSent)
    /\ rcv = [highest |-> None, next |-> None, released |-> FALSE, buffer |-> NoPackets,
              holes |-> NoHoles, goodbye |-> FALSE, media |-> None, previous |-> None,
              dest |-> None, check |-> 0, passed |-> FALSE, ended |-> FALSE,
              forced |-> FALSE]
    /\ net = {}
    /\ out = <<>>
    /\ faults = [count |-> 0, crashed |-> {}]

Next ==
    \/ Announce \/ SendFrame \/ SendEos \/ Drain \/ SayGoodbye \/ Crash \/ Restart
    \/ Pass \/ Lose \/ Tick

Spec == Init /\ [][Next]_vars
-----------------------------------------------------------------------------
(* Properties.                                                             *)

(* Every variable holds a value of its kind.                               *)
Packets == [life : Lives, num : Numbers]
TypeOK ==
    /\ snd.life \in Lives
    /\ snd.phase \in {"new", "leading", "sending", "draining", "gone"}
    /\ snd.offset \in Offsets
    /\ snd.sent \in 0 .. MaxSent /\ snd.input \in 0 .. MaxSent
    /\ snd.base \in 0 .. Period - 1
    /\ snd.history \in Seq([num : Numbers, age : 0 .. Keep + 1])
    /\ snd.report \in 0 .. ReportEvery
    /\ snd.left \in Nat
    /\ \A m \in net : m.life \in Lives /\ m.age \in 0 .. MaxDelay
    /\ {rcv.media, rcv.previous, rcv.dest} \subseteq Lives \cup {None}
    /\ \A e \in DOMAIN rcv.buffer :
          rcv.buffer[e] \in [life : {rcv.media}, num : Numbers, age : 0 .. Hold + 1]
    /\ \A s \in DOMAIN rcv.holes :
          rcv.holes[s] \in [wait : Nat, asked : 0 .. MaxRequests]
    /\ out \in Seq(Packets)
    /\ faults \in [count : 0 .. MaxFaults, crashed : SUBSET Lives]

(* Packets go downstream in the order they were sent, none twice, however  *)
(* they were delayed, repeated or asked for again and wherever the numbers *)
(* wrap; and a receiver that has followed a restarted sender stays with it *)
(* ("a restarted sender's old SSRC, whose late packets must not switch the *)
(* stream back").                                                          *)
ReleasedInOrder ==
    /\ [](\A i, j \in DOMAIN out :
              i < j => \/ out[i].life < out[j].life
                       \/ out[i].life = out[j].life /\ out[i].num < out[j].num)
    /\ [][rcv.previous # None /\ rcv.previous < rcv.media
              => rcv'.media >= rcv.media]_vars

(* What the network loses is asked for and resent in time: the stream of a *)
(* sender that did not crash has no gap, unless a full buffer forced one.  *)
LossesRecovered ==
    \A i \in 1 .. Len(out) - 1 :
        \/ out[i].life # out[i + 1].life
        \/ out[i].num + 1 = out[i + 1].num
        \/ out[i].life \in faults.crashed
        \/ rcv.forced

(* No packet stays longer than the receiver buffer: a retransmission that  *)
(* comes late does not push back the packets behind it.                    *)
OutputOnTime ==
    \A e \in DOMAIN rcv.buffer :
        rcv.buffer[e].age < Hold \/ (rcv.buffer[e].age = Hold /\ ~rcv.passed)

(* No late packet switches the receiver to a sender older than the one it  *)
(* receives, whether or not it had received the older one.                 *)
NeverSwitchedBack == [][rcv'.media >= rcv.media]_vars
=============================================================================
