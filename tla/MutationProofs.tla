--------------------------- MODULE MutationProofs ---------------------------
(***************************************************************************)
(* Proofs about changing a running graph at one edge, for every number of  *)
(* operations, frames and faults and every link capacity.                  *)
(***************************************************************************)
EXTENDS Mutation, FiniteSetTheorems, TLAPS

Frames == [id : Nat, seq : Int]

EndpointFields ==
    {"pending", "park", "parked", "detached", "staged", "gone", "claimed", "drain",
     "retired", "producer", "mutator", "last", "after", "shift"}

EndpointOK(ep) ==
    /\ DOMAIN ep = EndpointFields
    /\ ep.pending \in BOOLEAN /\ ep.park \in BOOLEAN /\ ep.parked \in BOOLEAN
    /\ ep.gone \in BOOLEAN /\ ep.claimed \in BOOLEAN /\ ep.drain \in BOOLEAN
    /\ ep.producer \in BOOLEAN /\ ep.mutator \in BOOLEAN
    /\ ep.detached \in LinkOrDead /\ ep.staged \in LinkOrDead
    /\ ep.last \in Int /\ ep.after \in Int /\ ep.shift \in Int

(* Where the service is: it waits for the producer to park, it has parked  *)
(* it, or it waits for the answer to a set.                                *)
Parking == {"detach", "asleep", "cancel"}
Stages == {"insert", "spliced", "remove", "drop", "detachOwn", "asleepOwn",
           "awaitElement", "replace"}
Setting == {"answer", "answerLate"}

ProdOK ==
    /\ DOMAIN prod = {"pc", "link", "raw"}
    /\ prod.pc \in {"gate", "waiting", "send", "returned", "over"}
    /\ prod.link \in LinkOrDead /\ prod.raw \in Nat

ElemOK ==
    /\ DOMAIN elem = {"pc", "in", "out", "held", "done"}
    /\ elem.pc \in {"none", "recv", "set", "returned", "over"}
    /\ elem.in \in LinkOrDead /\ elem.out \in LinkOrDead
    /\ elem.held \in Seq(Frames) /\ elem.done \in BOOLEAN
    /\ elem.pc \in {"recv", "set"} => elem.in # Dead /\ elem.out # Dead

(* The service has a link in hand from the park to the resume, but for the *)
(* while in which a remove has dropped the feed and waits for the output.  *)
SvcOK ==
    /\ DOMAIN svc = {"pc", "op", "hand", "ops", "before", "result"}
    /\ svc.pc \in Parking \cup Stages \cup Setting \cup {"idle", "awaitSource"}
    /\ svc.hand \in LinkOrDead /\ svc.ops \in 0..MaxOps /\ svc.before \in LinkOrDead
    /\ svc.pc \in Parking \cup Stages => svc.op \in {"insert", "remove", "replace"}
    /\ svc.pc \in {"insert", "spliced", "remove", "drop", "awaitElement", "replace",
                   "awaitSource"} => svc.hand # Dead

MailOK ==
    /\ DOMAIN mail = {"pending", "request", "applied", "withdrawn"}
    /\ mail.pending \in BOOLEAN /\ mail.request \in Nat
    /\ mail.applied \subseteq Nat /\ mail.withdrawn \subseteq Nat

LinksOK ==
    /\ DOMAIN cons = {"pc", "got"}
    /\ cons.pc \in {"recv", "ended"} /\ cons.got \in Seq(Frames)
    /\ queue \in [Links -> Seq(Frames)]
    /\ made \in Nat /\ lost \subseteq Nat /\ faults \in Nat

Typed ==
    /\ EndpointOK(up) /\ EndpointOK(own)
    /\ ProdOK /\ ElemOK /\ SvcOK /\ MailOK /\ LinksOK

-----------------------------------------------------------------------------
(* Dead is no link; a fresh link is one.                                   *)
LEMMA LinkFacts ==
  /\ Dead \in LinkOrDead /\ Dead \notin Links
  /\ Links \subseteq LinkOrDead /\ 1 \in Links
  /\ \A l \in LinkOrDead : l # Dead => l \in Links
  /\ \A n \in 0..MaxOps : n + 1 \in Links
  BY MutationAssumption DEF Dead, Links, LinkOrDead

(* Renumbering keeps numbers numbers.                                      *)
LEMMA ObservedType ==
  ASSUME NEW ep, EndpointOK(ep), NEW seq \in Int
  PROVE  /\ Shift(ep, seq) \in Int
         /\ EndpointOK(Observed(ep, seq))
<1>1. Shift(ep, seq) \in Int
  BY DEF EndpointOK, Shift, None
<1> QED BY <1>1 DEF EndpointOK, EndpointFields, None, Observed

(* An endpoint is one again when its producer ends, ...                    *)
LEMMA GoneType ==
  ASSUME NEW ep, EndpointOK(ep), NEW link \in LinkOrDead
  PROVE  EndpointOK(Gone(ep, link))
  BY DEF Gone, EndpointOK, EndpointFields

(* ... when it is new, ...                                                 *)
LEMMA FreshType ==
  ASSUME NEW after \in Int
  PROVE  EndpointOK(Endpoint(after))
  BY LinkFacts DEF Endpoint, EndpointOK, EndpointFields, None

(* ... and when its producer is let go.                                    *)
LEMMA UnparkedType ==
  ASSUME NEW ep, EndpointOK(ep), NEW link \in LinkOrDead
  PROVE  EndpointOK(Unparked(ep, link))
  BY DEF Unparked, EndpointOK, EndpointFields

(* A packet more ...                                                       *)
LEMMA PutType ==
  ASSUME LinksOK, NEW l \in Links, NEW f \in Frames
  PROVE  [queue EXCEPT ![l] = Append(@, f)] \in [Links -> Seq(Frames)]
  BY DEF LinksOK

(* ... or one less, ...                                                    *)
LEMMA TakeType ==
  ASSUME LinksOK, NEW l \in Links, queue[l] # << >>
  PROVE  /\ [queue EXCEPT ![l] = Tail(@)] \in [Links -> Seq(Frames)]
         /\ Head(queue[l]) \in Frames
  BY DEF LinksOK

(* ... or one moved from a link to another.                                *)
LEMMA MoveType ==
  ASSUME LinksOK, NEW l \in Links, NEW m \in Links, NEW f \in Frames, queue[l] # << >>
  PROVE  [queue EXCEPT ![l] = Tail(@), ![m] = Append(@, f)] \in [Links -> Seq(Frames)]
<1>1. \A k \in Links : queue[k] \in Seq(Frames)
  BY DEF LinksOK
<1>2. Tail(queue[l]) \in Seq(Frames)
  BY <1>1
<1>3. \A q \in Seq(Frames) : Append(q, f) \in Seq(Frames)
  OBVIOUS
<1> QED BY <1>1, <1>2, <1>3 DEF LinksOK

(* What an action leaves alone keeps its type.                             *)
LEMMA StillOK ==
  ASSUME Typed
  PROVE  /\ up' = up => EndpointOK(up)'
         /\ own' = own => EndpointOK(own)'
         /\ prod' = prod => ProdOK'
         /\ elem' = elem => ElemOK'
         /\ svc' = svc => SvcOK'
         /\ mail' = mail => MailOK'
         /\ UNCHANGED <<cons, queue, made, lost, faults>> => LinksOK'
<1>1. ASSUME up' = up PROVE EndpointOK(up)'
  BY <1>1 DEF Typed, EndpointOK
<1>2. ASSUME own' = own PROVE EndpointOK(own)'
  BY <1>2 DEF Typed, EndpointOK
<1>3. ASSUME prod' = prod PROVE ProdOK'
  BY <1>3 DEF Typed, ProdOK
<1>4. ASSUME elem' = elem PROVE ElemOK'
  BY <1>4 DEF Typed, ElemOK
<1>5. ASSUME svc' = svc PROVE SvcOK'
  BY <1>5 DEF Typed, SvcOK
<1>6. ASSUME mail' = mail PROVE MailOK'
  BY <1>6 DEF Typed, MailOK
<1>7. ASSUME UNCHANGED <<cons, queue, made, lost, faults>> PROVE LinksOK'
  BY <1>7 DEF Typed, LinksOK
<1> QED BY <1>1, <1>2, <1>3, <1>4, <1>5, <1>6, <1>7

(* The source arm keeps the types.                                         *)
LEMMA ProducerTyped ==
  ASSUME Typed, ProducerNext
  PROVE  Typed'
<1> USE LinkFacts DEF Typed
<1>1. CASE ProducerGate
  <2>1. UNCHANGED <<own, elem, cons, queue, made, lost, faults, mail>>
    BY <1>1 DEF ProducerGate
  <2>2. NextLink \in LinkOrDead
    BY DEF NextLink, ProdOK, EndpointOK
  <2>3. EndpointOK(up)'
    <3>1. CASE ~up.pending
      BY <1>1, <3>1, StillOK DEF ProducerGate
    <3>2. CASE up.pending /\ up.park
      <4> DEFINE stays == up.parked /\ up.staged = Dead
      <4>1. up' = [up EXCEPT !.staged = Dead, !.parked = TRUE,
                       !.detached = IF stays THEN @ ELSE NextLink,
                       !.mutator = @ /\ stays, !.producer = TRUE]
        BY <1>1, <3>2 DEF ProducerGate
      <4>2. stays \in BOOLEAN
        BY DEF EndpointOK
      <4> HIDE DEF stays
      <4> QED BY <2>2, <4>1, <4>2 DEF EndpointOK, EndpointFields
    <3>3. CASE up.pending /\ ~up.park
      BY <1>1, <2>2, <3>3 DEF ProducerGate, EndpointOK, EndpointFields
    <3> QED BY <3>1, <3>2, <3>3 DEF EndpointOK
  <2>4. ProdOK'
    BY <1>1, <2>2 DEF ProducerGate, ProdOK
  <2>5. SvcOK'
    BY <1>1 DEF ProducerGate, SvcOK, Parking, Stages
  <2> QED BY <2>1, <2>3, <2>4, <2>5, StillOK
<1>2. CASE SendFrame
  <2>1. UNCHANGED <<own, elem, cons, svc, lost, faults, mail>>
    BY <1>2 DEF SendFrame
  <2>2. EndpointOK(up)' /\ Shift(up, prod.raw) \in Int
    BY <1>2, ObservedType DEF SendFrame, ProdOK
  <2>3. ProdOK'
    BY <1>2 DEF SendFrame, ProdOK
  <2>4. [id |-> made + 1, seq |-> prod.raw + Shift(up, prod.raw)] \in Frames
    BY <2>2 DEF Frames, LinksOK, ProdOK
  <2>5. LinksOK'
    BY <1>2, <2>1, <2>4, PutType DEF SendFrame, LinksOK, ProdOK
  <2> QED BY <2>1, <2>2, <2>3, <2>5, StillOK
<1>3. CASE SendEos \/ SendFails
  <2>1. UNCHANGED <<own, elem, cons, faults, mail>>
    BY <1>3 DEF SendEos, SendFails
  <2>2. EndpointOK(up)'
    BY <1>3, GoneType DEF SendEos, SendFails, ProdOK
  <2>3. ProdOK'
    BY <1>3 DEF SendEos, SendFails, ProdOK
  <2>4. SvcOK'
    BY <1>3 DEF SendEos, SendFails, SvcOK, WokenService, Parking, Stages
  <2>5. [id |-> 0, seq |-> None] \in Frames
    BY DEF Frames, None
  <2>6. LinksOK'
    <3>1. CASE SendEos
      <4>1. prod.link \in Links
        BY <3>1 DEF SendEos, ProdOK
      <4>2. queue' \in [Links -> Seq(Frames)] /\ made' = made /\ lost' = lost
        BY <2>5, <3>1, <4>1, PutType DEF SendEos
      <4> QED BY <2>1, <4>2 DEF LinksOK
    <3>2. CASE SendFails
      <4>1. queue' = queue /\ made' \in Nat /\ lost' \subseteq Nat
        BY <3>2 DEF SendFails, LinksOK
      <4> QED BY <2>1, <4>1 DEF LinksOK
    <3> QED BY <1>3, <3>1, <3>2
  <2> QED BY <2>1, <2>2, <2>3, <2>4, <2>6, StillOK
<1>4. CASE SourceHandback
  <2>1. ProdOK' /\ UNCHANGED <<up, own, elem, cons, queue, svc, made, lost, faults, mail>>
    BY <1>4 DEF SourceHandback, ProdOK
  <2> QED BY <2>1, StillOK
<1> QED BY <1>1, <1>2, <1>3, <1>4 DEF ProducerNext

(* So do the element and the consumer.                                     *)
LEMMA ElementTyped ==
  ASSUME Typed, ElementNext \/ ElementFails \/ Consume
  PROVE  Typed'
<1> USE LinkFacts DEF Typed
<1>1. CASE DrainTakes
  <2>1. UNCHANGED <<up, own, prod, cons, queue, svc, made, lost, faults>>
    BY <1>1 DEF DrainTakes
  <2>2. MailOK' /\ ElemOK'
    BY <1>1 DEF DrainTakes, MailOK, ElemOK
  <2> QED BY <2>1, <2>2, StillOK
<1>2. CASE DrainAnswers
  <2>1. UNCHANGED <<up, own, prod, cons, queue, made, lost, faults, mail>>
    BY <1>2 DEF DrainAnswers
  <2>2. SvcOK' /\ ElemOK'
    BY <1>2 DEF DrainAnswers, SvcOK, ElemOK, Finish, Parking, Stages
  <2> QED BY <2>1, <2>2, StillOK
<1>3. ASSUME elem.pc = "recv", elem.held # << >>
      PROVE  /\ elem.held[1] \in Frames /\ elem.held[1].seq \in Int
             /\ Emit(elem.held[1]) \in Frames
             /\ EndpointOK(Observed(own, elem.held[1].seq))
  <2>1. elem.held[1] \in Frames
    BY <1>3 DEF ElemOK
  <2>2. elem.held[1].seq \in Int /\ elem.held[1].id \in Nat
    BY <2>1 DEF Frames
  <2>3. Shift(own, elem.held[1].seq) \in Int
        /\ EndpointOK(Observed(own, elem.held[1].seq))
    BY <2>2, ObservedType
  <2> QED BY <2>1, <2>2, <2>3 DEF Emit, Frames
<1>4. CASE ElementFrame
  <2>1. UNCHANGED <<up, prod, cons, svc, made, lost, faults, mail>>
        /\ elem.pc = "recv" /\ queue[elem.in] # << >>
        /\ elem.in \in Links /\ elem.out \in Links
    BY <1>4 DEF ElementFrame, ElemOK
  <2>2. ElemOK'
    <3>1. Head(queue[elem.in]) \in Frames
      BY <2>1, TakeType
    <3> QED BY <1>4, <3>1 DEF ElementFrame, ElemOK
  <2>3. CASE elem.held = << >>
    <3>1. queue' \in [Links -> Seq(Frames)] /\ own' = own
      BY <1>4, <2>1, <2>3, TakeType DEF ElementFrame
    <3>2. LinksOK'
      BY <2>1, <3>1 DEF LinksOK
    <3> QED BY <2>1, <2>2, <3>1, <3>2, StillOK
  <2>4. CASE elem.held # << >>
    <3>1. EndpointOK(own)'
      BY <1>3, <1>4, <2>1, <2>4 DEF ElementFrame
    <3>2. queue' = [queue EXCEPT ![elem.in] = Tail(@),
                        ![elem.out] = Append(@, Emit(elem.held[1]))]
      BY <1>4, <2>4 DEF ElementFrame
    <3>3. queue' \in [Links -> Seq(Frames)]
      BY <1>3, <2>1, <2>4, <3>2, MoveType
    <3>4. LinksOK'
      BY <2>1, <3>3 DEF LinksOK
    <3> QED BY <2>1, <2>2, <3>1, <3>4, StillOK
  <2> QED BY <2>3, <2>4
<1>5. CASE ElementFlush
  <2>1. UNCHANGED <<up, prod, cons, svc, made, lost, faults, mail>>
        /\ elem.pc = "recv" /\ elem.held # << >> /\ elem.out \in Links
    BY <1>5 DEF ElementFlush, ElemOK
  <2>2. EndpointOK(own)' /\ queue' \in [Links -> Seq(Frames)]
    BY <1>3, <1>5, <2>1, PutType DEF ElementFlush
  <2>3. ElemOK'
    BY <1>5 DEF ElementFlush, ElemOK
  <2>4. LinksOK'
    BY <2>1, <2>2 DEF LinksOK
  <2> QED BY <2>1, <2>2, <2>3, <2>4, StillOK
<1>6. ASSUME ElementGone, elem.pc = "recv"
      PROVE  EndpointOK(own)' /\ ElemOK' /\ SvcOK'
  <2>1. EndpointOK(own)'
    BY <1>6, GoneType DEF ElementGone, ElemOK
  <2>2. ElemOK'
    BY <1>6 DEF ElementGone, ElemOK
  <2>3. SvcOK'
    BY <1>6 DEF ElementGone, SvcOK, WokenService, Parking, Stages
  <2> QED BY <2>1, <2>2, <2>3
<1>7. CASE ElementEnds
  <2>1. UNCHANGED <<up, prod, cons, made, lost, faults, mail>>
        /\ elem.pc = "recv" /\ elem.in \in Links /\ elem.out \in Links /\ ElementGone
    BY <1>7 DEF ElementEnds, ElemOK
  <2>2. [id |-> 0, seq |-> None] \in Frames
    BY DEF Frames, None
  <2>3. queue' \in [Links -> Seq(Frames)]
    <3>1. CASE queue' = [queue EXCEPT ![elem.in] = Tail(@),
                             ![elem.out] = Append(@, [id |-> 0, seq |-> None])]
               /\ queue[elem.in] # << >>
      BY <2>1, <2>2, <3>1, MoveType
    <3> QED BY <1>7, <3>1 DEF ElementEnds, LinksOK
  <2>4. LinksOK'
    BY <2>1, <2>3 DEF LinksOK
  <2> QED BY <1>6, <2>1, <2>4, StillOK
<1>8. CASE ElementFails
  <2>1. UNCHANGED <<up, prod, cons, made, mail>>
        /\ elem.pc = "recv" /\ elem.in \in Links /\ ElementGone
        /\ faults' = faults + 1
    BY <1>8 DEF ElementFails, ElemOK
  <2>2. queue' \in [Links -> Seq(Frames)]
    BY <1>8, <2>1 DEF ElementFails, LinksOK
  <2>3. lost' \subseteq Nat
    <3> DEFINE q == elem.held \o queue[elem.in]
    <3>1. q \in Seq(Frames)
      BY <2>1 DEF ElemOK, LinksOK
    <3> HIDE DEF q
    <3>2. \A f \in Range(q) : f.id \in Nat
      <4>1. \A k \in DOMAIN q : q[k] \in Frames
        BY <3>1
      <4> QED BY <4>1 DEF Range, Frames
    <3>3. lost' = lost \cup ({f.id : f \in Range(q)} \ {0})
      BY <1>8 DEF ElementFails, q
    <3> QED BY <3>2, <3>3 DEF LinksOK
  <2>4. LinksOK'
    BY <2>1, <2>2, <2>3 DEF LinksOK
  <2> QED BY <1>6, <2>1, <2>4, StillOK
<1>9. CASE ElementHandback
  <2>1. ElemOK' /\ UNCHANGED <<up, own, prod, cons, queue, svc, made, lost, faults, mail>>
    BY <1>9 DEF ElementHandback, ElemOK
  <2> QED BY <2>1, StillOK
<1>10. CASE Consume
  <2>1. UNCHANGED <<up, own, prod, elem, svc, made, lost, faults, mail>>
    BY <1>10 DEF Consume
  <2>2. CASE queue[1] # << >>
    <3>1. Head(queue[1]) \in Frames /\ queue' \in [Links -> Seq(Frames)]
      BY <1>10, <2>2, TakeType DEF Consume
    <3>2. CASE Head(queue[1]).id = 0
      <4>1. cons' = [cons EXCEPT !.pc = "ended"]
        BY <1>10, <2>2, <3>2 DEF Consume
      <4> QED BY <2>1, <3>1, <4>1, StillOK DEF LinksOK
    <3>3. CASE Head(queue[1]).id # 0
      <4>1. cons' = [cons EXCEPT !.got = Append(@, Head(queue[1]))]
        BY <1>10, <2>2, <3>3 DEF Consume
      <4>2. DOMAIN cons' = {"pc", "got"} /\ cons'.pc = cons.pc
            /\ cons'.got = Append(cons.got, Head(queue[1]))
        BY <4>1 DEF LinksOK
      <4>3. LinksOK'
        BY <2>1, <3>1, <4>2 DEF LinksOK
      <4> QED BY <2>1, <4>3, StillOK
    <3> QED BY <3>2, <3>3
  <2>3. CASE queue[1] = << >>
    <3>1. cons' = [cons EXCEPT !.pc = "ended"] /\ queue' = queue
      BY <1>10, <2>3 DEF Consume
    <3>2. LinksOK'
      BY <2>1, <3>1 DEF LinksOK
    <3> QED BY <2>1, <3>2, StillOK
  <2> QED BY <2>2, <2>3
<1> QED BY <1>1, <1>2, <1>4, <1>5, <1>7, <1>8, <1>9, <1>10 DEF ElementNext

(* And the service.                                                        *)
LEMMA ServiceTyped ==
  ASSUME Typed,
         \/ ServiceNext \/ BeginSet \/ DeadlinePasses \/ Withdraw
         \/ \E op \in Ops \ {"set"} : Begin(op)
  PROVE  Typed'
<1> USE LinkFacts DEF Typed
<1>0. NextLink \in LinkOrDead
  BY DEF NextLink, ProdOK, EndpointOK
<1>1. ASSUME prod' = WokenProducer PROVE ProdOK'
  BY <1>1 DEF WokenProducer, ProdOK
<1>2. ASSUME elem' = Restored PROVE ElemOK'
  BY <1>2 DEF Restored, ElemOK
<1>3. ASSUME NEW result, svc' = Finish(result) PROVE SvcOK'
  BY <1>3 DEF Finish, SvcOK, Parking, Stages
<1>4. ASSUME NEW op \in Ops \ {"set"}, Begin(op) PROVE Typed'
  <2>1. op \in {"insert", "remove", "replace"}
    BY <1>4, MutationAssumption
  <2>2. SvcOK'
    <3>1. /\ svc.ops < MaxOps
          /\ svc' = [svc EXCEPT !.pc = "detach", !.op = op, !.ops = svc.ops + 1,
                        !.result = "none", !.before = NextLink]
      BY <1>4 DEF Begin
    <3>2. svc.ops + 1 \in 0..MaxOps
      BY <3>1, MutationAssumption DEF SvcOK
    <3> QED BY <1>0, <2>1, <3>1, <3>2 DEF SvcOK, Parking, Stages
  <2>3. EndpointOK(up)'
    BY <1>4 DEF Begin, EndpointOK, EndpointFields
  <2>4. ElemOK'
    BY <1>4 DEF Begin, ElemOK
  <2>5. UNCHANGED <<own, prod, cons, queue, made, lost, faults, mail>>
    BY <1>4 DEF Begin
  <2> QED BY <2>2, <2>3, <2>4, <2>5, StillOK
<1>5. CASE PollDetached
  <2>1. UNCHANGED <<own, prod, cons, queue, made, lost, faults, mail>>
    BY <1>5 DEF PollDetached
  <2>2. EndpointOK(up)'
    BY <1>5, StillOK DEF PollDetached, EndpointOK, EndpointFields
  <2>3. SvcOK'
    <3>1. CASE up.detached # Dead
      <4>1. svc' = [svc EXCEPT !.pc = svc.op, !.hand = up.detached] /\ svc.pc = "detach"
        BY <1>5, <3>1 DEF PollDetached
      <4>2. up.detached \in LinkOrDead
        BY DEF EndpointOK
      <4> QED BY <3>1, <4>1, <4>2 DEF SvcOK, Parking, Stages
    <3>2. CASE up.detached = Dead /\ up.gone
      BY <1>3, <1>5, <3>2 DEF PollDetached
    <3>3. CASE up.detached = Dead /\ ~up.gone
      BY <1>5, <3>3 DEF PollDetached, SvcOK, Parking, Stages
    <3> QED BY <3>1, <3>2, <3>3
  <2>4. ElemOK'
    BY <1>2, <1>5, StillOK DEF PollDetached
  <2> QED BY <2>1, <2>2, <2>3, <2>4, StillOK
<1>6. CASE DeadlinePasses
  <2>1. SvcOK' /\ UNCHANGED <<up, own, prod, elem, cons, queue, made, lost, faults, mail>>
    BY <1>6 DEF DeadlinePasses, SvcOK, Parking, Stages
  <2> QED BY <2>1, StillOK
<1>7. CASE CancelPark
  <2>1. EndpointOK(up)'
    BY <1>7 DEF CancelPark, EndpointOK, EndpointFields
  <2>2. /\ prod' = WokenProducer /\ svc' = Finish("TimedOut") /\ elem' = Restored
        /\ UNCHANGED <<own, cons, queue, made, lost, faults, mail>>
    BY <1>7 DEF CancelPark
  <2> QED BY <1>1, <1>2, <1>3, <2>1, <2>2, StillOK
<1>8. CASE BeginSet
  <2>1. SvcOK'
    BY <1>0, <1>8, MutationAssumption DEF BeginSet, SvcOK, Parking, Stages, Setting
  <2>2. MailOK' /\ UNCHANGED <<up, own, prod, elem, cons, queue, made, lost, faults>>
    BY <1>8 DEF BeginSet, MailOK, SvcOK
  <2> QED BY <2>1, <2>2, StillOK
<1>9. CASE Withdraw
  <2>1. UNCHANGED <<up, own, prod, elem, cons, queue, made, lost, faults>>
    BY <1>9 DEF Withdraw
  <2>2. CASE mail.request # 0
    <3>1. /\ svc' = Finish("TimedOut")
          /\ mail' = [mail EXCEPT !.request = 0,
                         !.withdrawn = mail.withdrawn \cup {mail.request}]
      BY <1>9, <2>2 DEF Withdraw
    <3>2. MailOK'
      BY <3>1 DEF MailOK
    <3> QED BY <1>3, <2>1, <3>1, <3>2, StillOK
  <2>3. CASE mail.request = 0
    <3>1. SvcOK' /\ mail' = mail
      BY <1>9, <2>3 DEF Withdraw, SvcOK, Parking, Stages, Setting
    <3> QED BY <2>1, <3>1, StillOK
  <2> QED BY <2>2, <2>3
<1>10. CASE Splice
  <2>1. UNCHANGED <<up, prod, cons, queue, made, lost, faults>>
    BY <1>10 DEF Splice
  <2>2. svc.ops + 1 \in Links /\ svc.hand \in Links
    BY <1>10 DEF Splice, SvcOK
  <2>3. EndpointOK(own)'
    BY <1>10, FreshType DEF Splice, EndpointOK
  <2>4. ElemOK'
    <3>1. << >> \in Seq(Frames)
      OBVIOUS
    <3> QED BY <1>10, <2>2, <3>1 DEF Splice, ElemOK
  <2>5. SvcOK' /\ MailOK'
    BY <1>10, <2>2 DEF Splice, SvcOK, MailOK, Parking, Stages
  <2> QED BY <2>1, <2>3, <2>4, <2>5, StillOK
<1>11. CASE SpliceUnpark
  <2>1. /\ EndpointOK(up)' /\ prod' = WokenProducer /\ svc' = Finish("Ok")
        /\ UNCHANGED <<own, elem, cons, queue, made, lost, faults, mail>>
    BY <1>11, UnparkedType DEF SpliceUnpark, SvcOK
  <2> QED BY <1>1, <1>3, <2>1, StillOK
<1>12. CASE Claim
  <2>1. /\ EndpointOK(own)' /\ SvcOK'
        /\ UNCHANGED <<up, prod, elem, cons, queue, made, lost, faults, mail>>
    BY <1>12 DEF Claim, SvcOK, Parking, Stages, EndpointOK, EndpointFields
  <2> QED BY <2>1, StillOK
<1>13. CASE DropFeed
  <2>1. SvcOK' /\ UNCHANGED <<up, own, prod, elem, cons, queue, made, lost, faults, mail>>
    BY <1>13 DEF DropFeed, SvcOK, Parking, Stages
  <2> QED BY <2>1, StillOK
<1>14. CASE PollOwn
  <2>1. UNCHANGED <<elem, cons, queue, made, lost, faults, mail>>
    BY <1>14 DEF PollOwn
  <2>2. CASE own.detached # Dead
    <3>1. own.detached \in LinkOrDead
      BY DEF EndpointOK
    <3>2. SvcOK'
      BY <1>14, <2>2, <3>1 DEF PollOwn, SvcOK, Parking, Stages
    <3>3. EndpointOK(own)' /\ UNCHANGED <<up, prod>>
      BY <1>14, <2>2 DEF PollOwn, EndpointOK, EndpointFields
    <3> QED BY <2>1, <3>2, <3>3, StillOK
  <2>3. CASE own.detached = Dead /\ own.gone
    <3>1. EndpointOK(up)' /\ prod' = WokenProducer /\ svc' = Finish("GraphEnded")
          /\ own' = own
      BY <1>14, <2>3, UnparkedType DEF PollOwn
    <3> QED BY <1>1, <1>3, <2>1, <3>1, StillOK
  <2>4. CASE own.detached = Dead /\ ~own.gone
    <3>1. SvcOK'
      BY <1>14, <2>4 DEF PollOwn, SvcOK, Parking, Stages
    <3>2. EndpointOK(own)' /\ UNCHANGED <<up, prod>>
      BY <1>14, <2>4 DEF PollOwn, EndpointOK, EndpointFields
    <3> QED BY <2>1, <3>1, <3>2, StillOK
  <2> QED BY <2>2, <2>3, <2>4
<1>15. CASE Bypass
  <2>1. svc.hand \in LinkOrDead
    BY DEF SvcOK
  <2>2. EndpointOK(Unparked(up, svc.hand)) /\ own.last \in Int
    BY <2>1, UnparkedType DEF EndpointOK
  <2>3. EndpointOK(up)'
    BY <1>15, <2>2 DEF Bypass, EndpointOK, EndpointFields
  <2>4. ElemOK'
    <3>1. << >> \in Seq(Frames)
      OBVIOUS
    <3> QED BY <1>15, <3>1 DEF Bypass, ElemOK, NoElement
  <2>5. prod' = WokenProducer /\ svc' = Finish("Ok")
        /\ UNCHANGED <<own, cons, queue, made, lost, faults, mail>>
    BY <1>15 DEF Bypass
  <2> QED BY <1>1, <1>3, <2>3, <2>4, <2>5, StillOK
<1>16. CASE Retire
  <2>1. EndpointOK(Unparked(up, Dead))
    BY UnparkedType
  <2>2. EndpointOK(up)'
    BY <1>16, <2>1 DEF Retire, EndpointOK, EndpointFields
  <2>3. SvcOK'
    BY <1>16 DEF Retire, SvcOK, Parking, Stages
  <2>4. prod' = WokenProducer /\ UNCHANGED <<own, elem, cons, queue, made, lost, faults, mail>>
    BY <1>16 DEF Retire
  <2> QED BY <1>1, <2>2, <2>3, <2>4, StillOK
<1>17. CASE Rehome
  <2>1. EndpointOK(Endpoint(up.last))
    BY FreshType DEF EndpointOK
  <2>2. EndpointOK(up)'
    BY <1>17, <2>1 DEF Rehome, EndpointOK, EndpointFields
  <2>3. ProdOK'
    BY <1>17 DEF Rehome, ProdOK, SvcOK
  <2>4. svc' = Finish("Ok") /\ UNCHANGED <<own, elem, cons, queue, made, lost, faults, mail>>
    BY <1>17 DEF Rehome
  <2> QED BY <1>3, <2>2, <2>3, <2>4, StillOK
<1> QED BY <1>4, <1>5, <1>6, <1>7, <1>8, <1>9, <1>10, <1>11, <1>12, <1>13, <1>14, <1>15,
        <1>16, <1>17 DEF ServiceNext

(* An edge starts well typed ...                                           *)
LEMMA InitTyped == Init => Typed
<1> SUFFICES ASSUME Init PROVE Typed
  OBVIOUS
<1> USE LinkFacts DEF Init
<1>1. EndpointOK(up) /\ EndpointOK(own)
  BY FreshType DEF None
<1>2. << >> \in Seq(Frames)
  OBVIOUS
<1>3. ProdOK /\ ElemOK
  BY <1>2 DEF ProdOK, ElemOK, NoElement
<1>4. SvcOK /\ MailOK
  BY MutationAssumption DEF SvcOK, MailOK, Parking, Stages
<1>5. LinksOK
  BY <1>2 DEF LinksOK
<1> QED BY <1>1, <1>3, <1>4, <1>5 DEF Typed

(* ... and stays so.                                                       *)
LEMMA StepTyped ==
  ASSUME Typed, [Next]_vars
  PROVE  Typed'
<1>1. CASE UNCHANGED vars
  BY <1>1, StillOK DEF vars, Typed
<1>2. CASE Next
  BY <1>2, ProducerTyped, ElementTyped, ServiceTyped DEF Next
<1> QED BY <1>1, <1>2

-----------------------------------------------------------------------------
(* Where the sender of a link can be: the four places above the element,   *)
(* then its output and what a claim left behind.                           *)
Above == {prod.link, up.detached, up.staged, svc.hand}
Places == Above \cup {elem.out, own.detached}

(* Two places hold different links, or none.                               *)
Apart(a, B) == a \in B => a = Dead

PlacesApart ==
    /\ Apart(prod.link, {up.detached, up.staged, svc.hand, elem.out, own.detached})
    /\ Apart(up.detached, {up.staged, svc.hand, elem.out, own.detached})
    /\ Apart(up.staged, {svc.hand, elem.out, own.detached})
    /\ Apart(svc.hand, {elem.out, own.detached})
    /\ Apart(elem.out, {own.detached})

(* The next link an insert makes is not yet anywhere.                      *)
Newest == IF svc.pc \in Parking \cup {"insert"} THEN svc.ops ELSE svc.ops + 1

PlacesInv == PlacesApart /\ \A l \in Places : l <= Newest

Ended == {"returned", "over"}

(* What the park protocol keeps: the producer gives its link up when it    *)
(* parks, and nothing but the service that parked it holds or stages it.   *)
ParkInv ==
    /\ ~up.claimed
    /\ up.parked => prod.link = Dead
    /\ prod.pc = "waiting" => up.parked
    /\ up.detached # Dead =>
          prod.pc = "waiting" /\ up.staged = Dead /\ svc.pc \in Parking
    /\ up.staged # Dead => up.parked /\ up.pending /\ prod.pc \in {"gate", "waiting"}
    /\ svc.pc \in Stages => prod.pc = "waiting" /\ up.staged = Dead
    /\ svc.pc = "awaitSource" => up.parked /\ up.staged = Dead
    /\ up.gone => prod.pc \in Ended
    /\ up.park /\ svc.pc \notin Parking \cup Stages => prod.pc \in Ended

(* The link the producer pushes into unless an operation changes it.       *)
Target ==
    IF up.staged # Dead THEN up.staged
    ELSE IF up.detached # Dead THEN up.detached ELSE prod.link

TargetInv ==
    /\ svc.result = "TimedOut" => svc.pc = "idle"
    /\ svc.pc \in Parking \cup Setting \/ svc.result = "TimedOut" =>
          prod.pc \in Ended \/ Target = svc.before

(* A property request is pending, applied or withdrawn, one of the three.  *)
MailInv ==
    /\ mail.request # 0 => svc.pc = "answer" /\ mail.request = svc.ops
    /\ mail.applied \cup mail.withdrawn \subseteq 1..svc.ops
    /\ mail.request \notin mail.applied \cup mail.withdrawn
    /\ mail.applied \cap mail.withdrawn = {}
    /\ elem.pc = "set" => svc.pc \in Setting /\ mail.request = 0

-----------------------------------------------------------------------------
(* What the records are made of, and that the places hold numbers.         *)
Shaped ==
    /\ DOMAIN up = EndpointFields /\ DOMAIN own = EndpointFields
    /\ DOMAIN prod = {"pc", "link", "raw"}
    /\ DOMAIN elem = {"pc", "in", "out", "held", "done"}
    /\ DOMAIN svc = {"pc", "op", "hand", "ops", "before", "result"}
    /\ Places \subseteq Nat /\ svc.ops \in Nat

(* Typed states are shaped.                                                *)
LEMMA TypedShaped ==
  ASSUME Typed
  PROVE  Shaped
<1>1. LinkOrDead \subseteq Nat
  BY MutationAssumption DEF LinkOrDead, Links, Dead
<1>2. {up.detached, up.staged, own.detached} \subseteq Nat
  BY <1>1 DEF Typed, EndpointOK
<1>3. {prod.link, svc.hand, elem.out} \subseteq Nat
  BY <1>1 DEF Typed, ProdOK, SvcOK, ElemOK
<1>4. svc.ops \in Nat
  BY MutationAssumption DEF Typed, SvcOK
<1> QED BY <1>2, <1>3, <1>4 DEF Typed, EndpointOK, ProdOK, SvcOK, ElemOK, Shaped, Places, Above

(* Waking the service moves it on and changes nothing else of it.          *)
LEMMA WokenFacts ==
  ASSUME Shaped, NEW ep, NEW from, NEW to, svc' = WokenService(ep, from, to)
  PROVE  /\ svc'.pc = svc.pc \/ (svc.pc = from /\ svc'.pc = to)
         /\ svc'.hand = svc.hand /\ svc'.ops = svc.ops /\ svc'.op = svc.op
         /\ svc'.before = svc.before /\ svc'.result = svc.result
<1>1. CASE ep.mutator /\ svc.pc = from
  BY <1>1 DEF WokenService, Shaped
<1>2. CASE ~(ep.mutator /\ svc.pc = from)
  BY <1>2 DEF WokenService
<1> QED BY <1>1, <1>2

(* A request never leaves one of its three places for another twice.       *)
LEMMA MailStep ==
  ASSUME Typed, MailInv, Next
  PROVE  MailInv'
<1> USE TypedShaped DEF Shaped
<1>0. /\ DOMAIN mail = {"pending", "request", "applied", "withdrawn"}
      /\ mail.request \in Nat
      /\ svc.pc \in Parking \cup Stages \cup Setting \cup {"idle", "awaitSource"}
  BY DEF Typed, MailOK, SvcOK
<1>1. ASSUME UNCHANGED <<mail, elem>>, svc'.ops = svc.ops,
             svc'.pc = svc.pc \/ (svc.pc \notin Setting /\ svc'.pc \notin Setting)
      PROVE  MailInv'
  BY <1>1 DEF MailInv, Setting
<1>2. CASE ProducerNext
  <2>1. UNCHANGED <<mail, elem>>
    BY <1>2 DEF ProducerNext, ProducerGate, SendFrame, SendEos, SendFails, SourceHandback
  <2>2. CASE ProducerGate
    BY <1>1, <2>1, <2>2 DEF ProducerGate, Setting
  <2>3. CASE SendEos \/ SendFails
    <3>1. svc' = WokenService(up, "asleep", "detach")
      BY <2>3 DEF SendEos, SendFails
    <3> QED BY <1>1, <2>1, <3>1, WokenFacts DEF Setting
  <2>4. CASE SendFrame \/ SourceHandback
    <3>1. svc' = svc
      BY <2>4 DEF SendFrame, SourceHandback
    <3> QED BY <1>1, <2>1, <3>1
  <2> QED BY <1>2, <2>2, <2>3, <2>4 DEF ProducerNext
<1>3. CASE DrainTakes
  <2>1. svc' = svc /\ mail'.request = 0 /\ mail'.withdrawn = mail.withdrawn
        /\ mail'.applied = mail.applied \cup ({mail.request} \ {0})
    BY <1>0, <1>3 DEF DrainTakes
  <2>2. elem'.pc = "set" => mail.request # 0
    BY <1>3 DEF DrainTakes
  <2> QED BY <1>0, <2>1, <2>2 DEF MailInv, Setting
<1>4. CASE DrainAnswers
  <2>1. mail' = mail /\ elem'.pc = "recv" /\ svc'.ops = svc.ops /\ elem.pc = "set"
    BY <1>4 DEF DrainAnswers, Finish
  <2> QED BY <2>1 DEF MailInv
<1>5. CASE ElementFrame \/ ElementFlush
  <2>1. UNCHANGED <<mail, svc>> /\ elem'.pc = elem.pc
    BY <1>5 DEF ElementFrame, ElementFlush
  <2> QED BY <2>1 DEF MailInv
<1>6. CASE ElementEnds \/ ElementFails
  <2>1. /\ mail' = mail /\ elem'.pc = "returned"
        /\ svc' = WokenService(own, "asleepOwn", "detachOwn")
    BY <1>6 DEF ElementEnds, ElementFails, ElementGone
  <2> QED BY <2>1, WokenFacts DEF MailInv
<1>7. CASE ElementHandback \/ Consume
  <2>1. UNCHANGED <<mail, svc>> /\ elem'.pc \in {elem.pc, "over"}
    BY <1>7 DEF ElementHandback, Consume
  <2> QED BY <2>1 DEF MailInv
<1>8. ASSUME NEW op \in Ops, Begin(op)
      PROVE  MailInv'
  <2>1. mail' = mail /\ elem'.pc = elem.pc /\ svc'.ops = svc.ops + 1 /\ svc.pc = "idle"
    BY <1>8 DEF Begin
  <2> QED BY <2>1 DEF MailInv, Setting
<1>9. CASE BeginSet
  <2>1. /\ elem' = elem /\ svc'.ops = svc.ops + 1 /\ svc.pc = "idle" /\ svc'.pc = "answer"
        /\ mail'.request = svc.ops + 1
        /\ mail'.applied = mail.applied /\ mail'.withdrawn = mail.withdrawn
    BY <1>0, <1>9 DEF BeginSet
  <2> QED BY <2>1 DEF MailInv, Setting
<1>10. CASE Withdraw
  <2>1. CASE mail.request # 0
    <3>1. /\ elem' = elem /\ svc'.ops = svc.ops
          /\ mail'.request = 0 /\ mail'.applied = mail.applied
          /\ mail'.withdrawn = mail.withdrawn \cup {mail.request}
      BY <1>0, <1>10, <2>1 DEF Withdraw, Finish
    <3> QED BY <1>0, <2>1, <3>1 DEF MailInv
  <2>2. CASE mail.request = 0
    <3>1. UNCHANGED <<mail, elem>> /\ svc'.ops = svc.ops /\ svc'.pc = "answerLate"
      BY <1>10, <2>2 DEF Withdraw
    <3> QED BY <2>2, <3>1 DEF MailInv, Setting
  <2> QED BY <2>1, <2>2
<1>11. CASE PollDetached \/ CancelPark \/ DeadlinePasses
  <2>1. mail' = mail /\ elem'.pc = elem.pc /\ svc'.ops = svc.ops /\ svc.pc \notin Setting
    BY <1>11 DEF PollDetached, CancelPark, DeadlinePasses, Restored, Finish, Setting
  <2> QED BY <2>1 DEF MailInv, Setting
<1>12. CASE Splice
  <2>1. /\ svc'.ops = svc.ops /\ elem'.pc = "recv" /\ mail'.request = 0
        /\ mail'.applied = mail.applied /\ mail'.withdrawn = mail.withdrawn
    BY <1>0, <1>12 DEF Splice
  <2> QED BY <2>1 DEF MailInv
<1>13. CASE SpliceUnpark \/ Claim \/ DropFeed \/ PollOwn \/ Retire \/ Rehome
  <2>1. mail' = mail /\ elem' = elem /\ svc'.ops = svc.ops /\ svc.pc \notin Setting
    BY <1>13 DEF SpliceUnpark, Claim, DropFeed, PollOwn, Retire, Rehome, Finish, Setting
  <2> QED BY <2>1 DEF MailInv, Setting
<1>14. CASE Bypass
  <2>1. mail' = mail /\ elem'.pc = "none" /\ svc'.ops = svc.ops /\ svc.pc \notin Setting
    BY <1>14 DEF Bypass, Finish, NoElement, Setting
  <2> QED BY <2>1 DEF MailInv, Setting
<1> QED BY <1>2, <1>3, <1>4, <1>5, <1>6, <1>7, <1>8, <1>9, <1>10, <1>11, <1>12, <1>13, <1>14
     DEF Next, ElementNext, ServiceNext

(* The park protocol keeps its promises.                                   *)
LEMMA ParkStep ==
  ASSUME Typed, MailInv, ParkInv, Next
  PROVE  ParkInv'
<1> USE TypedShaped DEF Shaped, EndpointFields
<1>0. /\ up.parked \in BOOLEAN /\ up.pending \in BOOLEAN /\ up.park \in BOOLEAN
      /\ up.gone \in BOOLEAN /\ up.claimed \in BOOLEAN
      /\ svc.pc \in Parking \cup Stages \cup Setting \cup {"idle", "awaitSource"}
  BY DEF Typed, EndpointOK, SvcOK
<1>1. CASE ProducerGate
  <2>0. prod.pc = "gate" /\ svc.pc \notin Stages /\ up.detached = Dead
    BY <1>1 DEF ProducerGate, ParkInv
  <2>1. CASE ~up.pending
    BY <1>1, <2>0, <2>1 DEF ProducerGate, ParkInv, Ended
  <2>2. CASE up.pending /\ up.park
    <3>1. /\ prod'.pc = "waiting" /\ prod'.link = Dead
          /\ up'.parked /\ up'.staged = Dead /\ up'.gone = up.gone
          /\ up'.claimed = up.claimed /\ up'.park = up.park
      <4>1. CASE up.parked /\ up.staged = Dead
        BY <1>1, <2>2, <4>1 DEF ProducerGate, NextLink, ParkInv
      <4>2. CASE ~(up.parked /\ up.staged = Dead)
        BY <1>1, <2>2, <4>2 DEF ProducerGate
      <4> QED BY <4>1, <4>2
    <3>2. svc.pc \in Parking
      BY <2>0, <2>2 DEF ParkInv, Ended
    <3>3. svc'.pc \in Parking
      BY <1>1, <2>2, <3>2 DEF ProducerGate, Parking
    <3> QED BY <2>0, <3>1, <3>2, <3>3 DEF ParkInv, Parking, Stages, Ended
  <2>3. CASE up.pending /\ ~up.park
    <3>1. /\ prod'.pc = "send" /\ prod'.link = NextLink
          /\ up'.parked = (up.parked /\ up.staged = Dead) /\ up'.staged = Dead
          /\ up'.gone = up.gone /\ up'.claimed = up.claimed /\ up'.park = up.park
          /\ up'.detached = up.detached /\ svc' = svc
      BY <1>1, <2>3 DEF ProducerGate
    <3> QED BY <2>0, <2>3, <3>1 DEF ParkInv, Ended, NextLink
  <2> QED BY <2>1, <2>2, <2>3, <1>0
<1>2. CASE SendFrame
  BY <1>2 DEF SendFrame, Observed, ParkInv, Ended
<1>3. CASE SendEos \/ SendFails
  <2>1. /\ up' = Gone(up, prod.link) /\ prod.pc = "send"
        /\ prod' = [prod EXCEPT !.pc = "returned", !.link = Dead]
        /\ svc' = WokenService(up, "asleep", "detach")
    BY <1>3 DEF SendEos, SendFails
  <2>2. /\ up'.claimed = up.claimed /\ up'.parked = up.parked /\ up'.staged = up.staged
        /\ up'.detached = up.detached /\ up'.pending = up.pending
    BY <2>1 DEF Gone, ParkInv
  <2>3. svc'.pc = svc.pc \/ (svc'.pc \in Parking /\ svc.pc \in Parking)
    <3>1. svc'.pc = svc.pc \/ (svc.pc = "asleep" /\ svc'.pc = "detach")
      BY <2>1, WokenFacts
    <3> QED BY <3>1 DEF Parking
  <2> QED BY <2>1, <2>2, <2>3 DEF ParkInv, Parking, Stages, Ended
<1>4. CASE SourceHandback
  BY <1>4 DEF SourceHandback, ParkInv, Ended
<1>5. CASE DrainAnswers
  <2>1. svc.pc \in Setting /\ svc'.pc = "idle" /\ UNCHANGED <<up, prod>>
    BY <1>5 DEF DrainAnswers, Finish, MailInv
  <2> QED BY <2>1 DEF ParkInv, Parking, Stages, Setting, Ended
<1>6. CASE ElementEnds \/ ElementFails
  <2>1. UNCHANGED <<up, prod>> /\ svc' = WokenService(own, "asleepOwn", "detachOwn")
    BY <1>6 DEF ElementEnds, ElementFails, ElementGone
  <2>2. svc'.pc = svc.pc \/ (svc'.pc \in Stages /\ svc.pc \in Stages)
    <3>1. svc'.pc = svc.pc \/ (svc.pc = "asleepOwn" /\ svc'.pc = "detachOwn")
      BY <2>1, WokenFacts
    <3> QED BY <3>1 DEF Stages
  <2> QED BY <2>1, <2>2 DEF ParkInv, Parking, Stages, Ended
<1>7. CASE DrainTakes \/ ElementFrame \/ ElementFlush \/ ElementHandback \/ Consume
  <2>1. UNCHANGED <<up, prod, svc>>
    BY <1>7 DEF DrainTakes, ElementFrame, ElementFlush, ElementHandback, Consume
  <2> QED BY <2>1 DEF ParkInv
<1>8. ASSUME NEW op \in Ops, Begin(op)
      PROVE  ParkInv'
  BY <1>8 DEF Begin, ParkInv, Parking, Stages, Ended
<1>9. CASE BeginSet \/ DeadlinePasses \/ Withdraw
  <2>1. UNCHANGED <<up, prod>>
    BY <1>9 DEF BeginSet, DeadlinePasses, Withdraw
  <2>2. \/ svc.pc \in Parking /\ svc'.pc \in Parking
        \/ svc.pc \notin Parking \cup Stages /\ svc'.pc \in Setting \cup {"idle"}
    BY <1>9 DEF BeginSet, DeadlinePasses, Withdraw, Finish, Parking, Stages, Setting
  <2> QED BY <2>1, <2>2 DEF ParkInv, Parking, Stages, Setting, Ended
<1>10. CASE PollDetached
  <2>1. CASE up.detached # Dead
    <3>1. svc.op \in {"insert", "remove", "replace"}
      BY <1>10 DEF PollDetached, Typed, SvcOK, Parking
    <3>2. svc'.pc \in Stages /\ up' = [up EXCEPT !.detached = Dead] /\ prod' = prod
      BY <1>10, <2>1, <3>1 DEF PollDetached, Stages
    <3> QED BY <2>1, <3>2 DEF ParkInv, Parking, Stages, Ended
  <2>2. CASE up.detached = Dead /\ up.gone
    <3>1. svc'.pc = "idle" /\ UNCHANGED <<up, prod>>
      BY <1>10, <2>2 DEF PollDetached, Finish
    <3> QED BY <2>2, <3>1 DEF ParkInv, Parking, Stages, Ended
  <2>3. CASE up.detached = Dead /\ ~up.gone
    <3>1. svc'.pc = "asleep" /\ up' = [up EXCEPT !.mutator = TRUE] /\ prod' = prod
      BY <1>10, <2>3 DEF PollDetached
    <3> QED BY <2>3, <3>1 DEF ParkInv, Parking, Stages, Ended
  <2> QED BY <2>1, <2>2, <2>3
<1>11. CASE CancelPark
  <2>1. /\ up'.detached = Dead /\ up'.pending /\ ~up'.park /\ up'.claimed = up.claimed
        /\ up'.parked = up.parked /\ up'.gone = up.gone
        /\ up'.staged = IF up.detached # Dead THEN up.detached ELSE up.staged
    BY <1>11 DEF CancelPark
  <2>2. /\ svc'.pc = "idle" /\ prod'.link = prod.link
        /\ prod'.pc = prod.pc \/ (prod.pc = "waiting" /\ prod'.pc = "gate")
    BY <1>11 DEF CancelPark, Finish, WokenProducer
  <2> QED BY <2>1, <2>2 DEF ParkInv, Parking, Stages, Ended
<1>12. CASE Splice \/ Claim \/ DropFeed
  <2>1. UNCHANGED <<up, prod>> /\ svc.pc \in Stages /\ svc'.pc \in Stages
    BY <1>12 DEF Splice, Claim, DropFeed, Stages
  <2> QED BY <2>1 DEF ParkInv, Parking, Stages, Ended
<1>13. ASSUME NEW link, svc.pc \in Stages, prod' = WokenProducer, svc'.pc = "idle",
              up'.park = FALSE, up'.staged = link, up'.pending = TRUE,
              up'.parked = up.parked, up'.gone = up.gone, up'.claimed = up.claimed,
              up'.detached = up.detached
       PROVE  ParkInv'
  <2>1. prod.pc = "waiting" /\ prod'.pc \in {"gate", "waiting"} /\ prod'.link = prod.link
    BY <1>13 DEF ParkInv, WokenProducer
  <2> QED BY <1>13, <2>1 DEF ParkInv, Parking, Stages, Ended
<1>14. CASE SpliceUnpark \/ Bypass
  <2>1. /\ svc.pc \in Stages /\ prod' = WokenProducer /\ svc'.pc = "idle"
        /\ up'.park = FALSE /\ up'.staged = svc.hand /\ up'.pending = TRUE
        /\ up'.parked = up.parked /\ up'.gone = up.gone /\ up'.claimed = up.claimed
        /\ up'.detached = up.detached
    BY <1>14 DEF SpliceUnpark, Bypass, Unparked, Finish, Stages
  <2> QED BY <1>13, <2>1
<1>15. CASE PollOwn
  <2>1. CASE own.detached = Dead /\ own.gone
    <3>1. /\ svc.pc \in Stages /\ prod' = WokenProducer /\ svc'.pc = "idle"
          /\ up'.park = FALSE /\ up'.staged = Dead /\ up'.pending = TRUE
          /\ up'.parked = up.parked /\ up'.gone = up.gone /\ up'.claimed = up.claimed
          /\ up'.detached = up.detached
      BY <1>15, <2>1 DEF PollOwn, Unparked, Finish, Stages
    <3> QED BY <1>13, <3>1
  <2>2. CASE own.detached # Dead \/ ~own.gone
    <3>1. UNCHANGED <<up, prod>> /\ svc.pc \in Stages /\ svc'.pc \in Stages
      BY <1>15, <2>2 DEF PollOwn, Stages
    <3> QED BY <3>1 DEF ParkInv, Parking, Stages, Ended
  <2> QED BY <2>1, <2>2
<1>16. CASE Retire
  <2>1. /\ svc.pc = "replace" /\ prod' = WokenProducer /\ svc'.pc = "awaitSource"
        /\ up'.park = FALSE /\ up'.staged = Dead
        /\ up'.parked = up.parked /\ up'.gone = up.gone /\ up'.claimed = up.claimed
        /\ up'.detached = up.detached
    BY <1>16 DEF Retire, Unparked
  <2>2. prod.pc = "waiting" /\ prod'.pc \in {"gate", "waiting"} /\ prod'.link = prod.link
    BY <2>1 DEF ParkInv, WokenProducer, Stages
  <2> QED BY <2>1, <2>2 DEF ParkInv, Parking, Stages, Ended
<1>17. CASE Rehome
  <2>1. /\ prod'.pc = "gate" /\ svc'.pc = "idle"
        /\ up'.park = FALSE /\ up'.staged = Dead /\ up'.detached = Dead
        /\ up'.parked = FALSE /\ up'.gone = FALSE /\ up'.claimed = FALSE
    BY <1>17 DEF Rehome, Endpoint, Finish
  <2> QED BY <2>1 DEF ParkInv, Parking, Stages, Ended
<1> QED BY <1>1, <1>2, <1>3, <1>4, <1>5, <1>6, <1>7, <1>8, <1>9, <1>10, <1>11, <1>12,
        <1>14, <1>15, <1>16, <1>17
     DEF Next, ProducerNext, ElementNext, ServiceNext

(* No step puts a link in two places.                                      *)
LEMMA PlacesStep ==
  ASSUME Typed, ParkInv, PlacesInv, Next
  PROVE  PlacesInv'
<1> USE TypedShaped DEF Shaped, EndpointFields, PlacesInv, PlacesApart, Apart, Places, Above,
        Newest, Dead
<1>1. CASE ProducerGate
  <2>1. CASE ~up.pending
    BY <1>1, <2>1 DEF ProducerGate
  <2>2. CASE up.pending /\ up.park /\ up.parked /\ up.staged = Dead
    BY <1>1, <2>2 DEF ProducerGate, NextLink
  <2>3. CASE up.pending /\ up.park /\ ~(up.parked /\ up.staged = Dead)
    <3>1. /\ prod'.link = Dead /\ up'.staged = Dead /\ UNCHANGED <<own, elem>>
          /\ up'.detached = IF up.staged # Dead THEN up.staged ELSE prod.link
      BY <1>1, <2>3 DEF ProducerGate, NextLink
    <3>2. svc.pc # "asleepOwn"
      BY <1>1 DEF ProducerGate, ParkInv, Stages
    <3>3. svc'.hand = svc.hand /\ Newest' = Newest
      BY <1>1, <2>3, <3>2 DEF ProducerGate, Parking
    <3> QED BY <3>1, <3>3
  <2>4. CASE up.pending /\ ~up.park
    <3>1. /\ prod'.link = IF up.staged # Dead THEN up.staged ELSE prod.link
          /\ up'.staged = Dead /\ up'.detached = up.detached
          /\ UNCHANGED <<own, elem, svc>>
      BY <1>1, <2>4 DEF ProducerGate, NextLink
    <3> QED BY <3>1
  <2> QED BY <2>1, <2>2, <2>3, <2>4
<1>2. CASE SendFrame
  BY <1>2 DEF SendFrame, Observed
<1>3. CASE SendEos \/ SendFails
  <2>1. up' = Gone(up, prod.link) /\ prod' = [prod EXCEPT !.pc = "returned", !.link = Dead]
        /\ svc' = WokenService(up, "asleep", "detach") /\ UNCHANGED <<own, elem>>
    BY <1>3 DEF SendEos, SendFails
  <2>2. svc'.hand = svc.hand /\ Newest' = Newest
    BY <2>1 DEF WokenService, Parking
  <2>3. CASE up.claimed /\ up.detached = Dead
    BY <2>1, <2>2, <2>3 DEF Gone
  <2>4. CASE ~(up.claimed /\ up.detached = Dead)
    BY <2>1, <2>2, <2>4 DEF Gone
  <2> QED BY <2>3, <2>4
<1>4. CASE SourceHandback
  BY <1>4 DEF SourceHandback
<1>5. CASE DrainTakes
  BY <1>5 DEF DrainTakes
<1>6. CASE DrainAnswers
  BY <1>6 DEF DrainAnswers, Finish, Parking
<1>7. CASE ElementFrame
  BY <1>7 DEF ElementFrame, Observed
<1>8. CASE ElementFlush
  BY <1>8 DEF ElementFlush, Observed
<1>9. CASE ElementEnds \/ ElementFails
  <2>1. ElementGone /\ UNCHANGED <<up, prod>>
    BY <1>9 DEF ElementEnds, ElementFails
  <2>2. svc'.hand = svc.hand /\ Newest' = Newest
    BY <2>1 DEF ElementGone, WokenService, Parking
  <2>3. CASE own.claimed /\ own.detached = Dead
    BY <2>1, <2>2, <2>3 DEF ElementGone, Gone
  <2>4. CASE ~(own.claimed /\ own.detached = Dead)
    BY <2>1, <2>2, <2>4 DEF ElementGone, Gone
  <2> QED BY <2>3, <2>4
<1>10. CASE ElementHandback
  BY <1>10 DEF ElementHandback
<1>11. CASE Consume
  BY <1>11 DEF Consume
<1>12. ASSUME NEW op \in Ops, Begin(op)
       PROVE  PlacesInv'
  BY <1>12 DEF Begin, Parking
<1>13. CASE BeginSet
  BY <1>13 DEF BeginSet, Parking
<1>14. CASE PollDetached
  <2>1. CASE up.detached # Dead
    <3>1. svc.op \in {"insert", "remove", "replace"}
      BY <1>14 DEF PollDetached, Typed, SvcOK, Parking
    <3>2. /\ svc'.hand = up.detached /\ up'.detached = Dead /\ up'.staged = up.staged
          /\ svc'.ops = svc.ops /\ svc'.pc = svc.op /\ svc.pc = "detach"
          /\ UNCHANGED <<own, elem, prod>>
      BY <1>14, <2>1 DEF PollDetached
    <3>3. Newest = svc.ops /\ Newest' \in {svc.ops, svc.ops + 1}
      BY <3>2 DEF Parking
    <3> QED BY <3>2, <3>3
  <2>2. CASE up.detached = Dead /\ up.gone
    <3>1. /\ svc'.hand = Dead /\ svc'.pc = "idle" /\ svc'.ops = svc.ops
          /\ elem'.out = elem.out /\ UNCHANGED <<own, up, prod>>
      BY <1>14, <2>2 DEF PollDetached, Finish, Restored
    <3>2. Newest' = svc.ops + 1 /\ Newest <= svc.ops + 1
      BY <3>1 DEF Parking
    <3> QED BY <3>1, <3>2
  <2>3. CASE up.detached = Dead /\ ~up.gone
    BY <1>14, <2>3 DEF PollDetached, Parking
  <2> QED BY <2>1, <2>2, <2>3
<1>15. CASE DeadlinePasses
  BY <1>15 DEF DeadlinePasses, Parking
<1>16. CASE CancelPark
  BY <1>16 DEF CancelPark, WokenProducer, Finish, Restored, Parking
<1>17. CASE Withdraw
  <2>1. UNCHANGED <<up, own, prod, elem>> /\ svc.pc = "answer"
        /\ (svc' = Finish("TimedOut") \/ svc' = [svc EXCEPT !.pc = "answerLate"])
    BY <1>17 DEF Withdraw
  <2>2. svc'.hand \in {Dead, svc.hand} /\ svc'.ops = svc.ops
        /\ svc'.pc \in {"idle", "answerLate"}
    BY <2>1 DEF Finish
  <2>3. Newest' = svc.ops + 1 /\ Newest = svc.ops + 1
    BY <2>1, <2>2 DEF Parking
  <2> QED BY <2>1, <2>2, <2>3
<1>18. CASE Splice
  BY <1>18 DEF Splice, Endpoint, Parking
<1>19. CASE SpliceUnpark
  BY <1>19 DEF SpliceUnpark, WokenProducer, Unparked, Finish, Parking
<1>20. CASE Claim
  BY <1>20 DEF Claim, Parking
<1>21. CASE DropFeed
  BY <1>21 DEF DropFeed, Parking
<1>22. CASE PollOwn
  <2>1. CASE own.detached # Dead
    <3>1. /\ svc'.hand = own.detached /\ own'.detached = Dead /\ svc'.ops = svc.ops
          /\ svc'.pc = "awaitElement" /\ svc.pc = "detachOwn" /\ UNCHANGED <<up, prod, elem>>
      BY <1>22, <2>1 DEF PollOwn
    <3>2. Newest' = Newest
      BY <3>1 DEF Parking
    <3> QED BY <3>1, <3>2
  <2>2. CASE own.detached = Dead /\ own.gone
    <3>1. /\ svc'.hand = Dead /\ up'.staged = Dead /\ up'.detached = up.detached
          /\ prod'.link = prod.link /\ svc'.ops = svc.ops
          /\ svc'.pc = "idle" /\ svc.pc = "detachOwn" /\ UNCHANGED <<own, elem>>
      BY <1>22, <2>2 DEF PollOwn, WokenProducer, Unparked, Finish
    <3>2. Newest' = Newest
      BY <3>1 DEF Parking
    <3> QED BY <3>1, <3>2
  <2>3. CASE own.detached = Dead /\ ~own.gone
    BY <1>22, <2>3 DEF PollOwn, Parking
  <2> QED BY <2>1, <2>2, <2>3
<1>23. CASE Bypass
  BY <1>23 DEF Bypass, WokenProducer, Unparked, Finish, NoElement, Parking
<1>24. CASE Retire
  BY <1>24 DEF Retire, WokenProducer, Unparked, Parking
<1>25. CASE Rehome
  BY <1>25 DEF Rehome, Endpoint, Finish, Parking
<1> QED BY <1>1, <1>2, <1>3, <1>4, <1>5, <1>6, <1>7, <1>8, <1>9, <1>10, <1>11, <1>12, <1>13,
        <1>14, <1>15, <1>16, <1>17, <1>18, <1>19, <1>20, <1>21, <1>22, <1>23, <1>24, <1>25
     DEF Next, ProducerNext, ElementNext, ServiceNext

(* The producer's link is the one it had, until an operation succeeds.     *)
LEMMA TargetStep ==
  ASSUME Typed, MailInv, ParkInv, TargetInv, Next
  PROVE  TargetInv'
<1> USE TypedShaped DEF Shaped, EndpointFields
<1>0. svc.pc \in Parking \cup Stages \cup Setting \cup {"idle", "awaitSource"}
  BY DEF Typed, SvcOK
<1>1. ASSUME svc'.before = svc.before, svc'.result = svc.result,
             svc'.pc = svc.pc \/ (svc'.pc \in Parking /\ svc.pc \in Parking)
                \/ (svc'.pc \in Setting /\ svc.pc \in Setting)
                \/ (svc'.pc \in Stages \cup {"awaitSource"} /\ svc.pc # "idle"),
             prod.pc \notin Ended /\ prod'.pc \notin Ended => Target' = Target,
             prod.pc \in Ended => prod'.pc \in Ended
      PROVE  TargetInv'
  BY <1>0, <1>1 DEF TargetInv, Parking, Setting, Stages
<1>2. ASSUME svc'.result # "TimedOut", svc'.pc \notin Parking \cup Setting
      PROVE  TargetInv'
  BY <1>2 DEF TargetInv
<1>3. CASE ProducerGate
  <2>0. prod.pc = "gate" /\ svc.pc \notin Stages /\ up.detached = Dead
    BY <1>3 DEF ProducerGate, ParkInv
  <2>1. /\ svc'.before = svc.before /\ svc'.result = svc.result
        /\ svc'.pc = svc.pc \/ (svc'.pc \in Parking /\ svc.pc \in Parking)
    <3>1. svc' = svc \/ (svc' = [svc EXCEPT !.pc = "detach"] /\ svc.pc = "asleep")
      BY <1>3, <2>0 DEF ProducerGate, Stages
    <3> QED BY <3>1 DEF Parking
  <2>2. Target' = Target
    <3>1. CASE ~up.pending
      BY <1>3, <3>1 DEF ProducerGate, Target
    <3>2. CASE up.pending /\ up.park /\ up.parked /\ up.staged = Dead
      BY <1>3, <3>2 DEF ProducerGate, NextLink, Target
    <3>3. CASE up.pending /\ up.park /\ ~(up.parked /\ up.staged = Dead)
      <4>1. prod'.link = Dead /\ up'.staged = Dead /\ up'.detached = NextLink
        BY <1>3, <3>3 DEF ProducerGate
      <4> QED BY <2>0, <4>1 DEF NextLink, Target
    <3>4. CASE up.pending /\ ~up.park
      <4>1. prod'.link = NextLink /\ up'.staged = Dead /\ up'.detached = up.detached
        BY <1>3, <3>4 DEF ProducerGate
      <4> QED BY <2>0, <4>1 DEF NextLink, Target
    <3> QED BY <3>1, <3>2, <3>3, <3>4
  <2> QED BY <1>1, <2>0, <2>1, <2>2 DEF Ended
<1>4. CASE SendFrame
  <2>1. /\ up'.staged = up.staged /\ up'.detached = up.detached /\ svc' = svc
        /\ prod'.link = prod.link /\ prod.pc = "send" /\ prod'.pc = "gate"
    BY <1>4 DEF SendFrame, Observed
  <2> QED BY <1>1, <2>1 DEF Target, Ended
<1>5. CASE SendEos \/ SendFails
  <2>1. /\ prod'.pc = "returned" /\ prod.pc = "send"
        /\ svc' = WokenService(up, "asleep", "detach")
    BY <1>5 DEF SendEos, SendFails
  <2>2. /\ svc'.before = svc.before /\ svc'.result = svc.result
        /\ svc'.pc = svc.pc \/ (svc'.pc = "detach" /\ svc.pc = "asleep")
    BY <2>1, WokenFacts
  <2> QED BY <1>1, <2>1, <2>2 DEF Ended, Parking
<1>6. CASE SourceHandback
  <2>1. UNCHANGED <<up, svc>> /\ prod.pc = "returned" /\ prod'.pc = "over"
    BY <1>6 DEF SourceHandback
  <2> QED BY <1>1, <2>1 DEF Ended
<1>7. CASE DrainAnswers \/ SpliceUnpark \/ Bypass \/ Rehome
  <2>1. svc'.result = "Ok" /\ svc'.pc = "idle"
    BY <1>7 DEF DrainAnswers, SpliceUnpark, Bypass, Rehome, Finish
  <2> QED BY <1>2, <2>1 DEF Parking, Setting
<1>8. CASE ElementEnds \/ ElementFails
  <2>1. UNCHANGED <<up, prod>> /\ svc' = WokenService(own, "asleepOwn", "detachOwn")
    BY <1>8 DEF ElementEnds, ElementFails, ElementGone
  <2>2. /\ svc'.before = svc.before /\ svc'.result = svc.result
        /\ svc'.pc = svc.pc \/ (svc'.pc = "detachOwn" /\ svc.pc = "asleepOwn")
    BY <2>1, WokenFacts
  <2> QED BY <1>1, <2>1, <2>2 DEF Target, Stages
<1>9. CASE DrainTakes \/ ElementFrame \/ ElementFlush \/ ElementHandback \/ Consume
  <2>1. UNCHANGED <<up, prod, svc>>
    BY <1>9 DEF DrainTakes, ElementFrame, ElementFlush, ElementHandback, Consume
  <2> QED BY <1>1, <2>1 DEF Target
<1>10. ASSUME svc.pc = "idle", svc'.before = NextLink, svc'.result = "none",
              prod' = prod, up'.staged = up.staged, up'.detached = up.detached
       PROVE  TargetInv'
  <2>1. up.detached = Dead
    BY <1>10 DEF ParkInv, Parking
  <2>2. Target' = svc'.before
    BY <1>10, <2>1 DEF Target, NextLink
  <2> QED BY <1>10, <2>2 DEF TargetInv
<1>11. ASSUME NEW op \in Ops, Begin(op)
       PROVE  TargetInv'
  BY <1>10, <1>11 DEF Begin
<1>12. CASE BeginSet
  BY <1>10, <1>12 DEF BeginSet
<1>13. CASE Withdraw
  <2>1. UNCHANGED <<up, prod>> /\ svc.pc = "answer" /\ svc'.before = svc.before
    BY <1>13 DEF Withdraw, Finish
  <2>2. svc'.pc = "idle" \/ (svc'.pc = "answerLate" /\ svc'.result = svc.result)
    BY <1>13 DEF Withdraw, Finish
  <2> QED BY <2>1, <2>2 DEF TargetInv, Target, Setting, Ended
<1>14. CASE DeadlinePasses
  <2>1. UNCHANGED <<up, prod>> /\ svc.pc = "asleep" /\ svc' = [svc EXCEPT !.pc = "cancel"]
    BY <1>14 DEF DeadlinePasses
  <2> QED BY <1>1, <2>1 DEF Target, Parking
<1>15. CASE PollDetached
  <2>1. CASE up.detached # Dead
    <3>1. svc.op \in {"insert", "remove", "replace"}
      BY <1>15 DEF PollDetached, Typed, SvcOK, Parking
    <3>2. /\ svc' = [svc EXCEPT !.pc = svc.op, !.hand = up.detached]
          /\ svc.pc = "detach"
      BY <1>15, <2>1 DEF PollDetached
    <3>3. svc.result # "TimedOut"
      BY <3>2 DEF TargetInv
    <3> QED BY <1>2, <3>1, <3>2, <3>3 DEF Parking, Setting
  <2>2. CASE up.detached = Dead /\ up.gone
    <3>1. svc'.pc = "idle" /\ svc'.result = "GraphEnded"
      BY <1>15, <2>2 DEF PollDetached, Finish
    <3> QED BY <1>2, <3>1 DEF Parking, Setting
  <2>3. CASE up.detached = Dead /\ ~up.gone
    <3>1. /\ svc' = [svc EXCEPT !.pc = "asleep"] /\ svc.pc = "detach"
          /\ up' = [up EXCEPT !.mutator = TRUE] /\ prod' = prod
      BY <1>15, <2>3 DEF PollDetached
    <3>2. Target' = Target
      BY <3>1 DEF Target
    <3> QED BY <1>1, <3>1, <3>2 DEF Parking
  <2> QED BY <2>1, <2>2, <2>3
<1>16. CASE CancelPark
  <2>1. /\ up'.detached = Dead
        /\ up'.staged = IF up.detached # Dead THEN up.detached ELSE up.staged
    BY <1>16 DEF CancelPark
  <2>2. /\ svc'.pc = "idle" /\ svc'.before = svc.before /\ svc.pc = "cancel"
        /\ prod'.link = prod.link
        /\ prod'.pc = prod.pc \/ (prod.pc = "waiting" /\ prod'.pc = "gate")
    BY <1>16 DEF CancelPark, Finish, WokenProducer
  <2>3. Target' = Target
    BY <2>1, <2>2 DEF Target, ParkInv
  <2>4. prod.pc \in Ended \/ Target = svc.before
    BY <2>2 DEF TargetInv, Parking
  <2> QED BY <2>2, <2>3, <2>4 DEF TargetInv, Ended
<1>17. CASE Splice \/ Claim \/ DropFeed \/ Retire
  <2>1. /\ svc'.result = svc.result /\ svc'.pc \in Stages \cup {"awaitSource"}
        /\ svc.pc \in Stages
    BY <1>17 DEF Splice, Claim, DropFeed, Retire, Stages
  <2>2. svc.result # "TimedOut"
    BY <2>1 DEF TargetInv, Stages
  <2> QED BY <1>2, <2>1, <2>2 DEF Parking, Setting, Stages
<1>18. CASE PollOwn
  <2>1. CASE own.detached = Dead /\ own.gone
    <3>1. svc'.pc = "idle" /\ svc'.result = "GraphEnded"
      BY <1>18, <2>1 DEF PollOwn, Finish
    <3> QED BY <1>2, <3>1 DEF Parking, Setting
  <2>2. CASE own.detached # Dead \/ ~own.gone
    <3>1. /\ svc'.result = svc.result /\ svc'.pc \in Stages /\ svc.pc = "detachOwn"
      BY <1>18, <2>2 DEF PollOwn, Stages
    <3>2. svc.result # "TimedOut"
      BY <3>1 DEF TargetInv
    <3> QED BY <1>2, <3>1, <3>2 DEF Parking, Setting, Stages
  <2> QED BY <2>1, <2>2
<1> QED BY <1>3, <1>4, <1>5, <1>6, <1>7, <1>8, <1>9, <1>11, <1>12, <1>13, <1>14, <1>15,
        <1>16, <1>17, <1>18
     DEF Next, ProducerNext, ElementNext, ServiceNext

-----------------------------------------------------------------------------
(* The inductive invariant of the protocol between the service, the        *)
(* producer and the mailbox.                                               *)
ProtocolInv == Typed /\ MailInv /\ ParkInv /\ TargetInv /\ PlacesInv

(* Parks, resumes, claims, deadlines and withdrawals, in any order, keep   *)
(* the protocol's invariant.                                               *)
THEOREM ProtocolInductive == Spec => []ProtocolInv
<1>1. Init => ProtocolInv
  <2> SUFFICES ASSUME Init PROVE ProtocolInv
    OBVIOUS
  <2>1. Typed
    BY InitTyped
  <2>2. MailInv
    BY DEF Init, MailInv, NoElement
  <2>3. ParkInv
    BY DEF Init, ParkInv, Endpoint, Dead, Parking, Stages
  <2>4. TargetInv
    BY DEF Init, TargetInv, Parking, Setting
  <2>5. PlacesInv
    BY DEF Init, PlacesInv, PlacesApart, Apart, Places, Above, Newest, Endpoint, NoElement,
           Dead, Parking
  <2> QED BY <2>1, <2>2, <2>3, <2>4, <2>5 DEF ProtocolInv
<1>2. ProtocolInv /\ [Next]_vars => ProtocolInv'
  <2> SUFFICES ASSUME ProtocolInv, [Next]_vars PROVE ProtocolInv'
    OBVIOUS
  <2>1. CASE Next
    BY <2>1, StepTyped, MailStep, ParkStep, TargetStep, PlacesStep DEF ProtocolInv
  <2>2. CASE UNCHANGED vars
    <3>1. Typed'
      BY <2>2, StepTyped DEF ProtocolInv
    <3>2. MailInv' /\ ParkInv'
      BY <2>2 DEF vars, ProtocolInv, MailInv, ParkInv
    <3>3. TargetInv' /\ PlacesInv'
      BY <2>2 DEF vars, ProtocolInv, TargetInv, Target, PlacesInv, PlacesApart, Places, Above,
                  Newest
    <3> QED BY <3>1, <3>2, <3>3 DEF ProtocolInv
  <2> QED BY <2>1, <2>2
<1> QED BY <1>1, <1>2, PTL DEF Spec

(* An operation that timed out changed nothing, however the deadline       *)
(* crossed the park (cancel_park) or the arm's taking of the request       *)
(* (withdraw).                                                             *)
THEOREM TimeoutsHarmless == Spec => []TimedOutUnchanged
<1>1. ProtocolInv => TimedOutUnchanged
  <2> SUFFICES ASSUME ProtocolInv PROVE TimedOutUnchanged
    OBVIOUS
  <2>1. ASSUME svc.result = "TimedOut", prod.pc = "send"
        PROVE  prod.link = svc.before
    <3>1. up.staged = Dead /\ up.detached = Dead
      BY <2>1 DEF ProtocolInv, ParkInv
    <3> QED BY <2>1, <3>1 DEF ProtocolInv, TargetInv, Target, Ended
  <2> QED BY <2>1 DEF ProtocolInv, MailInv, TimedOutUnchanged
<1> QED BY <1>1, ProtocolInductive, PTL

(* The sender of a link is in one place at a time, for any number of       *)
(* operations.                                                             *)
THEOREM LinksHeldOnce == Spec => []LinkInOnePlace
<1>1. ProtocolInv => LinkInOnePlace
  <2> SUFFICES ASSUME ProtocolInv, NEW l \in Links
               PROVE  Cardinality(Holders(l)) <= 1
    BY DEF LinkInOnePlace
  <2>1. l # Dead
    BY DEF Links, Dead
  <2>2. \A h, k \in Holders(l) : h = k
    BY <2>1 DEF Holders, ProtocolInv, PlacesInv, PlacesApart, Apart
  <2>3. CASE Holders(l) = {}
    BY <2>3, FS_EmptySet
  <2>4. CASE Holders(l) # {}
    <3>1. PICK h : h \in Holders(l)
      BY <2>4
    <3>2. Holders(l) = {h}
      BY <2>2, <3>1
    <3>3. Cardinality({h}) = 1
      BY FS_Singleton
    <3> QED BY <3>2, <3>3
  <2> QED BY <2>3, <2>4
<1> QED BY <1>1, ProtocolInductive, PTL

-----------------------------------------------------------------------------
(* The frames.  The ids in a sequence of packets, 0 for an Eos; sequences  *)
(* whose ids rise, an Eos only at the end; and one before another.         *)
Ids(s) == {s[i].id : i \in 1..Len(s)}
HasEos(s) == 0 \in Ids(s)

Rising(s) ==
    \A i \in 1..Len(s) :
        /\ s[i].id = 0 => i = Len(s)
        /\ \A j \in 1..(i - 1) : s[i].id # 0 => s[j].id < s[i].id

Before(s, t) == \A a \in Ids(s), b \in Ids(t) : b # 0 => a < b

(* The frames from the consumer back to the producer: what it got, link 1, *)
(* what the element holds, its feed; in the order made, each frame made    *)
(* there or lost.                                                          *)
Ordered(g, q, h, f) ==
    /\ Rising(g) /\ Rising(q) /\ Rising(f)
    /\ Len(h) <= 1 /\ ~HasEos(g) /\ ~HasEos(h)
    /\ Before(g, q) /\ Before(g, h) /\ Before(g, f)
    /\ Before(q, h) /\ Before(q, f) /\ Before(h, f)

Covers(g, q, h, f, gone, m) ==
    /\ Ids(g) \cup Ids(q) \cup Ids(h) \cup Ids(f) \subseteq 0..m
    /\ gone \subseteq 1..m
    /\ 1..m \subseteq gone \cup Ids(g) \cup Ids(q) \cup Ids(h) \cup Ids(f)

Chain(g, q, h, f, gone, m) ==
    /\ g \in Seq(Frames) /\ q \in Seq(Frames) /\ h \in Seq(Frames) /\ f \in Seq(Frames)
    /\ m \in Nat /\ Ordered(g, q, h, f) /\ Covers(g, q, h, f, gone, m)

(* A packet at the end of a sequence.                                      *)
LEMMA AppendIds ==
  ASSUME NEW s \in Seq(Frames), NEW x \in Frames
  PROVE  /\ Append(s, x) \in Seq(Frames)
         /\ Ids(Append(s, x)) = Ids(s) \cup {x.id}
         /\ Ids(s) \subseteq Nat /\ x.id \in Nat
<1>1. /\ Append(s, x) \in Seq(Frames) /\ Len(Append(s, x)) = Len(s) + 1 /\ Len(s) \in Nat
      /\ \A i \in 1..Len(s) : Append(s, x)[i] = s[i] /\ s[i] \in Frames
      /\ Append(s, x)[Len(s) + 1] = x
  OBVIOUS
<1>2. \A i \in 1..(Len(s) + 1) : i \in 1..Len(s) \/ i = Len(s) + 1
  BY <1>1
<1>3. \A i \in 1..Len(s) : i \in 1..(Len(s) + 1)
  BY <1>1
<1>4. Len(s) + 1 \in 1..(Len(s) + 1)
  BY <1>1
<1>5. Ids(s) \subseteq Nat /\ x.id \in Nat
  BY <1>1 DEF Ids, Frames
<1>6. ASSUME NEW a
      PROVE  a \in Ids(Append(s, x)) <=> a \in Ids(s) \cup {x.id}
  BY <1>1, <1>2, <1>3, <1>4 DEF Ids
<1> QED BY <1>1, <1>5, <1>6

(* It rises still when the packet is larger, or an Eos after none.         *)
LEMMA AppendRising ==
  ASSUME NEW s \in Seq(Frames), NEW x \in Frames, Rising(s), ~HasEos(s),
         x.id = 0 \/ \A a \in Ids(s) : a < x.id
  PROVE  Rising(Append(s, x))
<1>1. /\ Len(Append(s, x)) = Len(s) + 1 /\ Len(s) \in Nat
      /\ \A i \in 1..Len(s) : Append(s, x)[i] = s[i] /\ s[i] \in Frames
      /\ Append(s, x)[Len(s) + 1] = x
  OBVIOUS
<1>2. \A i \in 1..Len(s) : s[i].id \in Ids(s) /\ s[i].id # 0
  BY DEF Ids, HasEos
<1> SUFFICES ASSUME NEW i \in 1..(Len(s) + 1)
             PROVE  /\ Append(s, x)[i].id = 0 => i = Len(s) + 1
                    /\ \A j \in 1..(i - 1) : Append(s, x)[i].id # 0 =>
                          Append(s, x)[j].id < Append(s, x)[i].id
  BY <1>1 DEF Rising
<1>3. CASE i = Len(s) + 1
  BY <1>1, <1>2, <1>3
<1>4. CASE i \in 1..Len(s)
  BY <1>1, <1>2, <1>4 DEF Rising
<1> QED BY <1>1, <1>3, <1>4

(* The first packet, and what is left.                                     *)
LEMMA TailIds ==
  ASSUME NEW s \in Seq(Frames), s # << >>
  PROVE  /\ Tail(s) \in Seq(Frames) /\ Head(s) \in Frames
         /\ Ids(s) = Ids(Tail(s)) \cup {Head(s).id}
         /\ Ids(s) \subseteq Nat
<1>1. /\ Tail(s) \in Seq(Frames) /\ Len(Tail(s)) = Len(s) - 1 /\ Len(s) \in Nat \ {0}
      /\ \A i \in 1..(Len(s) - 1) : Tail(s)[i] = s[i + 1]
      /\ Head(s) = s[1] /\ \A i \in 1..Len(s) : s[i] \in Frames
  OBVIOUS
<1>2. \A i \in 1..Len(s) : i = 1 \/ i - 1 \in 1..(Len(s) - 1)
  BY <1>1
<1>3. \A i \in 1..(Len(s) - 1) : i + 1 \in 1..Len(s)
  BY <1>1
<1>4. 1 \in 1..Len(s)
  BY <1>1
<1>5. Ids(s) \subseteq Nat /\ Head(s) \in Frames
  BY <1>1, <1>4 DEF Ids, Frames
<1>6. ASSUME NEW a \in Ids(s)
      PROVE  a \in Ids(Tail(s)) \cup {Head(s).id}
  <2>1. PICK i \in 1..Len(s) : a = s[i].id
    BY DEF Ids
  <2>2. CASE i = 1
    BY <1>1, <2>1, <2>2
  <2>3. CASE i - 1 \in 1..(Len(s) - 1)
    <3>1. Tail(s)[i - 1] = s[i]
      BY <1>1, <2>3
    <3> QED BY <1>1, <2>1, <2>3, <3>1 DEF Ids
  <2> QED BY <1>2, <2>2, <2>3
<1>7. Ids(Tail(s)) \cup {Head(s).id} \subseteq Ids(s)
  BY <1>1, <1>3, <1>4 DEF Ids
<1> QED BY <1>1, <1>5, <1>6, <1>7

(* It rises still, above the packet taken; behind an Eos is nothing.       *)
LEMMA TailRising ==
  ASSUME NEW s \in Seq(Frames), s # << >>, Rising(s)
  PROVE  /\ Rising(Tail(s))
         /\ \A b \in Ids(Tail(s)) : b # 0 => Head(s).id < b
         /\ Head(s).id = 0 => Tail(s) = << >>
<1>1. /\ Tail(s) \in Seq(Frames) /\ Len(Tail(s)) = Len(s) - 1 /\ Len(s) \in Nat \ {0}
      /\ \A i \in 1..(Len(s) - 1) : Tail(s)[i] = s[i + 1]
      /\ Head(s) = s[1]
  OBVIOUS
<1>2. Rising(Tail(s))
  <2> SUFFICES ASSUME NEW i \in 1..(Len(s) - 1)
               PROVE  /\ Tail(s)[i].id = 0 => i = Len(s) - 1
                      /\ \A j \in 1..(i - 1) : Tail(s)[i].id # 0 =>
                            Tail(s)[j].id < Tail(s)[i].id
    BY <1>1 DEF Rising
  <2>1. i + 1 \in 1..Len(s) /\ Tail(s)[i] = s[i + 1]
    BY <1>1
  <2>2. \A j \in 1..(i - 1) : j + 1 \in 1..((i + 1) - 1) /\ Tail(s)[j] = s[j + 1]
    BY <1>1
  <2>3. s[i + 1].id = 0 => i + 1 = Len(s)
    BY <2>1 DEF Rising
  <2>4. \A j \in 1..((i + 1) - 1) : s[i + 1].id # 0 => s[j].id < s[i + 1].id
    BY <2>1 DEF Rising
  <2>5. Tail(s)[i].id = 0 => i = Len(s) - 1
    <3>1. i \in Int /\ Len(s) \in Int
      BY <1>1
    <3>2. i + 1 = Len(s) => i = Len(s) - 1
      BY <3>1
    <3> QED BY <2>1, <2>3, <3>2
  <2> QED BY <2>1, <2>2, <2>4, <2>5
<1>3. ASSUME NEW b \in Ids(Tail(s)), b # 0
      PROVE  Head(s).id < b
  <2>1. PICK i \in 1..(Len(s) - 1) : b = Tail(s)[i].id
    BY <1>1 DEF Ids
  <2>2. i + 1 \in 1..Len(s) /\ b = s[i + 1].id /\ 1 \in 1..((i + 1) - 1)
    BY <1>1, <2>1
  <2> QED BY <1>1, <1>3, <2>2 DEF Rising
<1>4. ASSUME Head(s).id = 0
      PROVE  Tail(s) = << >>
  <2>1. 1 \in 1..Len(s)
    BY <1>1
  <2>2. 1 = Len(s)
    BY <1>1, <1>4, <2>1 DEF Rising
  <2>3. Len(Tail(s)) = 0
    <3>1. Len(Tail(s)) = 1 - 1
      BY <1>1, <2>2, Zenon
    <3> QED BY <3>1
  <2>4. \A t \in Seq(Frames) : Len(t) = 0 => t = << >>
    OBVIOUS
  <2> QED BY <1>1, <2>3, <2>4
<1> QED BY <1>2, <1>3, <1>4

(* Sequences of no packet and of one.                                      *)
LEMMA ShortIds ==
  /\ Ids(<< >>) = {} /\ Rising(<< >>) /\ << >> \in Seq(Frames)
  /\ \A x \in Frames : /\ Ids(<<x>>) = {x.id} /\ <<x>> \in Seq(Frames)
                       /\ Len(<<x>>) = 1
  /\ \A h \in Seq(Frames) : Len(h) <= 1 /\ h # << >> =>
        h[1] \in Frames /\ Ids(h) = {h[1].id}
<1>1. Ids(<< >>) = {} /\ Rising(<< >>) /\ << >> \in Seq(Frames)
  BY DEF Ids, Rising
<1>2. ASSUME NEW x \in Frames
      PROVE  Ids(<<x>>) = {x.id} /\ <<x>> \in Seq(Frames) /\ Len(<<x>>) = 1
  <2>1. <<x>> \in Seq(Frames) /\ Len(<<x>>) = 1 /\ <<x>>[1] = x
    OBVIOUS
  <2>2. 1..1 = {1}
    OBVIOUS
  <2> QED BY <2>1, <2>2 DEF Ids
<1>3. ASSUME NEW h \in Seq(Frames), Len(h) <= 1, h # << >>
      PROVE  h[1] \in Frames /\ Ids(h) = {h[1].id}
  <2>0. Len(h) \in Nat /\ (Len(h) = 0 => h = << >>)
    BY <1>3
  <2>1. Len(h) = 1 /\ h[1] \in Frames
    BY <1>3, <2>0
  <2>2. 1..1 = {1}
    OBVIOUS
  <2> QED BY <2>1, <2>2 DEF Ids
<1> QED BY <1>1, <1>2, <1>3

-----------------------------------------------------------------------------
(* What each step does to the chain of frames.  A source's next frame goes *)
(* into link 1 when there is no element, ...                               *)
LEMMA ChainPush ==
  ASSUME NEW g, NEW q, NEW gone, NEW m, NEW x \in Frames, x.id \in {0, m + 1},
         Chain(g, q, << >>, << >>, gone, m), ~HasEos(q)
  PROVE  Chain(g, Append(q, x), << >>, << >>, gone, IF x.id = 0 THEN m ELSE m + 1)
<1> USE DEF Chain
<1>1. /\ Append(q, x) \in Seq(Frames) /\ Ids(Append(q, x)) = Ids(q) \cup {x.id}
      /\ Ids(q) \subseteq Nat /\ Ids(<< >>) = {}
  BY AppendIds, ShortIds
<1>2. Ids(g) \cup Ids(q) \subseteq 0..m
  BY DEF Covers
<1>3. Rising(Append(q, x))
  BY <1>2, AppendRising DEF Ordered
<1>4. Before(g, Append(q, x))
  BY <1>1, <1>2 DEF Ordered, Before
<1>5. Ordered(g, Append(q, x), << >>, << >>)
  BY <1>1, <1>3, <1>4 DEF Ordered, Before
<1>6. Covers(g, Append(q, x), << >>, << >>, gone, IF x.id = 0 THEN m ELSE m + 1)
  BY <1>1 DEF Covers
<1> QED BY <1>1, <1>5, <1>6

(* ... and into the feed when there is one; an Eos likewise.               *)
LEMMA ChainFeed ==
  ASSUME NEW g, NEW q, NEW h, NEW f, NEW gone, NEW m, NEW x \in Frames, x.id \in {0, m + 1},
         Chain(g, q, h, f, gone, m), ~HasEos(f)
  PROVE  Chain(g, q, h, Append(f, x), gone, IF x.id = 0 THEN m ELSE m + 1)
<1> USE DEF Chain
<1>1. /\ Append(f, x) \in Seq(Frames) /\ Ids(Append(f, x)) = Ids(f) \cup {x.id}
  BY AppendIds
<1>2. Ids(g) \cup Ids(q) \cup Ids(h) \cup Ids(f) \subseteq 0..m
  BY DEF Covers
<1>3. Rising(Append(f, x))
  BY <1>2, AppendRising DEF Ordered
<1>4. Before(g, Append(f, x)) /\ Before(q, Append(f, x)) /\ Before(h, Append(f, x))
  BY <1>1, <1>2 DEF Ordered, Before
<1>5. Ordered(g, q, h, Append(f, x))
  BY <1>3, <1>4 DEF Ordered
<1>6. Covers(g, q, h, Append(f, x), gone, IF x.id = 0 THEN m ELSE m + 1)
  <2>1. CASE x.id = 0
    BY <1>1, <2>1 DEF Covers
  <2>2. CASE x.id = m + 1
    <3>1. m + 1 # 0 /\ 0..m \subseteq 0..(m + 1) /\ 1..m \subseteq 1..(m + 1)
          /\ 1..(m + 1) \subseteq 1..m \cup {m + 1} /\ m + 1 \in 0..(m + 1)
      OBVIOUS
    <3> QED BY <1>1, <2>2, <3>1 DEF Covers
  <2> QED BY <2>1, <2>2
<1> QED BY <1>1, <1>5, <1>6

(* A frame that a source could not push is lost.                           *)
LEMMA ChainLose ==
  ASSUME NEW g, NEW q, NEW h, NEW f, NEW gone, NEW m, Chain(g, q, h, f, gone, m)
  PROVE  Chain(g, q, h, f, gone \cup {m + 1}, m + 1)
<1>1. Covers(g, q, h, f, gone \cup {m + 1}, m + 1)
  BY DEF Chain, Covers
<1> QED BY <1>1 DEF Chain

(* The consumer takes a frame, ...                                         *)
LEMMA ChainTake ==
  ASSUME NEW g, NEW q, NEW h, NEW f, NEW gone, NEW m, Chain(g, q, h, f, gone, m),
         q # << >>, Head(q).id # 0
  PROVE  Chain(Append(g, Head(q)), Tail(q), h, f, gone, m)
<1> USE DEF Chain
<1>1. /\ Tail(q) \in Seq(Frames) /\ Head(q) \in Frames
      /\ Ids(q) = Ids(Tail(q)) \cup {Head(q).id}
  BY TailIds
<1>2. Rising(Tail(q)) /\ \A b \in Ids(Tail(q)) : b # 0 => Head(q).id < b
  BY TailRising DEF Ordered
<1>3. /\ Append(g, Head(q)) \in Seq(Frames)
      /\ Ids(Append(g, Head(q))) = Ids(g) \cup {Head(q).id}
  BY <1>1, AppendIds
<1>4. Rising(Append(g, Head(q)))
  BY <1>1, AppendRising DEF Ordered, Before
<1>5. Ordered(Append(g, Head(q)), Tail(q), h, f)
  BY <1>1, <1>2, <1>3, <1>4 DEF Ordered, Before, HasEos
<1>6. Covers(Append(g, Head(q)), Tail(q), h, f, gone, m)
  BY <1>1, <1>3 DEF Covers
<1> QED BY <1>1, <1>3, <1>5, <1>6

(* ... or the end of the stream, with nothing behind it.                   *)
LEMMA ChainEnd ==
  ASSUME NEW g, NEW q, NEW gone, NEW m, Chain(g, q, << >>, << >>, gone, m),
         q # << >>, Head(q).id = 0
  PROVE  Tail(q) = << >> /\ Chain(g, << >>, << >>, << >>, gone, m)
<1> USE DEF Chain
<1>1. Tail(q) = << >> /\ Ids(q) = {0} /\ Ids(<< >>) = {} /\ Rising(<< >>)
      /\ << >> \in Seq(Frames)
  BY TailIds, TailRising, ShortIds DEF Ordered
<1>2. Ordered(g, << >>, << >>, << >>)
  BY <1>1 DEF Ordered, Before
<1>3. Covers(g, << >>, << >>, << >>, gone, m)
  BY <1>1 DEF Covers
<1> QED BY <1>1, <1>2, <1>3

(* The element lets out what it held, ...                                  *)
LEMMA ChainEmit ==
  ASSUME NEW g, NEW q, NEW h, NEW f, NEW gone, NEW m, NEW x \in Frames,
         Chain(g, q, h, f, gone, m), h # << >>, x.id = h[1].id, ~HasEos(q)
  PROVE  Chain(g, Append(q, x), << >>, f, gone, m)
<1> USE DEF Chain
<1>1. /\ Append(q, x) \in Seq(Frames) /\ Ids(Append(q, x)) = Ids(q) \cup {x.id}
      /\ Ids(<< >>) = {} /\ << >> \in Seq(Frames)
  BY AppendIds, ShortIds
<1>2. Ids(h) = {x.id} /\ x.id # 0
  BY ShortIds DEF Ordered, HasEos
<1>3. Rising(Append(q, x))
  BY <1>2, AppendRising DEF Ordered, Before
<1>4. Before(g, Append(q, x)) /\ Before(Append(q, x), f)
  BY <1>1, <1>2 DEF Ordered, Before
<1>5. Ordered(g, Append(q, x), << >>, f)
  BY <1>1, <1>3, <1>4 DEF Ordered, Before, HasEos
<1>6. Covers(g, Append(q, x), << >>, f, gone, m)
  BY <1>1, <1>2 DEF Covers
<1> QED BY <1>1, <1>5, <1>6

(* ... keeps the next frame, ...                                           *)
LEMMA ChainHold ==
  ASSUME NEW g, NEW q, NEW f, NEW gone, NEW m, Chain(g, q, << >>, f, gone, m),
         f # << >>, Head(f).id # 0
  PROVE  Chain(g, q, <<Head(f)>>, Tail(f), gone, m)
<1> USE DEF Chain
<1>1. /\ Tail(f) \in Seq(Frames) /\ Head(f) \in Frames
      /\ Ids(f) = Ids(Tail(f)) \cup {Head(f).id}
  BY TailIds
<1>2. Rising(Tail(f)) /\ \A b \in Ids(Tail(f)) : b # 0 => Head(f).id < b
  BY TailRising DEF Ordered
<1>3. /\ <<Head(f)>> \in Seq(Frames) /\ Ids(<<Head(f)>>) = {Head(f).id}
      /\ Len(<<Head(f)>>) = 1 /\ Ids(<< >>) = {}
  BY <1>1, ShortIds
<1>4. Ordered(g, q, <<Head(f)>>, Tail(f))
  BY <1>1, <1>2, <1>3 DEF Ordered, Before, HasEos
<1>5. Covers(g, q, <<Head(f)>>, Tail(f), gone, m)
  BY <1>1, <1>3 DEF Covers
<1> QED BY <1>1, <1>3, <1>4, <1>5

(* ... or is gone, and what it had with it.                                *)
LEMMA ChainCut ==
  ASSUME NEW g, NEW q, NEW h, NEW f, NEW gone, NEW m, Chain(g, q, h, f, gone, m)
  PROVE  Chain(g, q, << >>, << >>, gone \cup ((Ids(h) \cup Ids(f)) \ {0}), m)
<1> USE DEF Chain
<1>1. Ids(<< >>) = {} /\ Rising(<< >>) /\ << >> \in Seq(Frames) /\ Len(<< >>) = 0
  BY ShortIds
<1>2. Ordered(g, q, << >>, << >>)
  BY <1>1 DEF Ordered, Before, HasEos
<1>3. Covers(g, q, << >>, << >>, gone \cup ((Ids(h) \cup Ids(f)) \ {0}), m)
  <2>1. \A a \in 0..m : a # 0 => a \in 1..m
    OBVIOUS
  <2>2. gone \cup ((Ids(h) \cup Ids(f)) \ {0}) \subseteq 1..m
    BY <2>1 DEF Covers
  <2>3. \A a \in 1..m : a # 0
    OBVIOUS
  <2> QED BY <1>1, <2>2, <2>3 DEF Covers
<1> QED BY <1>1, <1>2, <1>3

-----------------------------------------------------------------------------
(* The edge.  Which operation a stage of the service belongs to, and what  *)
(* it has in hand.                                                         *)
Running == elem.pc \in {"recv", "set"}
Removing == {"remove", "drop", "detachOwn", "asleepOwn", "awaitElement"}
Draining == {"drop", "detachOwn", "asleepOwn"}

StageInv ==
    /\ svc.pc \in {"insert", "spliced"} => svc.op = "insert"
    /\ svc.pc \in Removing => svc.op = "remove"
    /\ svc.op = "insert" /\ svc.pc \in Parking \cup {"insert"} => elem.pc = "none"
    /\ svc.op = "remove" \/ elem.done => elem.pc # "none"
    /\ svc.pc \in Parking \cup Setting \cup {"idle", "detachOwn", "asleepOwn"} =>
          svc.hand = Dead
    /\ svc.pc \in Draining => own.drain
    /\ svc.pc = "awaitElement" => svc.hand = 1 /\ elem.pc \in Ended

(* Where the edge runs: straight into link 1 without an element, through   *)
(* its feed with one, and nowhere once it ended, until a remove puts the   *)
(* output it claimed back.                                                 *)
PathInv ==
    /\ ~Running => elem.in = Dead /\ elem.out = Dead /\ elem.held = << >>
    /\ elem.pc = "none" => Above \subseteq {Dead, 1}
    /\ Running => /\ elem.out = 1 /\ elem.in # 1 /\ own.detached = Dead /\ ~own.gone
                  /\ Above \subseteq {Dead, elem.in}
                  /\ own.claimed => svc.pc \in Draining
    /\ elem.pc \in Ended => 1 \notin Above \/ svc.pc = "awaitElement"
    /\ own.detached # Dead =>
          own.detached = 1 /\ elem.pc \in Ended /\ svc.pc \in Draining

(* When a link ends: its sender is nowhere, and the element's feed is not  *)
(* dropped before a drain was asked for or the end of the stream is in it. *)
EndInv ==
    /\ HasEos(queue[1]) \/ cons.pc = "ended" => 1 \notin Places
    /\ cons.pc = "ended" => queue[1] = << >>
    /\ \A l \in Links : l = 1 \/ l = elem.in \/ queue[l] = << >>
    /\ Running /\ HasEos(queue[elem.in]) =>
          elem.in \notin Above /\ prod.pc \in Ended /\ svc.pc # "awaitSource"
    /\ Running => elem.in \in Above \/ own.drain \/ HasEos(queue[elem.in])

Feed == IF Running THEN queue[elem.in] ELSE << >>
ChainInv == Chain(cons.got, queue[1], elem.held, Feed, lost, made)

EdgeInv == PathInv /\ EndInv /\ ChainInv

(* A step that moves links about above the element, and drops none, keeps  *)
(* the edge as it is.                                                      *)
LEMMA EdgeKept ==
  ASSUME EdgeInv,
         UNCHANGED <<cons, queue, made, lost>>,
         elem'.in = elem.in, elem'.out = elem.out, elem'.held = elem.held,
         elem'.pc = elem.pc \/ (Running /\ Running') \/ (elem.pc \in Ended /\ elem'.pc \in Ended),
         own'.detached = own.detached, own'.gone = own.gone, own'.claimed = own.claimed,
         own'.drain = own.drain,
         Above' \cup {Dead} = Above \cup {Dead},
         svc.pc \in Draining => svc'.pc \in Draining \/ (~Running /\ own.detached = Dead),
         svc.pc = "awaitElement" => svc'.pc = "awaitElement",
         prod.pc \in Ended /\ svc.pc # "awaitSource" =>
            prod'.pc \in Ended /\ svc'.pc # "awaitSource",
         Running => elem.in # Dead
  PROVE  EdgeInv'
<1>0. Dead # 1
  BY DEF Dead
<1>1. Running' = Running /\ (elem'.pc = "none" <=> elem.pc = "none")
      /\ (elem'.pc \in Ended <=> elem.pc \in Ended)
  BY DEF Running, Ended
<1>2. PathInv'
  BY <1>0, <1>1 DEF EdgeInv, PathInv
<1>3. 1 \in Places' <=> 1 \in Places
  BY <1>0 DEF Places
<1>4. EndInv'
  BY <1>0, <1>1, <1>3 DEF EdgeInv, EndInv
<1>5. ChainInv'
  BY <1>1 DEF EdgeInv, ChainInv, Feed
<1> QED BY <1>2, <1>4, <1>5 DEF EdgeInv

(* The stages keep to their operation.                                     *)
LEMMA StageStep ==
  ASSUME ProtocolInv, StageInv, PathInv, Next
  PROVE  StageInv'
<1> USE TypedShaped DEF Shaped, EndpointFields
<1>0. /\ svc.pc \in Parking \cup Stages \cup Setting \cup {"idle", "awaitSource"}
      /\ Typed
  BY DEF ProtocolInv, Typed, SvcOK
<1>1. ASSUME svc'.op = svc.op, svc'.hand = svc.hand, own'.drain = own.drain,
             svc'.pc = svc.pc \/ (svc.pc \in Parking /\ svc'.pc \in Parking)
                 \/ (svc.pc = "asleepOwn" /\ svc'.pc = "detachOwn"),
             elem'.done = elem.done,
             elem'.pc = elem.pc \/ (elem.pc \notin Ended \cup {"none"} /\ elem'.pc # "none")
                 \/ (elem.pc = "returned" /\ elem'.pc = "over")
      PROVE  StageInv'
  BY <1>0, <1>1 DEF StageInv, Parking, Setting, Removing, Draining, Stages, Ended
<1>2. ASSUME svc'.pc = "idle", svc'.op = "none", svc'.hand = Dead, elem'.pc = elem.pc,
             elem'.done => elem.done \/ svc.op = "remove"
      PROVE  StageInv'
  BY <1>2 DEF StageInv, Parking, Removing, Draining
<1>3. CASE ProducerGate
  <2>0. svc.pc \notin Stages
    BY <1>3 DEF ProducerGate, ProtocolInv, ParkInv
  <2>1. svc' = svc \/ (svc' = [svc EXCEPT !.pc = "detach"] /\ svc.pc = "asleep")
    BY <1>3, <2>0 DEF ProducerGate, Stages
  <2>2. UNCHANGED <<own, elem>>
    BY <1>3 DEF ProducerGate
  <2> QED BY <1>0, <1>1, <2>1, <2>2 DEF Parking
<1>4. CASE SendFrame \/ SourceHandback \/ Consume
  <2>1. UNCHANGED <<own, elem, svc>>
    BY <1>4 DEF SendFrame, SourceHandback, Consume
  <2> QED BY <1>1, <2>1
<1>5. CASE SendEos \/ SendFails
  <2>1. svc' = WokenService(up, "asleep", "detach") /\ UNCHANGED <<own, elem>>
    BY <1>5 DEF SendEos, SendFails
  <2>2. /\ svc'.op = svc.op /\ svc'.hand = svc.hand
        /\ svc'.pc = svc.pc \/ (svc.pc = "asleep" /\ svc'.pc = "detach")
    BY <1>0, <2>1, WokenFacts
  <2> QED BY <1>1, <2>1, <2>2 DEF Parking
<1>6. CASE DrainTakes \/ ElementFrame \/ ElementFlush \/ ElementHandback
  <2>1. svc' = svc /\ own'.drain = own.drain /\ elem'.done = elem.done
    BY <1>0, <1>6 DEF DrainTakes, ElementFrame, ElementFlush, ElementHandback, Observed
  <2>2. elem'.pc = elem.pc \/ (elem.pc = "recv" /\ elem'.pc = "set")
        \/ (elem.pc = "returned" /\ elem'.pc = "over")
    BY <1>0, <1>6 DEF DrainTakes, ElementFrame, ElementFlush, ElementHandback
  <2> QED BY <1>1, <2>1, <2>2 DEF Ended
<1>7. CASE DrainAnswers
  <2>1. /\ svc'.pc = "idle" /\ svc'.op = "none" /\ svc'.hand = Dead
        /\ elem'.pc = "recv" /\ elem.pc = "set"
    BY <1>0, <1>7 DEF DrainAnswers, Finish
  <2> QED BY <2>1 DEF StageInv, Parking, Removing, Draining
<1>8. CASE ElementEnds \/ ElementFails
  <2>1. ElementGone /\ elem.pc = "recv"
    BY <1>8 DEF ElementEnds, ElementFails
  <2>2. own'.drain = own.drain /\ elem'.done = elem.done /\ elem'.pc = "returned"
    BY <1>0, <2>1 DEF ElementGone, Gone
  <2>3. /\ svc'.op = svc.op /\ svc'.hand = svc.hand
        /\ svc'.pc = svc.pc \/ (svc.pc = "asleepOwn" /\ svc'.pc = "detachOwn")
    BY <1>0, <2>1, WokenFacts DEF ElementGone
  <2> QED BY <1>1, <2>1, <2>2, <2>3 DEF Ended
<1>9. ASSUME NEW op \in Ops, Begin(op)
      PROVE  StageInv'
  <2>1. /\ svc'.pc = "detach" /\ svc'.op = op /\ svc'.hand = svc.hand /\ svc.pc = "idle"
        /\ elem'.pc = elem.pc /\ own' = own
        /\ op = "insert" => elem.pc = "none"
        /\ op = "remove" => elem.done
        /\ elem'.done => elem.done
    BY <1>0, <1>9 DEF Begin
  <2> QED BY <2>1 DEF StageInv, Parking, Removing, Draining
<1>10. CASE BeginSet
  <2>1. /\ svc'.pc = "answer" /\ svc'.op = "set" /\ svc'.hand = svc.hand /\ svc.pc = "idle"
        /\ UNCHANGED <<elem, own>>
    BY <1>0, <1>10 DEF BeginSet
  <2> QED BY <2>1 DEF StageInv, Parking, Removing, Draining
<1>11. CASE Withdraw
  <2>1. UNCHANGED <<elem, own>> /\ svc.pc = "answer"
        /\ (svc' = Finish("TimedOut") \/ svc' = [svc EXCEPT !.pc = "answerLate"])
    BY <1>11 DEF Withdraw
  <2>2. CASE svc' = Finish("TimedOut")
    BY <1>0, <1>2, <2>1, <2>2 DEF Finish
  <2>3. CASE svc' = [svc EXCEPT !.pc = "answerLate"]
    BY <1>0, <2>1, <2>3 DEF StageInv, Parking, Setting, Removing, Draining
  <2> QED BY <2>1, <2>2, <2>3
<1>12. CASE DeadlinePasses
  BY <1>0, <1>1, <1>12 DEF DeadlinePasses, Parking
<1>13. CASE PollDetached
  <2>1. CASE up.detached # Dead
    <3>1. svc.op \in {"insert", "remove", "replace"}
      BY <1>13 DEF PollDetached, ProtocolInv, Typed, SvcOK, Parking
    <3>2. svc'.pc = svc.op /\ svc'.op = svc.op /\ svc.pc = "detach"
          /\ UNCHANGED <<elem, own>>
      BY <1>0, <1>13, <2>1 DEF PollDetached
    <3> QED BY <3>1, <3>2 DEF StageInv, Parking, Setting, Removing, Draining
  <2>2. CASE up.detached = Dead /\ up.gone
    <3>1. /\ svc'.pc = "idle" /\ svc'.op = "none" /\ svc'.hand = Dead
          /\ elem' = Restored
      BY <1>0, <1>13, <2>2 DEF PollDetached, Finish
    <3>2. elem'.pc = elem.pc /\ (elem'.done => elem.done \/ svc.op = "remove")
      BY <1>0, <3>1 DEF Restored
    <3> QED BY <1>2, <3>1, <3>2
  <2>3. CASE up.detached = Dead /\ ~up.gone
    <3>1. /\ svc' = [svc EXCEPT !.pc = "asleep"] /\ svc.pc = "detach"
          /\ UNCHANGED <<elem, own>>
      BY <1>13, <2>3 DEF PollDetached
    <3> QED BY <1>0, <1>1, <3>1 DEF Parking
  <2> QED BY <2>1, <2>2, <2>3
<1>14. CASE CancelPark
  <2>1. /\ svc'.pc = "idle" /\ svc'.op = "none" /\ svc'.hand = Dead
        /\ elem' = Restored
    BY <1>0, <1>14 DEF CancelPark, Finish
  <2>2. elem'.pc = elem.pc /\ (elem'.done => elem.done \/ svc.op = "remove")
    BY <1>0, <2>1 DEF Restored
  <2> QED BY <1>2, <2>1, <2>2
<1>15. CASE Splice
  <2>1. svc'.pc = "spliced" /\ svc'.op = svc.op /\ svc.pc = "insert" /\ elem'.pc = "recv"
    BY <1>0, <1>15 DEF Splice
  <2> QED BY <2>1 DEF StageInv, Parking, Setting, Removing, Draining
<1>16. CASE SpliceUnpark \/ Rehome
  <2>1. svc'.pc = "idle" /\ svc'.op = "none" /\ svc'.hand = Dead /\ elem' = elem
    BY <1>0, <1>16 DEF SpliceUnpark, Rehome, Finish
  <2> QED BY <1>2, <2>1
<1>17. CASE Claim
  <2>1. svc'.pc = "drop" /\ svc'.op = svc.op /\ svc.pc = "remove" /\ elem' = elem
        /\ own'.drain = TRUE
    BY <1>0, <1>17 DEF Claim
  <2> QED BY <2>1 DEF StageInv, Parking, Setting, Removing, Draining
<1>18. CASE DropFeed
  <2>1. /\ svc'.pc = "detachOwn" /\ svc'.op = svc.op /\ svc.pc = "drop" /\ svc'.hand = Dead
        /\ UNCHANGED <<elem, own>>
    BY <1>0, <1>18 DEF DropFeed
  <2> QED BY <2>1 DEF StageInv, Parking, Setting, Removing, Draining
<1>19. CASE PollOwn
  <2>1. CASE own.detached # Dead
    <3>1. /\ svc'.pc = "awaitElement" /\ svc'.op = svc.op /\ svc.pc = "detachOwn"
          /\ svc'.hand = own.detached /\ elem' = elem
      BY <1>0, <1>19, <2>1 DEF PollOwn
    <3> QED BY <2>1, <3>1 DEF StageInv, PathInv, Parking, Setting, Removing, Draining
  <2>2. CASE own.detached = Dead /\ own.gone
    <3>1. svc'.pc = "idle" /\ svc'.op = "none" /\ svc'.hand = Dead /\ elem' = elem
      BY <1>0, <1>19, <2>2 DEF PollOwn, Finish
    <3> QED BY <1>2, <3>1
  <2>3. CASE own.detached = Dead /\ ~own.gone
    <3>1. /\ svc'.pc = "asleepOwn" /\ svc'.op = svc.op /\ svc.pc = "detachOwn"
          /\ svc'.hand = svc.hand /\ elem' = elem /\ own'.drain = own.drain
      BY <1>0, <1>19, <2>3 DEF PollOwn
    <3> QED BY <3>1 DEF StageInv, Parking, Setting, Removing, Draining
  <2> QED BY <2>1, <2>2, <2>3
<1>20. CASE Bypass
  <2>1. svc'.pc = "idle" /\ svc'.op = "none" /\ svc'.hand = Dead /\ elem'.done = FALSE
    BY <1>0, <1>20 DEF Bypass, Finish, NoElement
  <2> QED BY <2>1 DEF StageInv, Parking, Removing, Draining
<1>21. CASE Retire
  <2>1. svc'.pc = "awaitSource" /\ svc'.op = svc.op /\ elem' = elem
    BY <1>0, <1>21 DEF Retire
  <2> QED BY <2>1 DEF StageInv, Parking, Setting, Removing, Draining
<1> QED BY <1>3, <1>4, <1>5, <1>6, <1>7, <1>8, <1>9, <1>10, <1>11, <1>12, <1>13, <1>14,
        <1>15, <1>16, <1>17, <1>18, <1>19, <1>20, <1>21
     DEF Next, ProducerNext, ElementNext, ServiceNext

(* Nobody holds a closed link.                                             *)
LEMMA ClosedFacts ==
  ASSUME NEW l, Closed(l)
  PROVE  l \notin Places
<1>1. l # prod.link
  <2>1. l = prod.link => <<"producer", prod.link>> \in Holders(l)
    BY DEF Holders
  <2> QED BY <2>1 DEF Closed
<1>2. l # up.detached
  <2>1. l = up.detached => <<"detached", up.detached>> \in Holders(l)
    BY DEF Holders
  <2> QED BY <2>1 DEF Closed
<1>3. l # up.staged
  <2>1. l = up.staged => <<"staged", up.staged>> \in Holders(l)
    BY DEF Holders
  <2> QED BY <2>1 DEF Closed
<1>4. l # svc.hand
  <2>1. l = svc.hand => <<"service", svc.hand>> \in Holders(l)
    BY DEF Holders
  <2> QED BY <2>1 DEF Closed
<1>5. l # elem.out
  <2>1. l = elem.out => <<"element", elem.out>> \in Holders(l)
    BY DEF Holders
  <2> QED BY <2>1 DEF Closed
<1>6. l # own.detached
  <2>1. l = own.detached => <<"claimed", own.detached>> \in Holders(l)
    BY DEF Holders
  <2> QED BY <2>1 DEF Closed
<1> QED BY <1>1, <1>2, <1>3, <1>4, <1>5, <1>6 DEF Places, Above

(* The source's steps keep the edge.                                       *)
LEMMA ProducerEdge ==
  ASSUME ProtocolInv, StageInv, EdgeInv, ProducerNext
  PROVE  EdgeInv'
<1> USE TypedShaped DEF Shaped, EndpointFields
<1>0. /\ Typed /\ LinksOK /\ ParkInv /\ PlacesApart /\ PathInv /\ EndInv /\ ChainInv
      /\ prod.link \in LinkOrDead
      /\ Running => elem.in \in Links /\ elem.in # Dead
  BY LinkFacts DEF ProtocolInv, PlacesInv, EdgeInv, Typed, ElemOK, ProdOK, Running
<1>1. CASE ProducerGate
  <2>0. prod.pc = "gate" /\ svc.pc \notin Stages /\ up.detached = Dead
        /\ (up.staged # Dead => prod.link = Dead)
    BY <1>0, <1>1 DEF ProducerGate, ParkInv
  <2>1. /\ svc'.hand = svc.hand
        /\ svc'.pc = svc.pc \/ (svc.pc = "asleep" /\ svc'.pc = "detach")
    <3>1. svc' = svc \/ (svc' = [svc EXCEPT !.pc = "detach"] /\ svc.pc = "asleep")
      BY <1>1, <2>0 DEF ProducerGate, Stages
    <3> QED BY <1>0, <3>1
  <2>2. Above' \cup {Dead} = Above \cup {Dead}
    <3>1. CASE ~up.pending
      BY <1>0, <1>1, <2>1, <3>1 DEF ProducerGate, Above
    <3>2. CASE up.pending /\ up.park /\ up.parked /\ up.staged = Dead
      BY <1>0, <1>1, <2>1, <3>2 DEF ProducerGate, NextLink, Above
    <3>3. CASE up.pending /\ up.park /\ ~(up.parked /\ up.staged = Dead)
      <4>1. prod'.link = Dead /\ up'.staged = Dead /\ up'.detached = NextLink
        BY <1>0, <1>1, <3>3 DEF ProducerGate
      <4> QED BY <2>0, <2>1, <4>1 DEF NextLink, Above
    <3>4. CASE up.pending /\ ~up.park
      <4>1. prod'.link = NextLink /\ up'.staged = Dead /\ up'.detached = up.detached
        BY <1>0, <1>1, <3>4 DEF ProducerGate
      <4> QED BY <2>0, <2>1, <4>1 DEF NextLink, Above
    <3> QED BY <3>1, <3>2, <3>3, <3>4
  <2>3. UNCHANGED <<own, elem, cons, queue, made, lost>>
    BY <1>1 DEF ProducerGate
  <2> QED BY <1>0, <2>0, <2>1, <2>2, <2>3, EdgeKept DEF Ended, Draining
<1>2. ASSUME NEW x \in Frames, x.id \in {0, made + 1}, prod.pc = "send",
             prod.link # Dead, Reader(prod.link),
             queue' = [queue EXCEPT ![prod.link] = Append(@, x)],
             made' = IF x.id = 0 THEN made ELSE made + 1,
             UNCHANGED <<own, elem, cons, lost>>,
             svc'.hand = svc.hand,
             svc'.pc = svc.pc \/ (svc.pc = "asleep" /\ svc'.pc = "detach"),
             up'.detached = up.detached, up'.staged = up.staged,
             prod'.link = IF x.id = 0 THEN Dead ELSE prod.link,
             x.id = 0 => prod'.pc \in Ended
      PROVE  EdgeInv'
  <2>0. /\ prod.link \in Links /\ prod.link \in Above /\ prod.link \in Places
        /\ made \in Nat /\ queue \in [Links -> Seq(Frames)]
        /\ x.id # 0 => Above' = Above
        /\ x.id = 0 => Above' \subseteq Above \cup {Dead} /\ prod.link \notin Above'
        /\ Above' \subseteq Above \cup {Dead}
    BY <1>0, <1>2, LinkFacts DEF Above, Places, LinksOK, PlacesApart, Apart
  <2>1. PathInv'
    BY <1>0, <1>2, <2>0 DEF PathInv, Running, Draining, Dead
  <2>2. /\ queue'[prod.link] = Append(queue[prod.link], x)
        /\ \A l \in Links : l # prod.link => queue'[l] = queue[l]
        /\ Ids(Append(queue[prod.link], x)) = Ids(queue[prod.link]) \cup {x.id}
    BY <1>2, <2>0, AppendIds
  <2>3. CASE Running
    <3>1. prod.link = elem.in /\ elem.in # 1 /\ elem.in \in Links /\ 1 \in Links
      BY <1>0, <1>2, <2>0, <2>3, LinkFacts DEF PathInv
    <3>2. ~HasEos(queue[elem.in]) /\ svc.pc # "awaitSource"
      BY <1>0, <1>2, <2>3, <3>1 DEF EndInv, ParkInv, Ended
    <3>3. Chain(cons.got, queue[1], elem.held, Append(queue[elem.in], x), lost, made')
      BY <1>0, <1>2, <2>3, <3>1, <3>2, ChainFeed DEF ChainInv, Feed
    <3>4. Running' /\ Feed' = Append(queue[elem.in], x) /\ queue'[1] = queue[1]
      BY <1>2, <2>2, <2>3, <3>1 DEF Feed, Running
    <3>5. ChainInv'
      BY <1>2, <3>3, <3>4 DEF ChainInv
    <3>6. 1 \in Places' => 1 \in Places
      BY <1>2, <2>0, LinkFacts DEF Places, Dead
    <3>7. EndInv'
      <4>1. HasEos(queue'[elem.in]) <=> x.id = 0
        BY <1>2, <2>2, <3>1, <3>2 DEF HasEos
      <4>2. svc'.pc # "awaitSource"
        BY <1>2, <3>2
      <4>3. x.id # 0 => elem.in \in Above'
        BY <2>0, <3>1
      <4> QED BY <1>0, <1>2, <2>0, <2>2, <3>1, <3>4, <3>6, <4>1, <4>2, <4>3 DEF EndInv
    <3> QED BY <2>1, <3>5, <3>7 DEF EdgeInv
  <2>4. CASE ~Running
    <3>1. prod.link = 1 /\ cons.pc = "recv" /\ elem.in = Dead /\ elem.held = << >>
      BY <1>0, <1>2, <2>4 DEF PathInv, Reader
    <3>2. ~HasEos(queue[1]) /\ ~Running' /\ Feed = << >> /\ Feed' = << >>
      BY <1>0, <1>2, <2>0, <2>4, <3>1 DEF EndInv, Feed, Running
    <3>3. Chain(cons.got, Append(queue[1], x), << >>, << >>, lost, made')
      BY <1>0, <1>2, <3>1, <3>2, ChainPush DEF ChainInv
    <3>4. ChainInv'
      BY <1>2, <2>2, <3>1, <3>2, <3>3 DEF ChainInv
    <3>5. HasEos(queue'[1]) => 1 \notin Places'
      <4>1. HasEos(queue'[1]) => x.id = 0
        BY <2>2, <3>1, <3>2 DEF HasEos
      <4>2. 1 \notin {elem.out, own.detached}
        BY <1>0, <3>1 DEF PlacesApart, Apart, Dead
      <4> QED BY <1>2, <2>0, <3>1, <4>1, <4>2 DEF Places
    <3>6. EndInv'
      BY <1>0, <1>2, <2>2, <3>1, <3>2, <3>5 DEF EndInv
    <3> QED BY <2>1, <3>4, <3>6 DEF EdgeInv
  <2> QED BY <2>3, <2>4
<1>3. CASE SendFrame
  <2> DEFINE x == [id |-> made + 1, seq |-> prod.raw + Shift(up, prod.raw)]
  <2>1. made \in Nat /\ made + 1 # 0 /\ prod.raw \in Int
    BY <1>0 DEF LinksOK, Typed, ProdOK
  <2>2. x \in Frames /\ x.id = made + 1
    BY <1>0, <2>1, ObservedType DEF Frames, Typed
  <2>3. /\ prod.pc = "send" /\ prod.link # Dead /\ Reader(prod.link)
        /\ queue' = [queue EXCEPT ![prod.link] = Append(@, x)] /\ made' = made + 1
        /\ UNCHANGED <<own, elem, cons, lost, svc>>
        /\ up'.detached = up.detached /\ up'.staged = up.staged /\ prod'.link = prod.link
    BY <1>0, <1>3 DEF SendFrame, Observed
  <2> HIDE DEF x
  <2> QED BY <1>2, <2>1, <2>2, <2>3
<1>4. CASE SendEos
  <2> DEFINE x == [id |-> 0, seq |-> None]
  <2>1. x \in Frames /\ x.id = 0
    BY DEF Frames, None
  <2>2. /\ prod.pc = "send" /\ prod.link # Dead /\ Reader(prod.link)
        /\ queue' = [queue EXCEPT ![prod.link] = Append(@, x)] /\ made' = made
        /\ UNCHANGED <<own, elem, cons, lost>>
        /\ up'.detached = up.detached /\ up'.staged = up.staged
        /\ prod'.link = Dead /\ prod'.pc = "returned"
        /\ svc' = WokenService(up, "asleep", "detach")
    BY <1>0, <1>4 DEF SendEos, Gone, ParkInv
  <2>3. /\ svc'.hand = svc.hand
        /\ svc'.pc = svc.pc \/ (svc.pc = "asleep" /\ svc'.pc = "detach")
    BY <1>0, <2>2, WokenFacts
  <2> HIDE DEF x
  <2> QED BY <1>2, <2>1, <2>2, <2>3 DEF Ended
<1>5. CASE SendFails
  <2>1. /\ prod.pc = "send" /\ (prod.link = Dead \/ ~Reader(prod.link))
        /\ up'.detached = up.detached /\ up'.staged = up.staged
        /\ prod'.link = Dead /\ prod'.pc = "returned"
        /\ svc' = WokenService(up, "asleep", "detach")
        /\ UNCHANGED <<own, elem, cons, queue>>
    BY <1>0, <1>5 DEF SendFails, Gone, ParkInv
  <2>2. /\ svc'.hand = svc.hand
        /\ svc'.pc = svc.pc \/ (svc.pc = "asleep" /\ svc'.pc = "detach")
    BY <1>0, <2>1, WokenFacts
  <2>3. Above' \subseteq Above \cup {Dead} /\ Places' \subseteq Places \cup {Dead}
    BY <2>1, <2>2 DEF Above, Places
  <2>4. PathInv'
    BY <1>0, <2>1, <2>2, <2>3 DEF PathInv, Running, Draining, Dead
  <2>5. Running /\ elem.in \in Above => elem.in \in Above'
    <3>1. Running => prod.link # elem.in
      BY <1>0, <2>1 DEF Reader, PathInv
    <3> QED BY <2>1, <2>2, <3>1 DEF Above
  <2>6. svc'.pc = "awaitSource" => svc.pc = "awaitSource"
    BY <2>2
  <2>7. EndInv'
    BY <1>0, <2>1, <2>3, <2>5, <2>6 DEF EndInv, Running, Dead, Ended
  <2>8. ChainInv'
    <3>1. Feed' = Feed
      BY <2>1 DEF Feed, Running
    <3>2. CASE prod.raw < MaxFrames
      <4>1. made' = made + 1 /\ lost' = lost \cup {made + 1}
        BY <1>5, <3>2 DEF SendFails
      <4> QED BY <1>0, <2>1, <3>1, <4>1, ChainLose DEF ChainInv
    <3>3. CASE ~(prod.raw < MaxFrames)
      <4>1. made' = made /\ lost' = lost
        BY <1>5, <3>3 DEF SendFails
      <4> QED BY <1>0, <2>1, <3>1, <4>1 DEF ChainInv
    <3> QED BY <3>2, <3>3
  <2> QED BY <2>4, <2>7, <2>8 DEF EdgeInv
<1>6. CASE SourceHandback
  <2>1. /\ prod.pc = "returned" /\ prod'.pc = "over" /\ prod'.link = prod.link
        /\ UNCHANGED <<up, own, elem, cons, queue, svc, made, lost>>
    BY <1>0, <1>6 DEF SourceHandback
  <2>2. Above' = Above
    BY <2>1 DEF Above
  <2> QED BY <1>0, <2>1, <2>2, EdgeKept DEF Ended
<1> QED BY <1>1, <1>3, <1>4, <1>5, <1>6 DEF ProducerNext

(* What was held and what was queued, one after the other.                 *)
LEMMA ConcatIds ==
  ASSUME NEW s \in Seq(Frames), NEW t \in Seq(Frames)
  PROVE  {f.id : f \in Range(s \o t)} = Ids(s) \cup Ids(t)
<1> DEFINE st == s \o t
<1>1. /\ st \in Seq(Frames) /\ Len(st) = Len(s) + Len(t) /\ DOMAIN st = 1..Len(st)
      /\ Len(s) \in Nat /\ Len(t) \in Nat
      /\ \A i \in 1..Len(s) : st[i] = s[i]
      /\ \A i \in 1..Len(t) : st[Len(s) + i] = t[i]
  OBVIOUS
<1> HIDE DEF st
<1>2. ASSUME NEW f \in Range(st)
      PROVE  f.id \in Ids(s) \cup Ids(t)
  <2>1. PICK i \in 1..Len(st) : f = st[i]
    BY <1>1 DEF Range
  <2>2. CASE i \in 1..Len(s)
    BY <1>1, <2>1, <2>2 DEF Ids
  <2>3. CASE i \notin 1..Len(s)
    <3>1. i - Len(s) \in 1..Len(t) /\ i = Len(s) + (i - Len(s))
      BY <1>1, <2>3
    <3>2. f = t[i - Len(s)]
      BY <1>1, <2>1, <3>1
    <3> QED BY <3>1, <3>2 DEF Ids
  <2> QED BY <2>2, <2>3
<1>3. ASSUME NEW i \in 1..Len(s)
      PROVE  s[i].id \in {f.id : f \in Range(st)}
  <2>1. i \in DOMAIN st /\ st[i] = s[i]
    BY <1>1
  <2> QED BY <2>1 DEF Range
<1>4. ASSUME NEW i \in 1..Len(t)
      PROVE  t[i].id \in {f.id : f \in Range(st)}
  <2>1. Len(s) + i \in DOMAIN st /\ st[Len(s) + i] = t[i]
    BY <1>1
  <2> QED BY <2>1 DEF Range
<1>5. {f.id : f \in Range(st)} = Ids(s) \cup Ids(t)
  BY <1>2, <1>3, <1>4 DEF Ids
<1> QED BY <1>5 DEF st

(* The element's and the consumer's steps keep the edge.                   *)
LEMMA ElementEdge ==
  ASSUME ProtocolInv, StageInv, EdgeInv, ElementNext \/ ElementFails \/ Consume
  PROVE  EdgeInv'
<1> USE TypedShaped DEF Shaped, EndpointFields
<1>0. /\ Typed /\ MailInv /\ ParkInv /\ PlacesApart /\ PathInv /\ EndInv /\ ChainInv
      /\ Running => elem.in \in Links /\ elem.in # Dead
      /\ queue \in [Links -> Seq(Frames)] /\ 1 \in Links /\ Dead # 1
      /\ elem.held \in Seq(Frames)
  BY LinkFacts DEF ProtocolInv, PlacesInv, EdgeInv, Typed, ElemOK, LinksOK, Running, Dead
<1>1. ASSUME Running
      PROVE  /\ 1 \in Places /\ ~HasEos(queue[1]) /\ cons.pc # "ended"
             /\ elem.out = 1 /\ elem.in # 1 /\ elem.in \in Links
             /\ queue[elem.in] \in Seq(Frames) /\ queue[1] \in Seq(Frames)
             /\ Feed = queue[elem.in]
             /\ Chain(cons.got, queue[1], elem.held, queue[elem.in], lost, made)
  <2>1. elem.out = 1 /\ elem.in # 1 /\ elem.in \in Links /\ Feed = queue[elem.in]
    BY <1>0, <1>1 DEF PathInv, Feed
  <2>2. 1 \in Places
    BY <2>1 DEF Places
  <2>3. ~HasEos(queue[1]) /\ cons.pc # "ended"
    BY <1>0, <2>2 DEF EndInv
  <2> QED BY <1>0, <2>1, <2>2, <2>3 DEF ChainInv
<1>2. CASE DrainTakes \/ ElementHandback
  <2>1. /\ UNCHANGED <<up, own, prod, cons, queue, svc, made, lost>>
        /\ elem'.in = elem.in /\ elem'.out = elem.out /\ elem'.held = elem.held
    BY <1>0, <1>2 DEF DrainTakes, ElementHandback
  <2>2. elem'.pc = elem.pc \/ (Running /\ Running')
        \/ (elem.pc \in Ended /\ elem'.pc \in Ended)
    BY <1>0, <1>2 DEF DrainTakes, ElementHandback, Running, Ended
  <2>3. Above' = Above
    BY <2>1 DEF Above
  <2> QED BY <1>0, <2>1, <2>2, <2>3, EdgeKept
<1>3. CASE DrainAnswers
  <2>1. /\ UNCHANGED <<up, own, prod, cons, queue, made, lost>>
        /\ elem'.in = elem.in /\ elem'.out = elem.out /\ elem'.held = elem.held
        /\ elem.pc = "set" /\ elem'.pc = "recv" /\ svc'.pc = "idle" /\ svc'.hand = Dead
    BY <1>0, <1>3 DEF DrainAnswers, Finish
  <2>2. svc.pc \in Setting /\ svc.hand = Dead
    BY <1>0, <2>1 DEF MailInv, StageInv
  <2>3. Above' = Above
    BY <2>1, <2>2 DEF Above
  <2> QED BY <1>0, <2>1, <2>2, <2>3, EdgeKept DEF Running, Setting, Draining
<1>4. ASSUME Running, elem'.pc = elem.pc, elem'.in = elem.in, elem'.out = elem.out,
             UNCHANGED <<up, prod, cons, svc, made, lost>>,
             own'.detached = own.detached, own'.gone = own.gone,
             own'.claimed = own.claimed, own'.drain = own.drain,
             \A l \in Links : l # 1 /\ l # elem.in => queue'[l] = queue[l],
             ~HasEos(queue'[1]),
             HasEos(queue'[elem.in]) <=> HasEos(queue[elem.in]),
             Chain(cons.got, queue'[1], elem'.held, queue'[elem.in], lost, made)
      PROVE  EdgeInv'
  <2>1. Running' /\ Above' = Above /\ Places' = Places
    BY <1>4 DEF Running, Above, Places
  <2>2. PathInv'
    BY <1>0, <1>4, <2>1 DEF PathInv, Running
  <2>3. EndInv'
    BY <1>0, <1>1, <1>4, <2>1 DEF EndInv
  <2>4. ChainInv'
    BY <1>4, <2>1 DEF ChainInv, Feed
  <2> QED BY <2>2, <2>3, <2>4 DEF EdgeInv
<1>5. ASSUME elem.pc = "recv", elem.held # << >>
      PROVE  /\ Emit(elem.held[1]) \in Frames /\ Emit(elem.held[1]).id = elem.held[1].id
             /\ Emit(elem.held[1]).id # 0 /\ elem.held[1].seq \in Int
             /\ Append(queue[1], Emit(elem.held[1])) \in Seq(Frames)
             /\ ~HasEos(Append(queue[1], Emit(elem.held[1])))
             /\ Chain(cons.got, Append(queue[1], Emit(elem.held[1])), << >>, queue[elem.in],
                      lost, made)
  <2>0. Running
    BY <1>5 DEF Running
  <2>1. elem.held[1] \in Frames /\ elem.held[1].id # 0
    <3>1. Len(elem.held) <= 1 /\ ~HasEos(elem.held)
      BY <1>0 DEF ChainInv, Chain, Ordered
    <3> QED BY <1>0, <1>5, <3>1, ShortIds DEF HasEos
  <2>2. elem.held[1].seq \in Int /\ elem.held[1].id \in Nat
    BY <2>1 DEF Frames
  <2>3. Shift(own, elem.held[1].seq) \in Int
    BY <1>0, <2>2, ObservedType DEF Typed
  <2>4. Emit(elem.held[1]) \in Frames /\ Emit(elem.held[1]).id = elem.held[1].id
    BY <2>2, <2>3 DEF Emit, Frames
  <2>5. /\ Append(queue[1], Emit(elem.held[1])) \in Seq(Frames)
        /\ ~HasEos(Append(queue[1], Emit(elem.held[1])))
    BY <1>1, <2>0, <2>1, <2>4, AppendIds DEF HasEos
  <2>6. Chain(cons.got, Append(queue[1], Emit(elem.held[1])), << >>, queue[elem.in],
              lost, made)
    BY <1>1, <1>5, <2>0, <2>4, ChainEmit
  <2> QED BY <2>1, <2>2, <2>4, <2>5, <2>6
<1>6. CASE ElementFrame
  <2>0. /\ Running /\ elem.pc = "recv" /\ queue[elem.in] # << >>
        /\ Head(queue[elem.in]).id # 0
        /\ UNCHANGED <<up, prod, cons, svc, made, lost>>
        /\ elem'.pc = elem.pc /\ elem'.in = elem.in /\ elem'.out = elem.out
        /\ elem'.held = <<Head(queue[elem.in])>>
    BY <1>0, <1>6 DEF ElementFrame, Running
  <2>1. HasEos(Tail(queue[elem.in])) <=> HasEos(queue[elem.in])
    BY <1>1, <2>0, TailIds DEF HasEos
  <2>2. CASE elem.held = << >>
    <3>1. own' = own /\ queue' = [queue EXCEPT ![elem.in] = Tail(@)]
      BY <1>6, <2>2 DEF ElementFrame
    <3>2. /\ queue'[1] = queue[1] /\ queue'[elem.in] = Tail(queue[elem.in])
          /\ \A l \in Links : l # elem.in => queue'[l] = queue[l]
      BY <1>0, <1>1, <2>0, <3>1
    <3>3. Chain(cons.got, queue[1], <<Head(queue[elem.in])>>, Tail(queue[elem.in]), lost, made)
      BY <1>1, <2>0, <2>2, ChainHold
    <3> QED BY <1>1, <1>4, <2>0, <2>1, <3>1, <3>2, <3>3
  <2>3. CASE elem.held # << >>
    <3>1. /\ own' = Observed(own, elem.held[1].seq)
          /\ queue' = [queue EXCEPT ![elem.in] = Tail(@),
                           ![elem.out] = Append(@, Emit(elem.held[1]))]
      BY <1>6, <2>3 DEF ElementFrame
    <3>2. /\ queue'[1] = Append(queue[1], Emit(elem.held[1]))
          /\ queue'[elem.in] = Tail(queue[elem.in])
          /\ \A l \in Links : l # 1 /\ l # elem.in => queue'[l] = queue[l]
      BY <1>0, <1>1, <2>0, <3>1
    <3>3. /\ own'.detached = own.detached /\ own'.gone = own.gone
          /\ own'.claimed = own.claimed /\ own'.drain = own.drain
      BY <1>0, <3>1 DEF Observed
    <3>4. Chain(cons.got, queue'[1], elem'.held, queue'[elem.in], lost, made)
      BY <1>1, <1>5, <2>0, <2>3, <3>2, ChainHold
    <3>5. ~HasEos(queue'[1])
      BY <1>5, <2>0, <2>3, <3>2
    <3> QED BY <1>4, <2>0, <2>1, <3>2, <3>3, <3>4, <3>5
  <2> QED BY <2>2, <2>3
<1>7. CASE ElementFlush
  <2>0. /\ Running /\ elem.pc = "recv" /\ elem.held # << >>
        /\ UNCHANGED <<up, prod, cons, svc, made, lost>>
        /\ elem'.pc = elem.pc /\ elem'.in = elem.in /\ elem'.out = elem.out
        /\ elem'.held = << >> /\ own' = Observed(own, elem.held[1].seq)
        /\ queue' = [queue EXCEPT ![elem.out] = Append(@, Emit(elem.held[1]))]
    BY <1>0, <1>7 DEF ElementFlush, Running
  <2>1. /\ queue'[1] = Append(queue[1], Emit(elem.held[1]))
        /\ \A l \in Links : l # 1 => queue'[l] = queue[l]
    BY <1>0, <1>1, <2>0
  <2>2. /\ own'.detached = own.detached /\ own'.gone = own.gone
        /\ own'.claimed = own.claimed /\ own'.drain = own.drain
    BY <1>0, <2>0 DEF Observed
  <2> QED BY <1>1, <1>4, <1>5, <2>0, <2>1, <2>2
<1>8. ASSUME elem.pc = "recv", ElementGone, UNCHANGED <<up, prod>>
      PROVE  /\ PathInv' /\ ~Running' /\ elem'.in = Dead /\ elem'.held = << >>
             /\ elem'.out = Dead
             /\ Above' = Above
             /\ ~own.claimed => 1 \notin Places'
  <2>1. /\ elem'.pc = "returned" /\ elem'.in = Dead /\ elem'.out = Dead
        /\ elem'.held = << >> /\ svc' = WokenService(own, "asleepOwn", "detachOwn")
        /\ own'.detached = IF own.claimed /\ own.detached = Dead THEN elem.out
                           ELSE own.detached
    BY <1>0, <1>8 DEF ElementGone, Gone
  <2>2. /\ svc'.hand = svc.hand
        /\ svc'.pc = svc.pc \/ (svc.pc = "asleepOwn" /\ svc'.pc = "detachOwn")
    BY <1>0, <2>1, WokenFacts
  <2>3. Above' = Above
    BY <1>8, <2>2 DEF Above
  <2>4. Running /\ ~Running' /\ own.detached = Dead /\ elem.out = 1
        /\ 1 \notin Above /\ (own.claimed => svc.pc \in Draining)
    BY <1>0, <1>8, <2>1 DEF Running, PathInv
  <2>5. PathInv'
    BY <1>0, <2>1, <2>2, <2>3, <2>4 DEF PathInv, Running, Ended, Draining
  <2>6. ~own.claimed => 1 \notin Places'
    BY <1>0, <2>1, <2>3, <2>4 DEF Places
  <2> QED BY <2>1, <2>3, <2>4, <2>5, <2>6
<1>9. CASE ElementEnds
  <2>0. /\ Running /\ elem.pc = "recv" /\ ElementGone
        /\ UNCHANGED <<up, prod, cons, made, lost>>
    BY <1>9 DEF ElementEnds, Running
  <2>1. CASE queue[elem.in] # << >>
    <3> DEFINE x == [id |-> 0, seq |-> None]
    <3>1. /\ Head(queue[elem.in]).id = 0 /\ elem.held = << >>
          /\ queue' = [queue EXCEPT ![elem.in] = Tail(@), ![elem.out] = Append(@, x)]
      BY <1>9, <2>1 DEF ElementEnds
    <3>2. x \in Frames /\ x.id = 0
      BY DEF Frames, None
    <3> HIDE DEF x
    <3>3. Rising(queue[elem.in])
      BY <1>1, <2>0 DEF Chain, Ordered
    <3>4. Tail(queue[elem.in]) = << >> /\ Ids(queue[elem.in]) = {0}
      BY <1>1, <2>0, <2>1, <3>1, <3>3, TailIds, TailRising, ShortIds
    <3>5. /\ queue'[1] = Append(queue[1], x) /\ queue'[elem.in] = << >>
          /\ \A l \in Links : l # 1 /\ l # elem.in => queue'[l] = queue[l]
      BY <1>0, <1>1, <2>0, <3>1, <3>4
    <3>6. ~own.claimed
      <4>1. prod.pc \in Ended
        BY <1>0, <2>0, <3>4 DEF EndInv, HasEos
      <4>2. svc.pc \notin Stages
        BY <1>0, <4>1 DEF ParkInv, Ended
      <4> QED BY <1>0, <2>0, <4>2 DEF PathInv, Stages, Draining
    <3>7. ChainInv'
      <4>1. Chain(cons.got, queue[1], << >>, << >>, lost \cup ((Ids(<< >>) \cup {0}) \ {0}), made)
        BY <1>1, <2>0, <3>1, <3>4, ChainCut
      <4>2. lost \cup ((Ids(<< >>) \cup {0}) \ {0}) = lost
        BY ShortIds
      <4>3. Chain(cons.got, Append(queue[1], x), << >>, << >>, lost, made)
        BY <1>1, <2>0, <3>2, <4>1, <4>2, ChainPush
      <4> QED BY <1>8, <2>0, <3>5, <4>3 DEF ChainInv, Feed
    <3>8. EndInv'
      BY <1>0, <1>1, <1>8, <2>0, <3>5, <3>6 DEF EndInv
    <3> QED BY <1>8, <2>0, <3>7, <3>8 DEF EdgeInv
  <2>2. CASE queue[elem.in] = << >>
    <3>1. Closed(elem.in) /\ (own.drain => elem.held = << >>) /\ queue' = queue
      BY <1>9, <2>2 DEF ElementEnds
    <3>2. elem.in \notin Above
      BY <3>1, ClosedFacts DEF Places
    <3>3. elem.held = << >>
      BY <1>0, <2>0, <2>2, <3>1, <3>2, ShortIds DEF EndInv, HasEos
    <3>4. ChainInv'
      BY <1>1, <1>8, <2>0, <2>2, <3>1, <3>3 DEF ChainInv, Feed
    <3>5. EndInv'
      BY <1>0, <1>1, <1>8, <2>0, <2>2, <3>1 DEF EndInv
    <3> QED BY <1>8, <2>0, <3>4, <3>5 DEF EdgeInv
  <2> QED BY <2>1, <2>2
<1>10. CASE ElementFails
  <2>0. /\ Running /\ elem.pc = "recv" /\ ElementGone
        /\ UNCHANGED <<up, prod, cons, made>>
        /\ queue' = [queue EXCEPT ![elem.in] = << >>]
        /\ lost' = lost \cup ({f.id : f \in Range(elem.held \o queue[elem.in])} \ {0})
    BY <1>10 DEF ElementFails, Running
  <2>1. lost' = lost \cup ((Ids(elem.held) \cup Ids(queue[elem.in])) \ {0})
    BY <1>0, <1>1, <2>0, ConcatIds
  <2>2. /\ queue'[1] = queue[1] /\ queue'[elem.in] = << >>
        /\ \A l \in Links : l # elem.in => queue'[l] = queue[l]
    BY <1>0, <1>1, <2>0
  <2>3. ChainInv'
    <3>1. Chain(cons.got, queue[1], << >>, << >>, lost', made)
      BY <1>1, <2>0, <2>1, ChainCut
    <3> QED BY <1>8, <2>0, <2>2, <3>1 DEF ChainInv, Feed
  <2>4. EndInv'
    BY <1>0, <1>1, <1>8, <2>0, <2>2 DEF EndInv
  <2> QED BY <1>8, <2>0, <2>3, <2>4 DEF EdgeInv
<1>11. CASE Consume
  <2>0. UNCHANGED <<up, own, prod, elem, svc, made, lost>>
    BY <1>11 DEF Consume
  <2>1. Running' = Running /\ Above' = Above /\ Places' = Places
    BY <2>0 DEF Running, Above, Places
  <2>2. PathInv'
    BY <1>0, <2>0, <2>1 DEF PathInv
  <2>3. ASSUME 1 \notin Places
        PROVE  ~Running /\ Feed = << >> /\ elem.held = << >>
    BY <1>0, <1>1, <2>3 DEF PathInv, Feed
  <2>4. CASE queue[1] # << >>
    <3>1. queue' = [queue EXCEPT ![1] = Tail(@)] /\ queue[1] \in Seq(Frames)
          /\ cons.pc = "recv"
      BY <1>0, <1>11, <2>4 DEF Consume
    <3>2. queue'[1] = Tail(queue[1]) /\ \A l \in Links : l # 1 => queue'[l] = queue[l]
      BY <1>0, <3>1
    <3>3. Feed' = Feed
      BY <1>0, <1>1, <2>0, <2>1, <3>2 DEF Feed
    <3>4. Ids(queue[1]) = Ids(Tail(queue[1])) \cup {Head(queue[1]).id}
      BY <2>4, <3>1, TailIds
    <3>5. CASE Head(queue[1]).id = 0
      <4>1. cons'.pc = "ended" /\ cons'.got = cons.got
        BY <1>0, <1>11, <2>4, <3>5 DEF Consume, Typed, LinksOK
      <4>2. 1 \notin Places
        BY <1>0, <3>4, <3>5 DEF EndInv, HasEos
      <4>3. Tail(queue[1]) = << >> /\ Chain(cons.got, << >>, << >>, << >>, lost, made)
        BY <1>0, <2>3, <2>4, <3>5, <4>2, ChainEnd DEF ChainInv
      <4>4. ChainInv'
        BY <2>0, <2>3, <3>2, <3>3, <4>1, <4>2, <4>3 DEF ChainInv
      <4>5. EndInv'
        BY <1>0, <2>0, <2>1, <2>3, <3>2, <4>2, <4>3 DEF EndInv
      <4> QED BY <2>2, <4>4, <4>5 DEF EdgeInv
    <3>6. CASE Head(queue[1]).id # 0
      <4>1. cons'.pc = cons.pc /\ cons'.got = Append(cons.got, Head(queue[1]))
        BY <1>0, <1>11, <2>4, <3>6 DEF Consume, Typed, LinksOK
      <4>2. ChainInv'
        BY <1>0, <2>0, <2>4, <3>2, <3>3, <3>6, <4>1, ChainTake DEF ChainInv
      <4>3. HasEos(queue'[1]) <=> HasEos(queue[1])
        BY <3>2, <3>4, <3>6 DEF HasEos
      <4>4. Running => queue'[elem.in] = queue[elem.in]
        BY <1>1, <3>2
      <4>5. EndInv'
        BY <1>0, <2>0, <2>1, <3>1, <3>2, <4>1, <4>3, <4>4 DEF EndInv
      <4> QED BY <2>2, <4>2, <4>5 DEF EdgeInv
    <3> QED BY <3>5, <3>6
  <2>5. CASE queue[1] = << >>
    <3>1. cons'.pc = "ended" /\ cons'.got = cons.got /\ queue' = queue /\ Closed(1)
      BY <1>0, <1>11, <2>5 DEF Consume, Typed, LinksOK
    <3>2. 1 \notin Places
      BY <3>1, ClosedFacts
    <3>3. ChainInv'
      BY <1>0, <2>0, <2>1, <3>1 DEF ChainInv, Feed
    <3>4. EndInv'
      BY <1>0, <2>0, <2>1, <2>5, <3>1, <3>2 DEF EndInv
    <3> QED BY <2>2, <3>3, <3>4 DEF EdgeInv
  <2> QED BY <2>4, <2>5
<1> QED BY <1>2, <1>3, <1>6, <1>7, <1>9, <1>10, <1>11 DEF ElementNext

(* The service's steps keep the edge.                                      *)
LEMMA ServiceEdge ==
  ASSUME ProtocolInv, StageInv, EdgeInv,
         \/ ServiceNext \/ BeginSet \/ DeadlinePasses \/ Withdraw
         \/ \E op \in Ops \ {"set"} : Begin(op)
  PROVE  EdgeInv'
<1> USE TypedShaped DEF Shaped, EndpointFields
<1>0. /\ Typed /\ ParkInv /\ PlacesApart /\ PathInv /\ EndInv /\ ChainInv
      /\ Running => elem.in \in Links /\ elem.in # Dead
      /\ queue \in [Links -> Seq(Frames)] /\ 1 \in Links /\ Dead # 1
  BY LinkFacts DEF ProtocolInv, PlacesInv, EdgeInv, Typed, ElemOK, LinksOK, Running, Dead
<1>1. ASSUME UNCHANGED <<own, cons, queue, made, lost>>,
             elem'.in = elem.in, elem'.out = elem.out, elem'.held = elem.held,
             elem'.pc = elem.pc,
             Above' \cup {Dead} = Above \cup {Dead},
             svc.pc \in Draining => svc'.pc \in Draining \/ (~Running /\ own.detached = Dead),
             svc.pc # "awaitElement",
             prod.pc \in Ended /\ svc.pc # "awaitSource" =>
                prod'.pc \in Ended /\ svc'.pc # "awaitSource"
      PROVE  EdgeInv'
  BY <1>0, <1>1, EdgeKept
<1>2. ASSUME prod' = WokenProducer
      PROVE  /\ prod'.link = prod.link
             /\ prod.pc \in Ended => prod'.pc \in Ended
  BY <1>0, <1>2 DEF WokenProducer, Ended
<1>3. ASSUME svc.pc \in Stages
      PROVE  /\ prod.link = Dead /\ up.detached = Dead /\ up.staged = Dead
             /\ prod.pc = "waiting" /\ Above \cup {Dead} = {Dead, svc.hand}
  BY <1>0, <1>3 DEF ParkInv, Stages, Parking, Above
<1>4. ASSUME NEW op \in Ops, Begin(op)
      PROVE  EdgeInv'
  <2>1. /\ UNCHANGED <<own, prod, cons, queue, made, lost>>
        /\ elem'.in = elem.in /\ elem'.out = elem.out /\ elem'.held = elem.held
        /\ elem'.pc = elem.pc /\ svc'.pc = "detach" /\ svc.pc = "idle"
        /\ svc'.hand = svc.hand /\ up'.detached = up.detached /\ up'.staged = up.staged
    BY <1>0, <1>4 DEF Begin
  <2>2. Above' = Above
    BY <2>1 DEF Above
  <2> QED BY <1>1, <2>1, <2>2 DEF Draining
<1>5. CASE BeginSet \/ DeadlinePasses
  <2>1. /\ UNCHANGED <<up, own, prod, elem, cons, queue, made, lost>>
        /\ svc.pc \in {"idle", "asleep"} /\ svc'.pc \in {"answer", "cancel"}
        /\ svc'.hand = svc.hand
    BY <1>0, <1>5 DEF BeginSet, DeadlinePasses
  <2>2. Above' = Above
    BY <2>1 DEF Above
  <2> QED BY <1>1, <2>1, <2>2 DEF Draining
<1>6. CASE Withdraw
  <2>1. /\ UNCHANGED <<up, own, prod, elem, cons, queue, made, lost>> /\ svc.pc = "answer"
        /\ svc'.pc \in {"idle", "answerLate"} /\ svc'.hand \in {Dead, svc.hand}
    BY <1>0, <1>6 DEF Withdraw, Finish
  <2>2. Above' = Above
    BY <2>1 DEF Above, StageInv, Setting
  <2> QED BY <1>1, <2>1, <2>2 DEF Draining
<1>7. CASE PollDetached
  <2>0. UNCHANGED <<own, prod, cons, queue, made, lost>> /\ svc.pc = "detach"
        /\ svc.hand = Dead
    BY <1>7 DEF PollDetached, StageInv, Parking
  <2>1. CASE up.detached # Dead
    <3>1. svc.op \in {"insert", "remove", "replace"}
      BY <1>0, <2>0 DEF Typed, SvcOK, Parking
    <3>2. /\ svc'.pc = svc.op /\ svc'.hand = up.detached /\ up'.detached = Dead
          /\ up'.staged = up.staged /\ elem' = elem
      BY <1>0, <1>7, <2>1 DEF PollDetached
    <3>3. Above' \cup {Dead} = Above \cup {Dead}
      BY <2>0, <3>2 DEF Above
    <3> QED BY <1>1, <2>0, <3>1, <3>2, <3>3 DEF Draining
  <2>2. CASE up.detached = Dead /\ up.gone
    <3>1. svc'.pc = "idle" /\ svc'.hand = Dead /\ up' = up /\ elem' = Restored
      BY <1>0, <1>7, <2>2 DEF PollDetached, Finish
    <3>2. elem'.in = elem.in /\ elem'.out = elem.out /\ elem'.held = elem.held
          /\ elem'.pc = elem.pc
      BY <1>0, <3>1 DEF Restored
    <3>3. Above' = Above
      BY <2>0, <3>1 DEF Above
    <3> QED BY <1>1, <2>0, <3>1, <3>2, <3>3 DEF Draining
  <2>3. CASE up.detached = Dead /\ ~up.gone
    <3>1. /\ svc'.pc = "asleep" /\ svc'.hand = svc.hand /\ up'.detached = up.detached
          /\ up'.staged = up.staged /\ elem' = elem
      BY <1>0, <1>7, <2>3 DEF PollDetached
    <3>2. Above' = Above
      BY <2>0, <3>1 DEF Above
    <3> QED BY <1>1, <2>0, <3>1, <3>2 DEF Draining
  <2> QED BY <2>1, <2>2, <2>3
<1>8. CASE CancelPark
  <2>1. /\ UNCHANGED <<own, cons, queue, made, lost>> /\ svc.pc = "cancel"
        /\ prod' = WokenProducer /\ elem' = Restored
        /\ svc'.pc = "idle" /\ svc'.hand = Dead /\ up'.detached = Dead
        /\ up'.staged = IF up.detached # Dead THEN up.detached ELSE up.staged
    BY <1>0, <1>8 DEF CancelPark, Finish
  <2>2. elem'.in = elem.in /\ elem'.out = elem.out /\ elem'.held = elem.held
        /\ elem'.pc = elem.pc
    BY <1>0, <2>1 DEF Restored
  <2>3. svc.hand = Dead /\ (up.detached # Dead => up.staged = Dead)
    BY <1>0, <2>1 DEF StageInv, ParkInv, Parking
  <2>4. Above' \cup {Dead} = Above \cup {Dead}
    BY <1>2, <2>1, <2>3 DEF Above
  <2> QED BY <1>1, <1>2, <2>1, <2>2, <2>4 DEF Draining
<1>9. CASE Splice
  <2>1. /\ svc.pc = "insert" /\ UNCHANGED <<up, prod, cons, queue, made, lost>>
        /\ own' = Endpoint(up.last)
        /\ elem' = [pc |-> "recv", in |-> svc.ops + 1, out |-> svc.hand,
                    held |-> << >>, done |-> TRUE]
        /\ svc'.pc = "spliced" /\ svc'.hand = svc.ops + 1
    BY <1>0, <1>9 DEF Splice
  <2>2. elem.pc = "none" /\ ~Running
    BY <2>1 DEF StageInv, Running
  <2>3. svc.hand = 1 /\ 1 \in Places /\ elem.in = Dead /\ elem.held = << >> /\ Feed = << >>
    <3>1. svc.hand # Dead /\ svc.hand \in Above /\ svc.hand \in Places
      BY <1>0, <2>1 DEF Typed, SvcOK, Above, Places
    <3> QED BY <1>0, <2>2, <3>1 DEF PathInv, Feed
  <2>4. svc.ops + 1 # 1 /\ svc.ops + 1 \in Links /\ svc.ops + 1 # Dead
    <3>1. 1 <= svc.ops
      BY <2>1, <2>3 DEF ProtocolInv, PlacesInv, Newest
    <3>2. svc.ops \in 0..MaxOps
      BY <1>0 DEF Typed, SvcOK
    <3> QED BY <3>1, <3>2, MutationAssumption DEF Links, Dead
  <2>5. /\ own'.detached = Dead /\ ~own'.gone /\ ~own'.claimed
        /\ elem'.pc = "recv" /\ elem'.in = svc.ops + 1 /\ elem'.out = 1
        /\ elem'.held = << >> /\ Running'
    BY <2>1, <2>3 DEF Endpoint, Running
  <2>6. Above' \cup {Dead} = {Dead, svc.ops + 1}
    BY <1>3, <2>1 DEF Above, Stages
  <2>7. PathInv'
    BY <2>4, <2>5, <2>6 DEF PathInv, Running, Ended
  <2>8. ~HasEos(queue[1]) /\ cons.pc # "ended" /\ queue[svc.ops + 1] = << >>
        /\ ~HasEos(queue[svc.ops + 1]) /\ \A l \in Links : l = 1 \/ queue[l] = << >>
    BY <1>0, <2>3, <2>4, LinkFacts, ShortIds DEF EndInv, HasEos
  <2>9. EndInv'
    BY <2>1, <2>4, <2>5, <2>6, <2>8 DEF EndInv
  <2>10. ChainInv'
    BY <1>0, <2>1, <2>3, <2>5, <2>8 DEF ChainInv, Feed
  <2> QED BY <2>7, <2>9, <2>10 DEF EdgeInv
<1>10. CASE SpliceUnpark
  <2>1. /\ UNCHANGED <<own, elem, cons, queue, made, lost>> /\ svc.pc = "spliced"
        /\ prod' = WokenProducer /\ svc'.pc = "idle" /\ svc'.hand = Dead
        /\ up'.staged = svc.hand /\ up'.detached = up.detached
    BY <1>0, <1>10 DEF SpliceUnpark, Unparked, Finish
  <2>2. Above' \cup {Dead} = Above \cup {Dead}
    BY <1>2, <1>3, <2>1 DEF Above, Stages
  <2> QED BY <1>1, <1>2, <2>1, <2>2 DEF Draining
<1>11. CASE Claim
  <2>1. /\ UNCHANGED <<up, prod, elem, cons, queue, made, lost>> /\ svc.pc = "remove"
        /\ svc'.pc = "drop" /\ svc'.hand = svc.hand /\ own'.drain = TRUE
        /\ own'.gone = own.gone /\ own'.detached = own.detached
    BY <1>0, <1>11 DEF Claim
  <2>2. Running' = Running /\ Above' = Above /\ Places' = Places
    BY <2>1 DEF Running, Above, Places
  <2>3. PathInv'
    BY <1>0, <2>1, <2>2 DEF PathInv, Draining, Running
  <2>4. EndInv'
    BY <1>0, <2>1, <2>2 DEF EndInv
  <2>5. ChainInv'
    BY <1>0, <2>1, <2>2 DEF ChainInv, Feed
  <2> QED BY <2>3, <2>4, <2>5 DEF EdgeInv
<1>12. CASE DropFeed
  <2>1. /\ UNCHANGED <<up, own, prod, elem, cons, queue, made, lost>> /\ svc.pc = "drop"
        /\ svc'.pc = "detachOwn" /\ svc'.hand = Dead
    BY <1>0, <1>12 DEF DropFeed
  <2>2. Running' = Running /\ own.drain
        /\ Above' \subseteq Above \cup {Dead} /\ Places' \subseteq Places \cup {Dead}
    BY <2>1 DEF Running, Above, Places, StageInv, Draining
  <2>3. PathInv'
    BY <1>0, <2>1, <2>2 DEF PathInv, Draining, Running
  <2>4. EndInv'
    BY <1>0, <2>1, <2>2 DEF EndInv
  <2>5. ChainInv'
    BY <1>0, <2>1, <2>2 DEF ChainInv, Feed
  <2> QED BY <2>3, <2>4, <2>5 DEF EdgeInv
<1>13. CASE PollOwn
  <2>0. /\ UNCHANGED <<elem, cons, queue, made, lost>> /\ svc.pc = "detachOwn"
        /\ svc.hand = Dead
    BY <1>13 DEF PollOwn, StageInv
  <2>1. CASE own.detached # Dead
    <3>1. /\ svc'.pc = "awaitElement" /\ svc'.hand = own.detached /\ own'.detached = Dead
          /\ own'.drain = own.drain /\ UNCHANGED <<up, prod>>
      BY <1>0, <1>13, <2>1 DEF PollOwn
    <3>2. elem.pc \in Ended /\ ~Running /\ ~Running' /\ own.detached = 1
      BY <1>0, <2>0, <2>1 DEF PathInv, Running, Ended
    <3>3. Places' \cup {Dead} = Places \cup {Dead}
      BY <2>0, <3>1 DEF Places, Above
    <3>4. PathInv'
      BY <1>0, <2>0, <3>1, <3>2 DEF PathInv, Ended
    <3>5. EndInv'
      BY <1>0, <2>0, <3>1, <3>2, <3>3 DEF EndInv
    <3>6. ChainInv'
      BY <1>0, <2>0, <3>2 DEF ChainInv, Feed
    <3> QED BY <3>4, <3>5, <3>6 DEF EdgeInv
  <2>2. CASE own.detached = Dead /\ own.gone
    <3>1. /\ svc'.pc = "idle" /\ svc'.hand = Dead /\ up'.staged = Dead
          /\ up'.detached = up.detached /\ prod' = WokenProducer /\ own' = own
      BY <1>0, <1>13, <2>2 DEF PollOwn, Unparked, Finish
    <3>2. ~Running
      BY <1>0, <2>2 DEF PathInv
    <3>3. Above' \cup {Dead} = Above \cup {Dead}
      BY <1>2, <1>3, <2>0, <3>1 DEF Above, Stages
    <3> QED BY <1>1, <1>2, <2>0, <2>2, <3>1, <3>2, <3>3
  <2>3. CASE own.detached = Dead /\ ~own.gone
    <3>1. /\ svc'.pc = "asleepOwn" /\ svc'.hand = svc.hand /\ UNCHANGED <<up, prod>>
          /\ own'.detached = own.detached /\ own'.gone = own.gone
          /\ own'.claimed = own.claimed /\ own'.drain = own.drain
      BY <1>0, <1>13, <2>3 DEF PollOwn
    <3>2. Above' = Above
      BY <3>1 DEF Above
    <3> QED BY <1>0, <2>0, <3>1, <3>2, EdgeKept DEF Draining
  <2> QED BY <2>1, <2>2, <2>3
<1>14. CASE Bypass
  <2>1. /\ UNCHANGED <<own, cons, queue, made, lost>> /\ svc.pc = "awaitElement"
        /\ prod' = WokenProducer /\ elem' = NoElement
        /\ svc'.pc = "idle" /\ svc'.hand = Dead
        /\ up'.staged = svc.hand /\ up'.detached = up.detached
    BY <1>0, <1>14 DEF Bypass, Unparked, Finish
  <2>2. svc.hand = 1 /\ elem.pc \in Ended /\ ~Running /\ 1 \in Places
    BY <2>1 DEF StageInv, Running, Ended, Places, Above
  <2>3. Above' \cup {Dead} = {Dead, 1}
    BY <1>2, <1>3, <2>1, <2>2 DEF Above, Stages
  <2>4. own.detached = Dead
    BY <1>0, <2>1 DEF PathInv, Draining
  <2>5. elem'.pc = "none" /\ elem'.in = Dead /\ elem'.out = Dead /\ elem'.held = << >>
        /\ ~Running'
    BY <2>1 DEF NoElement, Running
  <2>6. PathInv'
    BY <2>1, <2>3, <2>4, <2>5 DEF PathInv, Ended
  <2>7. EndInv'
    BY <1>0, <2>1, <2>2, <2>5 DEF EndInv, PathInv
  <2>8. ChainInv'
    BY <1>0, <2>1, <2>2, <2>5 DEF ChainInv, Feed, PathInv
  <2> QED BY <2>6, <2>7, <2>8 DEF EdgeInv
<1>15. CASE Retire
  <2>1. /\ UNCHANGED <<own, elem, cons, queue, made, lost>> /\ svc.pc = "replace"
        /\ prod' = WokenProducer /\ svc'.pc = "awaitSource" /\ svc'.hand = svc.hand
        /\ up'.staged = Dead /\ up'.detached = up.detached
    BY <1>0, <1>15 DEF Retire, Unparked
  <2>2. prod.pc = "waiting" /\ Above' \cup {Dead} = Above \cup {Dead}
    BY <1>2, <1>3, <2>1 DEF Above, Stages
  <2> QED BY <1>1, <2>1, <2>2 DEF Draining, Ended
<1>16. CASE Rehome
  <2>1. /\ UNCHANGED <<own, elem, cons, queue, made, lost>> /\ svc.pc = "awaitSource"
        /\ prod'.link = svc.hand /\ svc'.pc = "idle" /\ svc'.hand = Dead
        /\ up'.staged = Dead /\ up'.detached = Dead
    BY <1>0, <1>16 DEF Rehome, Endpoint, Finish
  <2>2. prod.link = Dead /\ up.staged = Dead /\ up.detached = Dead
    BY <1>0, <2>1 DEF ParkInv, Parking
  <2>3. Above' \cup {Dead} = Above \cup {Dead}
    BY <2>1, <2>2 DEF Above
  <2> QED BY <1>1, <2>1, <2>3 DEF Draining
<1> QED BY <1>4, <1>5, <1>6, <1>7, <1>8, <1>9, <1>10, <1>11, <1>12, <1>13, <1>14, <1>15,
        <1>16 DEF ServiceNext

-----------------------------------------------------------------------------
(* The inductive invariant of the whole edge.                              *)
FlowInv == ProtocolInv /\ StageInv /\ EdgeInv

(* Splices, removals, replacements and failures, in any order, keep the    *)
(* edge's invariant: the frames made are got, on their way in order, or    *)
(* lost.                                                                   *)
THEOREM FlowInductive == Spec => []FlowInv
<1>1. Init => StageInv /\ EdgeInv
  <2> SUFFICES ASSUME Init PROVE StageInv /\ EdgeInv
    OBVIOUS
  <2>1. StageInv
    BY DEF Init, StageInv, NoElement, Removing, Draining, Parking
  <2>2. ~Running /\ Feed = << >> /\ queue[1] = << >> /\ Above \cup {Dead} = {Dead, 1}
        /\ \A l \in Links : queue[l] = << >>
    BY LinkFacts DEF Init, Running, NoElement, Feed, Above, Endpoint
  <2>3. PathInv
    BY <2>2 DEF Init, PathInv, NoElement, Endpoint, Ended
  <2>4. EndInv
    BY <2>2, ShortIds DEF Init, EndInv, HasEos
  <2>5. ChainInv
    <3>1. Ids(<< >>) = {} /\ Rising(<< >>) /\ << >> \in Seq(Frames) /\ Len(<< >>) = 0
      BY ShortIds
    <3>2. Ordered(<< >>, << >>, << >>, << >>) /\ Covers(<< >>, << >>, << >>, << >>, {}, 0)
      BY <3>1 DEF Ordered, Covers, Before, HasEos
    <3>3. Chain(<< >>, << >>, << >>, << >>, {}, 0)
      BY <3>1, <3>2 DEF Chain
    <3> QED BY <2>2, <3>3 DEF Init, ChainInv, NoElement
  <2> QED BY <2>1, <2>3, <2>4, <2>5 DEF EdgeInv
<1>2. ProtocolInv /\ StageInv /\ EdgeInv /\ [Next]_vars => StageInv' /\ EdgeInv'
  <2> SUFFICES ASSUME ProtocolInv, StageInv, EdgeInv, [Next]_vars
               PROVE  StageInv' /\ EdgeInv'
    OBVIOUS
  <2>1. CASE Next
    BY <2>1, StageStep, ProducerEdge, ElementEdge, ServiceEdge DEF Next, EdgeInv
  <2>2. CASE UNCHANGED vars
    <3>1. StageInv'
      BY <2>2 DEF vars, StageInv
    <3>2. Above' = Above /\ Places' = Places /\ Running' = Running
      BY <2>2 DEF vars, Above, Places, Running
    <3>3. EdgeInv'
      BY <2>2, <3>2 DEF vars, EdgeInv, PathInv, EndInv, ChainInv, Feed
    <3> QED BY <3>1, <3>3
  <2> QED BY <2>1, <2>2
<1> QED BY <1>1, <1>2, ProtocolInductive, PTL DEF Spec, FlowInv

(* The consumer sees the frames in the order they were made, none twice    *)
(* and none missing but those that died with a source or an element,       *)
(* whatever is inserted, removed, replaced or fails.                       *)
THEOREM FramesKept == Spec => []NoFrameLost
<1>1. FlowInv => NoFrameLost
  <2> SUFFICES ASSUME FlowInv PROVE NoFrameLost
    OBVIOUS
  <2> DEFINE g == cons.got
  <2>1. /\ g \in Seq(Frames) /\ Rising(g) /\ ~HasEos(g) /\ made \in Nat
        /\ Before(g, queue[1]) /\ Before(g, elem.held) /\ Before(g, Feed)
        /\ Covers(g, queue[1], elem.held, Feed, lost, made)
    BY DEF FlowInv, EdgeInv, ChainInv, Chain, Ordered
  <2>2. /\ Len(g) \in Nat /\ \A i \in 1..Len(g) : g[i] \in Frames /\ g[i].id \in Nat
        /\ \A i \in 1..Len(g) : g[i].id \in Ids(g) /\ g[i].id # 0
    <3>1. Len(g) \in Nat /\ \A i \in 1..Len(g) : g[i] \in Frames
      BY <2>1
    <3>2. \A i \in 1..Len(g) : g[i].id \in Ids(g)
      BY DEF Ids
    <3>3. \A x \in Frames : x.id \in Nat
      BY DEF Frames
    <3> QED BY <2>1, <3>1, <3>2, <3>3 DEF HasEos
  <2>3. ASSUME NEW i \in 1..(Len(g) - 1)
        PROVE  /\ g[i].id < g[i + 1].id
               /\ \A f \in (g[i].id + 1)..(g[i + 1].id - 1) : f \in lost
    <3>1. i \in 1..Len(g) /\ i + 1 \in 1..Len(g) /\ i \in 1..((i + 1) - 1)
      BY <2>2
    <3>2. g[i].id < g[i + 1].id
      BY <2>1, <2>2, <3>1 DEF Rising
    <3>3. ASSUME NEW f \in (g[i].id + 1)..(g[i + 1].id - 1)
          PROVE  f \in lost
      <4>1. f \in Nat /\ g[i].id < f /\ f < g[i + 1].id /\ f # 0
        BY <2>2, <3>1
      <4>2. g[i + 1].id \in 0..made
        BY <2>1, <2>2, <3>1 DEF Covers
      <4>3. f \in 1..made
        BY <2>1, <4>1, <4>2
      <4>4. f \notin Ids(g)
        <5> SUFFICES ASSUME NEW k \in 1..Len(g), f = g[k].id PROVE FALSE
          BY DEF Ids
        <5>1. CASE k = i
          BY <2>2, <4>1, <5>1
        <5>2. CASE k = i + 1
          BY <2>2, <4>1, <5>2
        <5>3. CASE k < i
          <6>1. k \in 1..(i - 1)
            BY <2>2, <5>3
          <6>2. g[k].id < g[i].id
            BY <2>1, <2>2, <3>1, <6>1 DEF Rising
          <6> QED BY <2>2, <3>1, <4>1, <6>2
        <5>4. CASE k > i + 1
          <6>1. i + 1 \in 1..(k - 1)
            BY <2>2, <5>4
          <6>2. g[i + 1].id < g[k].id
            BY <2>1, <2>2, <6>1 DEF Rising
          <6> QED BY <2>2, <3>1, <4>1, <6>2
        <5> QED BY <2>2, <5>1, <5>2, <5>3, <5>4
      <4>5. f \notin Ids(queue[1]) \cup Ids(elem.held) \cup Ids(Feed)
        BY <2>1, <2>2, <3>1, <4>1 DEF Before
      <4> QED BY <2>1, <4>3, <4>4, <4>5 DEF Covers
    <3> QED BY <3>2, <3>3
  <2>4. ASSUME cons.pc = "ended"
        PROVE  {f.id : f \in Range(g)} \cup lost = 1..made
    <3>1. 1 \notin Places /\ queue[1] = << >>
      BY <2>4 DEF FlowInv, EdgeInv, EndInv
    <3>2. elem.held = << >> /\ Feed = << >>
      BY <3>1 DEF FlowInv, EdgeInv, PathInv, Places, Feed
    <3>3. {f.id : f \in Range(g)} = Ids(g)
      BY <2>1 DEF Range, Ids
    <3>4. Ids(g) \subseteq 1..made
      BY <2>1, <2>2 DEF Covers, HasEos
    <3> QED BY <2>1, <3>1, <3>2, <3>3, <3>4, ShortIds DEF Covers
  <2> QED BY <2>3, <2>4 DEF NoFrameLost
<1> QED BY <1>1, FlowInductive, PTL

(* No link ever holds more than its capacity.                              *)
WithinCapacity == \A l \in Links : Len(queue[l]) <= LinkCapacity

(* The state stays well typed and every link within its capacity, for any  *)
(* number of operations, frames and faults.                                *)
THEOREM TypeCorrect == Spec => []TypeOK
<1>1. Init => WithinCapacity
  BY MutationAssumption DEF Init, WithinCapacity
<1>2. Typed /\ WithinCapacity /\ [Next]_vars => WithinCapacity'
  <2> SUFFICES ASSUME Typed, WithinCapacity, [Next]_vars PROVE WithinCapacity'
    OBVIOUS
  <2>0. /\ queue \in [Links -> Seq(Frames)] /\ LinkCapacity \in Nat /\ 1 \in Links
        /\ \A l \in Links : queue[l] \in Seq(Frames) /\ Len(queue[l]) <= LinkCapacity
    BY LinkFacts, MutationAssumption DEF Typed, LinksOK, WithinCapacity
  <2>1. \A s \in Seq(Frames) :
           /\ \A x : Len(Append(s, x)) = Len(s) + 1
           /\ s # << >> => Len(Tail(s)) = Len(s) - 1 /\ Tail(s) \in Seq(Frames)
           /\ Len(s) \in Nat
    OBVIOUS
  <2>2. ASSUME UNCHANGED queue PROVE WithinCapacity'
    BY <2>2 DEF WithinCapacity
  <2>3. CASE SendFrame \/ SendEos
    <3>1. PICK x : queue' = [queue EXCEPT ![prod.link] = Append(@, x)]
      BY <2>3 DEF SendFrame, SendEos
    <3>2. prod.link \in Links /\ Len(queue[prod.link]) < LinkCapacity
      BY <2>3, LinkFacts DEF SendFrame, SendEos, Room, Typed, ProdOK
    <3> QED BY <2>0, <2>1, <3>1, <3>2 DEF WithinCapacity
  <2>4. CASE ElementNext \/ ElementFails
    <3>0. elem.pc = "recv" => elem.in \in Links /\ elem.out \in Links
      BY LinkFacts DEF Typed, ElemOK
    <3>1. CASE DrainTakes \/ DrainAnswers \/ ElementHandback
      BY <2>2, <3>1 DEF DrainTakes, DrainAnswers, ElementHandback
    <3>2. CASE ElementFlush
      BY <2>0, <2>1, <3>0, <3>2 DEF ElementFlush, Room, WithinCapacity
    <3>3. CASE ElementFails
      BY <2>0, <2>1, <3>0, <3>3 DEF ElementFails, WithinCapacity
    <3>4. ASSUME NEW l \in Links, NEW m \in Links, NEW x, queue[l] # << >>,
                 Len(queue[m]) < LinkCapacity,
                 queue' = [queue EXCEPT ![l] = Tail(@), ![m] = Append(@, x)]
          PROVE  WithinCapacity'
      <4>1. \A k \in Links : k # l /\ k # m => queue'[k] = queue[k]
        BY <2>0, <3>4
      <4>2. CASE l = m
        BY <2>0, <2>1, <3>4, <4>1, <4>2 DEF WithinCapacity
      <4>3. CASE l # m
        BY <2>0, <2>1, <3>4, <4>1, <4>3 DEF WithinCapacity
      <4> QED BY <4>2, <4>3
    <3>5. CASE ElementFrame
      <4>1. CASE elem.held = << >>
        <5>1. /\ elem.pc = "recv" /\ queue[elem.in] # << >>
              /\ queue' = [queue EXCEPT ![elem.in] = Tail(@)]
          BY <3>5, <4>1 DEF ElementFrame
        <5> QED BY <2>0, <2>1, <3>0, <5>1 DEF WithinCapacity
      <4>2. CASE elem.held # << >>
        <5>1. /\ elem.pc = "recv" /\ queue[elem.in] # << >>
              /\ Len(queue[elem.out]) < LinkCapacity
              /\ queue' = [queue EXCEPT ![elem.in] = Tail(@),
                               ![elem.out] = Append(@, Emit(elem.held[1]))]
          BY <3>5, <4>2 DEF ElementFrame, Room
        <5> QED BY <3>0, <3>4, <5>1
      <4> QED BY <4>1, <4>2
    <3>6. CASE ElementEnds
      <4>1. CASE queue' = queue
        BY <2>2, <4>1
      <4>2. CASE queue' # queue
        <5>1. /\ elem.pc = "recv" /\ queue[elem.in] # << >>
              /\ Len(queue[elem.out]) < LinkCapacity
              /\ queue' = [queue EXCEPT ![elem.in] = Tail(@),
                               ![elem.out] = Append(@, [id |-> 0, seq |-> None])]
          BY <3>6, <4>2 DEF ElementEnds, Room
        <5> QED BY <3>0, <3>4, <5>1
      <4> QED BY <4>1, <4>2
    <3> QED BY <2>4, <3>1, <3>2, <3>3, <3>5, <3>6 DEF ElementNext
  <2>5. CASE Consume
    <3>1. CASE queue[1] = << >>
      BY <2>2, <2>5, <3>1 DEF Consume
    <3>2. CASE queue[1] # << >>
      <4>1. queue' = [queue EXCEPT ![1] = Tail(@)]
        BY <2>5, <3>2 DEF Consume
      <4> QED BY <2>0, <2>1, <3>2, <4>1 DEF WithinCapacity
    <3> QED BY <3>1, <3>2
  <2>6. ASSUME NEW op \in Ops, Begin(op) PROVE WithinCapacity'
    BY <2>2, <2>6 DEF Begin
  <2>7. CASE ProducerGate \/ SendFails \/ SourceHandback
    BY <2>2, <2>7 DEF ProducerGate, SendFails, SourceHandback
  <2>8. CASE BeginSet \/ DeadlinePasses \/ Withdraw
    BY <2>2, <2>8 DEF BeginSet, DeadlinePasses, Withdraw
  <2>9. CASE ServiceNext
    BY <2>2, <2>9 DEF ServiceNext, PollDetached, CancelPark, Splice, SpliceUnpark, Claim,
                      DropFeed, PollOwn, Bypass, Retire, Rehome
  <2>10. CASE UNCHANGED vars
    BY <2>2, <2>10 DEF vars
  <2> QED BY <2>3, <2>4, <2>5, <2>6, <2>7, <2>8, <2>9, <2>10 DEF Next, ProducerNext
<1>3. Typed /\ WithinCapacity => TypeOK
  BY DEF Typed, EndpointOK, ProdOK, ElemOK, SvcOK, LinksOK, WithinCapacity, TypeOK
<1>4. ProtocolInv => Typed
  BY DEF ProtocolInv
<1> QED BY <1>1, <1>2, <1>3, <1>4, ProtocolInductive, PTL DEF Spec

=============================================================================
