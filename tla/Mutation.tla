----------------------------- MODULE Mutation -----------------------------
(***************************************************************************)
(* Changing a running graph at one edge: the producing end that can be     *)
(* stopped and retargeted (ProducerEndpoint, runtime/channel.rs), the      *)
(* mutation service that inserts an element below the producer, removes it *)
(* again, replaces the source or sets a property of the element            *)
(* (runtime/mutate.rs, runtime/property_mailbox.rs), and the three arms    *)
(* involved: the source, the spliced element and the consumer.             *)
(*                                                                         *)
(* The producer, the element, the consumer and the service are threads;    *)
(* every section under the endpoint's lock is a step.  A link is a number, *)
(* link 1 the one the consumer reads; its sender is wherever that number   *)
(* is held, and it is closed when nobody holds it.  A frame is known by    *)
(* id, in the order the sources made them; seq is the number it carries.   *)
(***************************************************************************)
EXTENDS Integers, Sequences, FiniteSets, Functions

CONSTANTS Ops,           \* the operations asked for
          Timed,         \* TRUE: every operation has a deadline
          LinkCapacity,  \* packets a link holds
          MaxFrames,     \* bound on the frames of one source
          MaxOps,        \* bound on the operations
          MaxFaults      \* bound on the elements that fail

ASSUME MutationAssumption ==
    /\ Ops \subseteq {"insert", "remove", "replace", "set"}
    /\ Timed \in BOOLEAN
    /\ LinkCapacity \in Nat \ {0}
    /\ MaxFrames \in Nat
    /\ MaxOps \in Nat
    /\ MaxFaults \in Nat

VARIABLES
    up,      \* the producer's endpoint: pending and EndpointState
    own,     \* the spliced element's endpoint
    prod,    \* the source arm: pc, link, raw (the number of its next frame)
    elem,    \* the element arm: pc, in, out, held (a frame it keeps back) and
             \* done (the service still has its handback)
    cons,    \* the consumer arm: pc and, as history, got (the frames taken)
    queue,   \* what each link holds
    mail,    \* the element's PropertyMailbox: pending, request (0: none), as
             \* history the requests applied and withdrawn
    svc,     \* the service: pc, op, hand (the link it took), ops and, as
             \* history, before (the producer's link when it began) and result
    made,    \* history: frames made so far
    lost,    \* history: frames that died with a retired source
    faults   \* elements that failed

vars == <<up, own, prod, elem, mail, cons, queue, svc, made, lost, faults>>

Dead == 0       \* closed_link, and no link at all
None == -1
Links == 1..(MaxOps + 1)

Endpoint(after) ==
    [pending |-> FALSE, park |-> FALSE, parked |-> FALSE, detached |-> Dead,
     staged |-> Dead, gone |-> FALSE, claimed |-> FALSE, drain |-> FALSE,
     retired |-> FALSE, producer |-> FALSE, mutator |-> FALSE,
     last |-> None, after |-> after, shift |-> 0]

NoElement ==
    [pc |-> "none", in |-> Dead, out |-> Dead, held |-> << >>, done |-> FALSE]

Init ==
    /\ up = Endpoint(None)
    /\ own = Endpoint(None)
    /\ prod = [pc |-> "gate", link |-> 1, raw |-> 0]
    /\ elem = NoElement
    /\ mail = [pending |-> FALSE, request |-> 0, applied |-> {}, withdrawn |-> {}]
    /\ cons = [pc |-> "recv", got |-> << >>]
    /\ queue = [l \in Links |-> << >>]
    /\ svc = [pc |-> "idle", op |-> "none", hand |-> Dead, ops |-> 0,
              before |-> Dead, result |-> "none"]
    /\ made = 0
    /\ lost = {}
    /\ faults = 0

(* Where the sender of a link is held; closed when nowhere.                *)
Holders(l) ==
    {<<"producer", prod.link>>, <<"detached", up.detached>>,
     <<"staged", up.staged>>, <<"service", svc.hand>>,
     <<"element", elem.out>>, <<"claimed", own.detached>>}
        \cap ({"producer", "detached", "staged", "service", "element",
               "claimed"} \X {l})
Closed(l) == Holders(l) = {}

Reader(l) == IF l = 1 THEN cons.pc = "recv" ELSE elem.in = l

-----------------------------------------------------------------------------
(* The producer's side of the endpoint.                                    *)

(* The link of the producer's next push.                                   *)
NextLink == IF up.staged # Dead THEN up.staged ELSE prod.link

(* The gate of a push, and poll_producer behind it: take the staged link,  *)
(* then park if a request stands.                                          *)
ProducerGate ==
    LET link == NextLink
        parked == up.parked /\ up.staged = Dead
        woken == ~parked /\ up.mutator /\ svc.pc \in {"asleep", "asleepOwn"}
    IN  /\ prod.pc = "gate"
        /\ \/ /\ ~up.pending
              /\ prod' = [prod EXCEPT !.pc = "send"]
              /\ UNCHANGED <<up, svc>>
           \/ /\ up.pending /\ up.park
              /\ prod' = [prod EXCEPT !.pc = "waiting",
                             !.link = IF parked THEN link ELSE Dead]
              /\ up' = [up EXCEPT !.staged = Dead, !.parked = TRUE,
                           !.detached = IF parked THEN @ ELSE link,
                           !.mutator = @ /\ parked, !.producer = TRUE]
              /\ svc' = IF woken THEN [svc EXCEPT !.pc = "detach"] ELSE svc
           \/ /\ up.pending /\ ~up.park
              /\ prod' = [prod EXCEPT !.pc = "send", !.link = link]
              /\ up' = [up EXCEPT !.staged = Dead, !.parked = parked,
                                  !.pending = FALSE]
              /\ UNCHANGED svc
        /\ UNCHANGED <<own, elem, cons, queue, made, lost, faults, mail>>

(* observe: the first frame after a takeover is numbered above the last    *)
(* one the consumer saw, and those after it by the same shift.             *)
Shift(ep, seq) ==
    IF ep.after = None THEN ep.shift
    ELSE IF seq <= ep.after THEN ep.after + 1 - seq ELSE 0

Observed(ep, seq) ==
    [ep EXCEPT !.after = None, !.shift = Shift(ep, seq),
               !.last = seq + Shift(ep, seq)]

Room(l) == Len(queue[l]) < LinkCapacity

SendFrame ==
    /\ prod.pc = "send"
    /\ prod.raw < MaxFrames
    /\ prod.link # Dead /\ Reader(prod.link) /\ Room(prod.link)
    /\ queue' = [queue EXCEPT ![prod.link] =
          Append(@, [id |-> made + 1, seq |-> prod.raw + Shift(up, prod.raw)])]
    /\ up' = Observed(up, prod.raw)
    /\ prod' = [prod EXCEPT !.pc = "gate", !.raw = @ + 1]
    /\ made' = made + 1
    /\ UNCHANGED <<own, elem, cons, svc, lost, faults, mail>>

(* Mutant: the link of an ending arm is kept whether or not it was claimed. *)
GoneKeepsLink(ep, link) ==
    [ep EXCEPT !.gone = TRUE, !.mutator = FALSE,
               !.detached = IF @ = Dead THEN link ELSE @]

(* The arm drops its sender: producer_gone leaves a claimed link behind    *)
(* and wakes the mutator.                                                  *)
Gone(ep, link) ==
    [ep EXCEPT !.gone = TRUE, !.mutator = FALSE,
               !.detached = IF ep.claimed /\ @ = Dead THEN link ELSE @]

(* Mutant: an ending arm forgets the mutator that waits for it.            *)
ServiceNotWoken(ep, from, to) == svc

WokenService(ep, from, to) ==
    IF ep.mutator /\ svc.pc = from THEN [svc EXCEPT !.pc = to] ELSE svc

(* The answer; a remove refused before it disturbed anything gives the     *)
(* handback back.                                                          *)
Finish(result) == [svc EXCEPT !.pc = "idle", !.op = "none", !.hand = Dead,
                              !.result = result]
Restored == [elem EXCEPT !.done = @ \/ svc.op = "remove"]

(* The end of the stream goes out and the source returns.                  *)
SendEos ==
    /\ prod.pc = "send"
    /\ prod.raw = MaxFrames
    /\ prod.link # Dead /\ Reader(prod.link) /\ Room(prod.link)
    /\ queue' = [queue EXCEPT ![prod.link] = Append(@, [id |-> 0, seq |-> None])]
    /\ up' = Gone(up, prod.link)
    /\ prod' = [prod EXCEPT !.pc = "returned", !.link = Dead]
    /\ svc' = WokenService(up, "asleep", "detach")
    /\ UNCHANGED <<own, elem, cons, made, lost, faults, mail>>

(* A push into a dead link, or one whose reader has gone, ends the source. *)
(* The frame it held dies with it.                                         *)
SendFails ==
    /\ prod.pc = "send"
    /\ prod.link = Dead \/ ~Reader(prod.link)
    /\ up' = Gone(up, prod.link)
    /\ prod' = [prod EXCEPT !.pc = "returned", !.link = Dead]
    /\ svc' = WokenService(up, "asleep", "detach")
    /\ made' = IF prod.raw < MaxFrames THEN made + 1 ELSE made
    /\ lost' = IF prod.raw < MaxFrames THEN lost \cup {made + 1} ELSE lost
    /\ UNCHANGED <<own, elem, cons, queue, faults, mail>>

(* lent_source_arm hands the source back.                                  *)
SourceHandback ==
    /\ prod.pc = "returned"
    /\ prod' = [prod EXCEPT !.pc = "over"]
    /\ UNCHANGED <<up, own, elem, cons, queue, svc, made, lost, faults, mail>>

-----------------------------------------------------------------------------
(* The spliced element keeps one frame back: a frame in lets the one       *)
(* before it out, the end of its input lets the last one out.              *)

Emit(frame) ==
    [id |-> frame.id, seq |-> frame.seq + Shift(own, frame.seq)]

(* drain: with a frame in hand and the mailbox flagged, the arm takes what *)
(* is queued, and answers it before it processes the frame.                *)
DrainTakes ==
    /\ elem.pc = "recv"
    /\ queue[elem.in] # << >> /\ Head(queue[elem.in]).id # 0
    /\ mail.pending
    /\ mail' = [mail EXCEPT !.pending = FALSE, !.request = 0,
                   !.applied = @ \cup ({mail.request} \ {0})]
    /\ elem' = IF mail.request # 0 THEN [elem EXCEPT !.pc = "set"] ELSE elem
    /\ UNCHANGED <<up, own, prod, cons, queue, svc, made, lost, faults>>

DrainAnswers ==
    /\ elem.pc = "set"
    /\ elem' = [elem EXCEPT !.pc = "recv"]
    /\ svc' = Finish("Ok")
    /\ UNCHANGED <<up, own, prod, cons, queue, made, lost, faults, mail>>

ElementFrame ==
    LET frame == Head(queue[elem.in])
    IN  /\ elem.pc = "recv" /\ ~mail.pending
        /\ queue[elem.in] # << >> /\ frame.id # 0
        /\ elem' = [elem EXCEPT !.held = <<frame>>]
        /\ IF elem.held = << >>
           THEN /\ queue' = [queue EXCEPT ![elem.in] = Tail(@)]
                /\ UNCHANGED own
           ELSE /\ Reader(elem.out) /\ Room(elem.out)
                /\ queue' = [queue EXCEPT ![elem.in] = Tail(@),
                                ![elem.out] = Append(@, Emit(elem.held[1]))]
                /\ own' = Observed(own, elem.held[1].seq)
        /\ UNCHANGED <<up, prod, cons, svc, made, lost, faults, mail>>

(* Its Eos, or a closed input while a remove drains it: what it held goes  *)
(* out first; an Eos of the stream is passed on, the drain's own is not.   *)
ElementFlush ==
    /\ elem.pc = "recv"
    /\ elem.held # << >>
    /\ \/ queue[elem.in] # << >> /\ Head(queue[elem.in]).id = 0
       \/ queue[elem.in] = << >> /\ Closed(elem.in) /\ own.drain
    /\ Room(elem.out)
    /\ queue' = [queue EXCEPT ![elem.out] = Append(@, Emit(elem.held[1]))]
    /\ own' = Observed(own, elem.held[1].seq)
    /\ elem' = [elem EXCEPT !.held = << >>]
    /\ UNCHANGED <<up, prod, cons, svc, made, lost, faults, mail>>

ElementGone ==
    /\ own' = Gone(own, elem.out)
    /\ elem' = [elem EXCEPT !.pc = "returned", !.in = Dead, !.out = Dead,
                            !.held = << >>]
    /\ svc' = WokenService(own, "asleepOwn", "detachOwn")

ElementEnds ==
    /\ elem.pc = "recv"
    /\ \/ /\ queue[elem.in] # << >> /\ Head(queue[elem.in]).id = 0
          /\ elem.held = << >>
          /\ Room(elem.out)
          /\ queue' = [queue EXCEPT ![elem.in] = Tail(@),
                          ![elem.out] = Append(@, [id |-> 0, seq |-> None])]
       \/ /\ queue[elem.in] = << >> /\ Closed(elem.in)
          /\ own.drain => elem.held = << >>
          /\ UNCHANGED queue
    /\ ElementGone
    /\ UNCHANGED <<up, prod, cons, made, lost, faults, mail>>

(* It fails; what it held and what was queued for it die with it.          *)
ElementFails ==
    /\ faults < MaxFaults
    /\ elem.pc = "recv"
    /\ faults' = faults + 1
    /\ ElementGone
    /\ queue' = [queue EXCEPT ![elem.in] = << >>]
    /\ lost' = lost \cup ({f.id : f \in Range(elem.held \o queue[elem.in])} \ {0})
    /\ UNCHANGED <<up, prod, cons, made, mail>>

ElementHandback ==
    /\ elem.pc = "returned"
    /\ elem' = [elem EXCEPT !.pc = "over"]
    /\ UNCHANGED <<up, own, prod, cons, queue, svc, made, lost, faults, mail>>

Consume ==
    /\ cons.pc = "recv"
    /\ \/ /\ queue[1] # << >>
          /\ queue' = [queue EXCEPT ![1] = Tail(@)]
          /\ cons' = IF Head(queue[1]).id = 0 THEN [cons EXCEPT !.pc = "ended"]
                     ELSE [cons EXCEPT !.got = Append(@, Head(queue[1]))]
       \/ /\ queue[1] = << >> /\ Closed(1)
          /\ cons' = [cons EXCEPT !.pc = "ended"]
          /\ UNCHANGED queue
    /\ UNCHANGED <<up, own, prod, elem, svc, made, lost, faults, mail>>

-----------------------------------------------------------------------------
(* The service takes one request at a time.                                *)

(* One element at a time is spliced in here.  A remove takes the element's *)
(* handback, which only a refusal puts back.                               *)
Begin(op) ==
    /\ svc.pc = "idle"
    /\ svc.ops < MaxOps
    /\ op = "insert" => elem.pc = "none"
    /\ op = "remove" => elem.done
    /\ svc' = [svc EXCEPT !.pc = "detach", !.op = op, !.ops = @ + 1,
                  !.result = "none",
                  !.before = NextLink]
    /\ up' = [up EXCEPT !.park = TRUE, !.pending = TRUE]
    /\ elem' = [elem EXCEPT !.done = @ /\ op # "remove"]
    /\ UNCHANGED <<own, prod, cons, queue, made, lost, faults, mail>>

(* poll_detached, first by the request and again when the producer parked  *)
(* or ended.                                                               *)
PollDetached ==
    /\ svc.pc = "detach"
    /\ \/ /\ up.detached # Dead
          /\ svc' = [svc EXCEPT !.pc = svc.op, !.hand = up.detached]
          /\ up' = [up EXCEPT !.detached = Dead]
          /\ UNCHANGED elem
       \/ /\ up.detached = Dead /\ up.gone
          /\ svc' = Finish("GraphEnded")
          /\ elem' = Restored
          /\ UNCHANGED up
       \/ /\ up.detached = Dead /\ ~up.gone
          /\ svc' = [svc EXCEPT !.pc = "asleep"]
          /\ up' = [up EXCEPT !.mutator = TRUE]
          /\ UNCHANGED elem
    /\ UNCHANGED <<own, prod, cons, queue, made, lost, faults, mail>>

(* The deadline passes; the link is looked for once more, then the park    *)
(* request is withdrawn under the lock of its own.                         *)
DeadlinePasses ==
    /\ Timed
    /\ svc.pc = "asleep"
    /\ up.detached = Dead /\ ~up.gone
    /\ svc' = [svc EXCEPT !.pc = "cancel"]
    /\ UNCHANGED <<up, own, prod, elem, cons, queue, made, lost, faults, mail>>

(* The producer after its waker is taken and woken.                        *)
WokenProducer ==
    IF up.producer /\ prod.pc = "waiting" THEN [prod EXCEPT !.pc = "gate"]
    ELSE prod

(* Mutant: the link is staged again but not taken back.                    *)
CancelParkCopies ==
    /\ svc.pc = "cancel"
    /\ up' = [up EXCEPT !.park = FALSE, !.pending = TRUE, !.producer = FALSE,
                 !.staged = IF up.detached # Dead THEN up.detached ELSE @]
    /\ prod' = WokenProducer
    /\ svc' = Finish("TimedOut")
    /\ elem' = Restored
    /\ UNCHANGED <<own, cons, queue, made, lost, faults, mail>>

CancelPark ==
    /\ svc.pc = "cancel"
    /\ up' = [up EXCEPT !.park = FALSE, !.pending = TRUE, !.producer = FALSE,
                 !.staged = IF up.detached # Dead THEN up.detached ELSE @,
                 !.detached = Dead]
    /\ prod' = WokenProducer
    /\ svc' = Finish("TimedOut")
    /\ elem' = Restored
    /\ UNCHANGED <<own, cons, queue, made, lost, faults, mail>>

Unparked(ep, link) ==
    [ep EXCEPT !.park = FALSE, !.staged = link, !.pending = TRUE,
               !.producer = FALSE]

(* set_property: the request goes into the mailbox of the element's node.  *)
BeginSet ==
    /\ "set" \in Ops
    /\ svc.pc = "idle" /\ svc.ops < MaxOps
    /\ elem.pc # "none"
    /\ svc' = [svc EXCEPT !.pc = "answer", !.op = "set", !.ops = @ + 1,
                          !.result = "none", !.before = NextLink]
    /\ mail' = [mail EXCEPT !.pending = TRUE, !.request = svc.ops + 1]
    /\ UNCHANGED <<up, own, prod, elem, cons, queue, made, lost, faults>>

(* Mutant: a request the arm already has is reported as timed out.         *)
WithdrawTaken ==
    /\ Timed
    /\ svc.pc = "answer"
    /\ mail' = [mail EXCEPT !.request = 0, !.withdrawn = @ \cup {svc.ops}]
    /\ svc' = Finish("TimedOut")
    /\ UNCHANGED <<up, own, prod, elem, cons, queue, made, lost, faults>>

(* The deadline of a set: the request is withdrawn unless the arm has it.  *)
Withdraw ==
    /\ Timed
    /\ svc.pc = "answer"
    /\ IF mail.request # 0
       THEN /\ mail' = [mail EXCEPT !.request = 0,
                           !.withdrawn = @ \cup {mail.request}]
            /\ svc' = Finish("TimedOut")
       ELSE /\ svc' = [svc EXCEPT !.pc = "answerLate"]
            /\ UNCHANGED mail
    /\ UNCHANGED <<up, own, prod, elem, cons, queue, made, lost, faults>>

(* insert: the link the producer gave up becomes the element's output, a   *)
(* new one feeds the element.  The arm reaches the join: it has not        *)
(* resolved while the producer is parked.  The element keeps the caps, so  *)
(* none are sent on.                                                       *)
Splice ==
    LET feed == svc.ops + 1
    IN  /\ svc.pc = "insert"
        /\ own' = Endpoint(up.last)
        /\ elem' = [pc |-> "recv", in |-> feed, out |-> svc.hand,
                    held |-> << >>, done |-> TRUE]
        /\ mail' = [mail EXCEPT !.pending = FALSE, !.request = 0]
        /\ svc' = [svc EXCEPT !.pc = "spliced", !.hand = feed]
        /\ UNCHANGED <<up, prod, cons, queue, made, lost, faults>>

SpliceUnpark ==
    /\ svc.pc = "spliced"
    /\ up' = Unparked(up, svc.hand)
    /\ prod' = WokenProducer
    /\ svc' = Finish("Ok")
    /\ UNCHANGED <<own, elem, cons, queue, made, lost, faults, mail>>

(* Mutant: the element is not asked to let go of what it holds.            *)
ClaimOnly ==
    /\ svc.pc = "remove"
    /\ own' = [own EXCEPT !.claimed = TRUE]
    /\ svc' = [svc EXCEPT !.pc = "drop"]
    /\ UNCHANGED <<up, prod, elem, cons, queue, made, lost, faults, mail>>

(* remove: claim the element's output and ask it to drain, then drop the   *)
(* link into it, then wait for its output and for the element itself.      *)
Claim ==
    /\ svc.pc = "remove"
    /\ own' = [own EXCEPT !.claimed = TRUE, !.drain = TRUE]
    /\ svc' = [svc EXCEPT !.pc = "drop"]
    /\ UNCHANGED <<up, prod, elem, cons, queue, made, lost, faults, mail>>

DropFeed ==
    /\ svc.pc = "drop"
    /\ svc' = [svc EXCEPT !.pc = "detachOwn", !.hand = Dead]
    /\ UNCHANGED <<up, own, prod, elem, cons, queue, made, lost, faults, mail>>

PollOwn ==
    /\ svc.pc = "detachOwn"
    /\ \/ /\ own.detached # Dead
          /\ svc' = [svc EXCEPT !.pc = "awaitElement", !.hand = own.detached]
          /\ own' = [own EXCEPT !.detached = Dead]
          /\ UNCHANGED <<up, prod>>
       \/ /\ own.detached = Dead /\ own.gone
          /\ up' = Unparked(up, Dead)
          /\ prod' = WokenProducer
          /\ svc' = Finish("GraphEnded")
          /\ UNCHANGED own
       \/ /\ own.detached = Dead /\ ~own.gone
          /\ svc' = [svc EXCEPT !.pc = "asleepOwn"]
          /\ own' = [own EXCEPT !.mutator = TRUE]
          /\ UNCHANGED <<up, prod>>
    /\ UNCHANGED <<elem, cons, queue, made, lost, faults, mail>>

(* The producer takes over the element's output, numbering on from it.     *)
(* The element comes back however its arm ended (spliced_arm), and its     *)
(* caps were the producer's.                                               *)
Bypass ==
    /\ svc.pc = "awaitElement"
    /\ elem.pc = "over"
    /\ up' = [Unparked(up, svc.hand) EXCEPT !.after = own.last, !.shift = 0]
    /\ prod' = WokenProducer
    /\ elem' = NoElement
    /\ svc' = Finish("Ok")
    /\ UNCHANGED <<own, cons, queue, made, lost, faults, mail>>

(* replace: the source resumes onto its dead link and ends; the endpoint   *)
(* and the link go to a new one.                                           *)
Retire ==
    /\ svc.pc = "replace"
    /\ up' = [Unparked(up, Dead) EXCEPT !.retired = TRUE]
    /\ prod' = WokenProducer
    /\ svc' = [svc EXCEPT !.pc = "awaitSource"]
    /\ UNCHANGED <<own, elem, cons, queue, made, lost, faults, mail>>

Rehome ==
    /\ svc.pc = "awaitSource"
    /\ prod.pc = "over"
    /\ up' = [Endpoint(up.last) EXCEPT !.last = up.last, !.pending = up.pending,
                 !.producer = up.producer, !.mutator = up.mutator]
    /\ prod' = [pc |-> "gate", link |-> svc.hand, raw |-> 0]
    /\ svc' = Finish("Ok")
    /\ UNCHANGED <<own, elem, cons, queue, made, lost, faults, mail>>

-----------------------------------------------------------------------------
ProducerNext == ProducerGate \/ SendFrame \/ SendEos \/ SendFails \/ SourceHandback
ElementNext ==
    \/ DrainTakes \/ DrainAnswers \/ ElementFrame
    \/ ElementFlush \/ ElementEnds \/ ElementHandback
ServiceNext ==
    \/ PollDetached \/ CancelPark \/ Splice \/ SpliceUnpark
    \/ Claim \/ DropFeed \/ PollOwn \/ Bypass \/ Retire \/ Rehome

Next ==
    \/ ProducerNext \/ ElementNext \/ ElementFails \/ Consume
    \/ \E op \in Ops \ {"set"} : Begin(op)
    \/ BeginSet
    \/ DeadlinePasses \/ Withdraw \/ ServiceNext

(* Every arm and the service run, a deadline passes; requests may never    *)
(* come.                                                                   *)
Fairness ==
    /\ WF_vars(ProducerNext)
    /\ WF_vars(ElementNext)
    /\ WF_vars(Consume)
    /\ WF_vars(ServiceNext)
    /\ WF_vars(DeadlinePasses \/ Withdraw)

Spec == Init /\ [][Next]_vars /\ Fairness

-----------------------------------------------------------------------------
LinkOrDead == Links \cup {Dead}

TypeOK ==
    /\ {up.detached, up.staged, prod.link, svc.hand, elem.in, elem.out,
        own.detached} \subseteq LinkOrDead
    /\ prod.pc \in {"gate", "waiting", "send", "returned", "over"}
    /\ elem.pc \in {"none", "recv", "set", "returned", "over"}
    /\ cons.pc \in {"recv", "ended"}
    /\ svc.ops \in 0..MaxOps
    /\ \A l \in Links : Len(queue[l]) <= LinkCapacity

(* The sender of a link is in one place at a time, whatever the order of   *)
(* parks, resumes, claims and withdrawals: two holders would keep a link   *)
(* open that a remove closes, and let two producers push into it.          *)
LinkInOnePlace == \A l \in Links : Cardinality(Holders(l)) <= 1

(* The consumer sees the frames in the order they were made, none twice,   *)
(* and none missing but those that died with a source: what was queued     *)
(* when the edge was spliced, and what a removed element held back, keep   *)
(* their place (insert, remove, replace_source).                           *)
NoFrameLost ==
    /\ \A i \in 1..(Len(cons.got) - 1) :
          /\ cons.got[i].id < cons.got[i + 1].id
          /\ \A f \in (cons.got[i].id + 1)..(cons.got[i + 1].id - 1) : f \in lost
    /\ cons.pc = "ended" => {f.id : f \in Range(cons.got)} \cup lost = 1..made

(* An operation that timed out changed nothing: the producer goes on       *)
(* pushing into the link it had, however the park crossed the deadline     *)
(* (cancel_park), and a property reported as not set never is (withdraw).  *)
TimedOutUnchanged ==
    /\ (svc.result = "TimedOut" /\ prod.pc = "send") =>
          prod.link = svc.before
    /\ mail.applied \cap mail.withdrawn = {}

(* Every request is answered: no order of parks, ends and failures leaves  *)
(* the service and an arm waiting for each other.                          *)
RequestAnswered == svc.pc # "idle" ~> svc.pc = "idle"

(* Every arm ends once the sources have run out of frames.                 *)
AllArmsEnd ==
    <>(prod.pc = "over" /\ cons.pc = "ended" /\ elem.pc \in {"none", "over"})

(* The sequence the consumer sees keeps rising across a takeover           *)
(* (continue_sequence_after).                                              *)
SequenceRises ==
    \A i \in 1..(Len(cons.got) - 1) : cons.got[i].seq < cons.got[i + 1].seq
=============================================================================
