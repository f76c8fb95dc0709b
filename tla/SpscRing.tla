------------------------------ MODULE SpscRing ------------------------------
(***************************************************************************)
(* The capture ring (spsc.rs): an interrupt handler produces frames into   *)
(* N slots while SpscCaptureSrc, in the pipeline's task, lends them out    *)
(* without copying.  Two cursors, loads and stores only.  Each atomic      *)
(* access is an action, and filling a slot takes two: the slot is torn in  *)
(* between.                                                                *)
(*                                                                         *)
(* A frame is the number of its capture.  The acquire and release orders   *)
(* of the cursors make a slot's bytes visible with the cursor that passes  *)
(* it, so the model is sequentially consistent.  The source's idle hook    *)
(* changes nothing, and waiting is a disabled Borrow.                      *)
(***************************************************************************)
EXTENDS Integers, Sequences

CONSTANTS N,           \* slots of the ring
          MaxFrames,   \* bound on the captures
          MaxLimit,    \* bound on the frame limits tried
          CounterSpan, \* values of the overrun counter, 2^32 in the code
          NoLimit,     \* the source has no frame limit
          Torn         \* a slot that is being written

ASSUME RingAssumption ==
    /\ N \in Nat /\ N >= 2
    /\ MaxFrames \in Nat
    /\ MaxLimit \in Nat
    /\ CounterSpan \in Nat \ {0}
    /\ NoLimit \notin Nat
    /\ Torn \notin Nat

VARIABLES
    slots,     \* SpscFrameRing::slots
    head,      \* the consumer's cursor
    tail,      \* the producer's cursor
    overruns,  \* captures that found the ring full
    prod,      \* the interrupt handler: pc, frame (the last capture)
    src,       \* SpscCaptureSrc: pc, ret (where release returns to), holding,
               \* remaining, left (releases recover may still make)
    lent,      \* the frame last lent to the pipeline
    published, \* history: the frames published
    released,  \* history: how many of them were released
    backlog    \* history: how many were published when recover last began

vars == <<slots, head, tail, overruns, prod, src, lent, published, released,
          backlog>>

Slots == 0 .. N - 1

Init ==
    /\ slots = [i \in Slots |-> 0]
    /\ head = 0
    /\ tail = 0
    /\ overruns = 0
    /\ prod = [pc |-> "idle", frame |-> 0]
    /\ \E limit \in (0 .. MaxLimit) \cup {NoLimit} :
          src = [pc |-> "ready", ret |-> "limit", holding |-> FALSE,
                 remaining |-> limit, left |-> 0]
    /\ lent = 0
    /\ published = <<>>
    /\ released = 0
    /\ backlog = 0

Wrap(i) == IF i + 1 >= N THEN 0 ELSE i + 1

(* How far a slot is from the head, and which slots hold published frames. *)
Distance(i) == IF i >= head THEN i - head ELSE i - head + N
InRing(i) == Distance(i) < Distance(tail)

-----------------------------------------------------------------------------
(* The producer.                                                           *)

FullNever == FALSE

Full == Wrap(tail) = head

(* A full ring drops the capture and counts it.                            *)
Overrun ==
    /\ prod.pc = "idle"
    /\ prod.frame < MaxFrames
    /\ Full
    /\ prod' = [prod EXCEPT !.frame = @ + 1]
    /\ overruns' = (overruns + 1) % CounterSpan
    /\ UNCHANGED <<slots, head, tail, src, lent, published, released, backlog>>

FindRoom ==
    /\ prod.pc = "idle"
    /\ prod.frame < MaxFrames
    /\ ~Full
    /\ prod' = [prod EXCEPT !.pc = "fill", !.frame = @ + 1]
    /\ UNCHANGED <<slots, head, tail, overruns, src, lent, published, released,
                   backlog>>

BeginFill ==
    /\ prod.pc = "fill"
    /\ prod' = [prod EXCEPT !.pc = "filling"]
    /\ slots' = [slots EXCEPT ![tail] = Torn]
    /\ UNCHANGED <<head, tail, overruns, src, lent, published, released, backlog>>

EndFill ==
    /\ prod.pc = "filling"
    /\ prod' = [prod EXCEPT !.pc = "publish"]
    /\ slots' = [slots EXCEPT ![tail] = prod.frame]
    /\ UNCHANGED <<head, tail, overruns, src, lent, published, released, backlog>>

PublishTorn ==
    /\ prod.pc = "filling"
    /\ prod' = [prod EXCEPT !.pc = "idle"]
    /\ tail' = Wrap(tail)
    /\ published' = Append(published, prod.frame)
    /\ UNCHANGED <<slots, head, overruns, src, lent, released, backlog>>

Publish ==
    /\ prod.pc = "publish"
    /\ prod' = [prod EXCEPT !.pc = "idle"]
    /\ tail' = Wrap(tail)
    /\ published' = Append(published, prod.frame)
    /\ UNCHANGED <<slots, head, overruns, src, lent, released, backlog>>

-----------------------------------------------------------------------------
(* The source.  The runner asks for the next frame once it has dropped the *)
(* one before: next releases that one, counts the limit down and borrows.  *)

CallNext ==
    /\ src.pc = "ready"
    /\ src' = [src EXCEPT !.pc = IF src.holding THEN "release" ELSE "limit",
                          !.ret = "limit"]
    /\ UNCHANGED <<slots, head, tail, overruns, prod, lent, published, released,
                   backlog>>

(* release: nothing to do on an empty ring.                                *)
Release ==
    /\ src.pc = "release"
    /\ src' = IF head = tail THEN [src EXCEPT !.pc = src.ret, !.holding = FALSE]
              ELSE [src EXCEPT !.pc = "advance"]
    /\ UNCHANGED <<slots, head, tail, overruns, prod, lent, published, released,
                   backlog>>

AdvanceNowhere ==
    /\ src.pc = "advance"
    /\ src' = [src EXCEPT !.pc = src.ret, !.holding = FALSE]
    /\ UNCHANGED <<slots, head, tail, overruns, prod, lent, published, released,
                   backlog>>

Advance ==
    /\ src.pc = "advance"
    /\ head' = Wrap(head)
    /\ released' = released + 1
    /\ src' = [src EXCEPT !.pc = src.ret, !.holding = FALSE]
    /\ UNCHANGED <<slots, tail, overruns, prod, lent, published, backlog>>

CountDown ==
    /\ src.pc = "limit"
    /\ src' = IF src.remaining = 0 THEN [src EXCEPT !.pc = "ended"]
              ELSE [src EXCEPT !.pc = "wait",
                       !.remaining = IF @ = NoLimit THEN NoLimit ELSE @ - 1]
    /\ UNCHANGED <<slots, head, tail, overruns, prod, lent, published, released,
                   backlog>>

Borrow ==
    /\ src.pc = "wait"
    /\ head # tail
    /\ src' = [src EXCEPT !.pc = "reading", !.holding = TRUE]
    /\ lent' = slots[head]
    /\ UNCHANGED <<slots, head, tail, overruns, prod, published, released,
                   backlog>>

(* The pipeline is done with the frame and drops it, or fails on it.       *)
DropFrame ==
    /\ src.pc = "reading"
    /\ src' = [src EXCEPT !.pc = "ready"]
    /\ UNCHANGED <<slots, head, tail, overruns, prod, lent, published, released,
                   backlog>>

RecoverKeepsBacklog ==
    /\ src.pc = "reading"
    /\ src' = [src EXCEPT !.pc = "release", !.ret = "drain", !.left = 0]
    /\ backlog' = Len(published)
    /\ UNCHANGED <<slots, head, tail, overruns, prod, lent, published, released>>

(* recover: release the frame held, then at most N more.                   *)
Recover ==
    /\ src.pc = "reading"
    /\ src' = [src EXCEPT !.pc = "release", !.ret = "drain", !.left = N]
    /\ backlog' = Len(published)
    /\ UNCHANGED <<slots, head, tail, overruns, prod, lent, published, released>>

Drain ==
    /\ src.pc = "drain"
    /\ src' = IF src.left = 0 \/ head = tail
              THEN [src EXCEPT !.pc = "ready", !.left = 0]
              ELSE [src EXCEPT !.pc = "release", !.left = @ - 1]
    /\ UNCHANGED <<slots, head, tail, overruns, prod, lent, published, released,
                   backlog>>

-----------------------------------------------------------------------------
ProducerStep == Overrun \/ FindRoom \/ BeginFill \/ EndFill \/ Publish

SourceStep ==
    CallNext \/ Release \/ Advance \/ CountDown \/ Borrow \/ DropFrame \/ Drain

Next == ProducerStep \/ SourceStep \/ Recover

(* The pipeline's task keeps running.  Nothing makes an interrupt come.    *)
Fairness == WF_vars(SourceStep)

Spec == Init /\ [][Next]_vars /\ Fairness
-----------------------------------------------------------------------------
(* Properties.                                                             *)

SourceStates ==
    [pc : {"ready", "release", "advance", "limit", "wait", "reading", "drain",
           "ended"},
     ret : {"limit", "drain"}, holding : BOOLEAN,
     remaining : Nat \cup {NoLimit}, left : Nat]

(* Every variable holds a value of its kind.                               *)
TypeOK ==
    /\ slots \in [Slots -> Nat \cup {Torn}]
    /\ head \in Slots
    /\ tail \in Slots
    /\ overruns \in 0 .. CounterSpan - 1
    /\ prod \in [pc : {"idle", "fill", "filling", "publish"}, frame : Nat]
    /\ src \in SourceStates
    /\ lent \in Nat \cup {Torn}
    /\ published \in Seq(Nat)
    /\ released \in Nat
    /\ backlog \in Nat

(* The bytes lent to the pipeline are whole when they are lent and do not  *)
(* change under it: the interrupt handler never writes the slot on loan.   *)
LentFrameStable ==
    src.pc = "reading" => lent # Torn /\ slots[head] = lent

(* Frames are lent in the order they were published, none skipped and none *)
(* twice: what is lent is the oldest frame not yet released.               *)
CaptureOrder ==
    src.pc = "reading" =>
        /\ released < Len(published)
        /\ lent = published[released + 1]

(* Every published frame that was not released is in the ring, whole and   *)
(* in its place, and at most N - 1 of them are.                            *)
RingHoldsPublished ==
    /\ Len(published) = released + Distance(tail)
    /\ \A i \in Slots :
          InRing(i) => slots[i] = published[released + Distance(i) + 1]

(* After recover the pipeline sees nothing captured before it: releasing N *)
(* frames outlasts any backlog, even while the handler adds to it.         *)
RecoverDropsBacklog ==
    src.pc \in {"ready", "wait", "reading"} => backlog <= released

(* A published frame reaches the pipeline, or is dropped by recover, unless*)
(* the source has reached its limit.                                       *)
PublishedTaken ==
    \A n \in 1 .. MaxFrames :
        n <= Len(published) ~> (n <= released \/ src.pc = "ended")

=============================================================================
