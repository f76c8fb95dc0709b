--------------------------- MODULE SpscRingProofs ---------------------------
(***************************************************************************)
(* Proofs about the capture ring, for every number of slots and captures.  *)
(***************************************************************************)
EXTENDS SpscRing, TLAPS

(* While the producer is past its check the ring has room: only the        *)
(* consumer moves the head, and only away from the tail.                   *)
RoomInv ==
    /\ prod.pc # "idle" => Wrap(tail) # head
    /\ prod.pc = "publish" => slots[tail] = prod.frame

(* A slot on loan, or about to be released, holds a published frame.       *)
LoanInv ==
    /\ src.holding => head # tail
    /\ src.pc = "reading" => src.holding
    /\ src.pc = "advance" => head # tail
    /\ src.pc = "release" => head # tail

(* What recover has left to release covers the backlog it began with.      *)
Recovering == src.pc \in {"release", "advance"} /\ src.ret = "drain"

BacklogInv ==
    /\ backlog <= Len(published)
    /\ src.pc = "drain" => src.ret = "drain" /\ backlog <= released + src.left
    /\ Recovering => backlog <= released + 1 + src.left
    /\ src.pc # "drain" /\ ~Recovering => backlog <= released

IInv == /\ TypeOK /\ RoomInv /\ LoanInv /\ LentFrameStable
        /\ RingHoldsPublished /\ BacklogInv

-----------------------------------------------------------------------------
(* The cursors stay in range, and never meet by wrapping.                  *)
LEMMA WrapFacts ==
  ASSUME NEW i \in Slots, NEW j \in Slots
  PROVE  /\ Wrap(i) \in Slots
         /\ Wrap(i) # i
         /\ Wrap(i) = Wrap(j) => i = j
  BY RingAssumption DEF Slots, Wrap

(* A slot's distance from the head is below N, and zero only at the head.  *)
LEMMA DistanceFacts ==
  ASSUME head \in Slots, NEW i \in Slots
  PROVE  /\ Distance(i) \in 0 .. N - 1
         /\ Distance(i) = 0 <=> i = head
  BY RingAssumption DEF Slots, Distance

(* Distances tell slots apart.                                             *)
LEMMA DistanceInjective ==
  ASSUME head \in Slots, NEW i \in Slots, NEW j \in Slots,
         Distance(i) = Distance(j)
  PROVE  i = j
  BY RingAssumption DEF Slots, Distance

(* The next slot is one further from the head, unless it is the head.      *)
LEMMA DistanceNext ==
  ASSUME head \in Slots, NEW i \in Slots, Wrap(i) # head
  PROVE  Distance(Wrap(i)) = Distance(i) + 1
  BY RingAssumption DEF Slots, Distance, Wrap

(* Moving the head on brings every other slot one nearer.                  *)
LEMMA DistanceAdvance ==
  ASSUME head \in Slots, NEW i \in Slots, i # head, head' = Wrap(head)
  PROVE  Distance(i)' = Distance(i) - 1
  BY RingAssumption DEF Slots, Distance, Wrap

(* The states the ring starts in satisfy the invariant.                    *)
LEMMA InitIInv == Init => IInv
<1> SUFFICES ASSUME Init PROVE IInv
  OBVIOUS
<1> USE RingAssumption
<1>1. TypeOK
  <2>1. src \in SourceStates
    BY DEF Init, SourceStates
  <2> QED
    BY <2>1 DEF Init, TypeOK, Slots
<1>2. RoomInv /\ LoanInv /\ LentFrameStable /\ BacklogInv
  BY DEF Init, RoomInv, LoanInv, LentFrameStable, BacklogInv, Recovering
<1>3. RingHoldsPublished
  BY DEF Init, RingHoldsPublished, InRing, Distance, Slots
<1> QED
  BY <1>1, <1>2, <1>3 DEF IInv

-----------------------------------------------------------------------------
(* A step that moves no cursor, writes no slot and publishes nothing       *)
(* leaves what the ring holds as it was.                                   *)
LEMMA RingKept ==
  ASSUME RingHoldsPublished, UNCHANGED <<slots, head, tail, published, released>>
  PROVE  RingHoldsPublished'
  BY DEF RingHoldsPublished, InRing, Distance

(* Writing the tail's slot touches nothing published.                      *)
LEMMA RingKeptByFill ==
  ASSUME TypeOK, RingHoldsPublished, NEW v,
         slots' = [slots EXCEPT ![tail] = v],
         UNCHANGED <<head, tail, published, released>>
  PROVE  RingHoldsPublished'
<1>1. \A i \in Slots : InRing(i)' = InRing(i) /\ Distance(i)' = Distance(i)
  BY DEF InRing, Distance
<1>2. \A i \in Slots : InRing(i) => i # tail
  BY DistanceFacts DEF InRing, TypeOK
<1>3. \A i \in Slots : i # tail => slots'[i] = slots[i]
  BY DEF TypeOK
<1>4. Distance(tail)' = Distance(tail)
  BY DEF Distance
<1> QED
  BY <1>1, <1>2, <1>3, <1>4 DEF RingHoldsPublished

(* The producer's steps keep the invariant.                                *)
LEMMA ProducerSafe ==
  ASSUME IInv, ProducerStep
  PROVE  IInv'
<1> USE RingAssumption DEF IInv
<1>1. CASE Overrun
  <2>1. TypeOK'
    <3>1. overruns' \in 0 .. CounterSpan - 1
      BY <1>1 DEF TypeOK, Overrun
    <3>2. prod' \in [pc : {"idle", "fill", "filling", "publish"}, frame : Nat]
      <4>1. prod' = [prod EXCEPT !.frame = prod.frame + 1]
        BY <1>1 DEF Overrun
      <4>2. prod \in [pc : {"idle", "fill", "filling", "publish"}, frame : Nat]
        BY DEF TypeOK
      <4> QED
        BY <4>1, <4>2
    <3> QED
      BY <1>1, <3>1, <3>2 DEF TypeOK, Overrun
  <2>2. RingHoldsPublished'
    BY <1>1, RingKept DEF Overrun
  <2> QED
    BY <1>1, <2>1, <2>2 DEF Overrun, TypeOK, RoomInv, LoanInv, LentFrameStable,
       BacklogInv, Recovering
<1>2. CASE FindRoom
  <2>1. TypeOK'
    <3>1. prod' \in [pc : {"idle", "fill", "filling", "publish"}, frame : Nat]
      <4>1. prod' = [prod EXCEPT !.pc = "fill", !.frame = prod.frame + 1]
        BY <1>2 DEF FindRoom
      <4>2. prod.frame + 1 \in Nat
        BY DEF TypeOK
      <4>3. prod' = [pc |-> "fill", frame |-> prod.frame + 1]
        BY <4>1 DEF TypeOK
      <4> QED
        BY <4>2, <4>3
    <3> QED
      BY <1>2, <3>1 DEF TypeOK, FindRoom
  <2>2. RingHoldsPublished'
    BY <1>2, RingKept DEF FindRoom
  <2> QED
    BY <1>2, <2>1, <2>2 DEF FindRoom, Full, TypeOK, RoomInv, LoanInv,
       LentFrameStable, BacklogInv, Recovering
<1>3. CASE BeginFill
  <2>1. TypeOK'
    BY <1>3 DEF TypeOK, BeginFill
  <2>2. RingHoldsPublished'
    BY <1>3, RingKeptByFill DEF BeginFill
  <2> QED
    BY <1>3, <2>1, <2>2 DEF BeginFill, TypeOK, RoomInv, LoanInv,
       LentFrameStable, BacklogInv, Recovering
<1>4. CASE EndFill
  <2>1. TypeOK'
    BY <1>4 DEF TypeOK, EndFill
  <2>2. RingHoldsPublished'
    BY <1>4, RingKeptByFill DEF EndFill
  <2> QED
    BY <1>4, <2>1, <2>2 DEF EndFill, TypeOK, RoomInv, LoanInv,
       LentFrameStable, BacklogInv, Recovering
<1>5. CASE Publish
  <2>1. TypeOK'
    <3>1. published' \in Seq(Nat)
      BY <1>5 DEF TypeOK, Publish
    <3>2. tail' \in Slots
      BY <1>5, WrapFacts DEF TypeOK, Publish
    <3>3. prod' \in [pc : {"idle", "fill", "filling", "publish"}, frame : Nat]
      BY <1>5 DEF TypeOK, Publish
    <3> QED
      BY <1>5, <3>1, <3>2, <3>3 DEF TypeOK, Publish
  <2>2. /\ Wrap(tail) # head /\ slots[tail] = prod.frame
        /\ tail' = Wrap(tail) /\ head' = head /\ slots' = slots
        /\ published' = Append(published, prod.frame) /\ released' = released
    BY <1>5 DEF Publish, RoomInv
  <2>3. Distance(tail)' = Distance(tail) + 1
    BY <2>2, DistanceNext DEF TypeOK, Distance
  <2>4. \A i \in Slots : Distance(i)' = Distance(i)
    BY <2>2 DEF Distance
  <2>5. Len(published) = released + Distance(tail)
    BY DEF RingHoldsPublished
  <2>6. ASSUME NEW i \in Slots, InRing(i)'
        PROVE  slots'[i] = published'[released' + Distance(i)' + 1]
    <3>1. Distance(i) < Distance(tail) + 1
      BY <2>3, <2>4, <2>6 DEF InRing
    <3>2. CASE i = tail
      BY <2>2, <2>4, <2>5, <3>2, DistanceFacts DEF TypeOK
    <3>3. CASE i # tail
      <4>1. Distance(i) # Distance(tail)
        BY <3>3, DistanceInjective DEF TypeOK
      <4>2. InRing(i)
        BY <3>1, <4>1, DistanceFacts DEF InRing, TypeOK
      <4>3. released + Distance(i) + 1 \in 1 .. Len(published)
        BY <4>2, <2>5, DistanceFacts DEF InRing, TypeOK
      <4> QED
        BY <2>2, <2>4, <4>2, <4>3 DEF RingHoldsPublished, TypeOK
    <3> QED
      BY <3>2, <3>3
  <2>7. Len(published') = released' + Distance(tail)'
    <3>1. Len(published') = Len(published) + 1
      BY <2>2 DEF TypeOK
    <3>2. Distance(tail) \in Nat
      BY DistanceFacts DEF TypeOK
    <3> QED
      BY <2>2, <2>3, <2>5, <3>1, <3>2 DEF TypeOK
  <2>8. RingHoldsPublished'
    BY <2>6, <2>7 DEF RingHoldsPublished
  <2>9. BacklogInv'
    BY <1>5, <2>2 DEF Publish, BacklogInv, Recovering, TypeOK
  <2> QED
    BY <1>5, <2>1, <2>2, <2>8, <2>9 DEF Publish, TypeOK, RoomInv, LoanInv,
       LentFrameStable
<1> QED
  BY <1>1, <1>2, <1>3, <1>4, <1>5 DEF ProducerStep

(* The source's steps keep the invariant.                                  *)
LEMMA SourceSafe ==
  ASSUME IInv, SourceStep \/ Recover
  PROVE  IInv'
<1> USE RingAssumption DEF IInv
<1>1. CASE CallNext
  <2>1. TypeOK'
    <3>1. src' \in SourceStates
      BY <1>1 DEF TypeOK, SourceStates, CallNext
    <3> QED
      BY <1>1, <3>1 DEF TypeOK, CallNext
  <2>2. RingHoldsPublished'
    BY <1>1, RingKept DEF CallNext
  <2> QED
    BY <1>1, <2>1, <2>2 DEF CallNext, TypeOK, RoomInv, LoanInv, LentFrameStable,
       BacklogInv, Recovering
<1>2. CASE Release
  <2>1. TypeOK'
    <3>1. src' \in SourceStates
      BY <1>2 DEF TypeOK, SourceStates, Release
    <3> QED
      BY <1>2, <3>1 DEF TypeOK, Release
  <2>2. RingHoldsPublished'
    BY <1>2, RingKept DEF Release
  <2> QED
    BY <1>2, <2>1, <2>2 DEF Release, TypeOK, RoomInv, LoanInv, LentFrameStable,
       BacklogInv, Recovering
<1>3. CASE CountDown
  <2>1. TypeOK'
    <3>1. src' \in SourceStates
      <4>1. CASE src.remaining = 0
        BY <1>3, <4>1 DEF TypeOK, SourceStates, CountDown
      <4>2. CASE src.remaining = NoLimit
        BY <1>3, <4>2 DEF TypeOK, SourceStates, CountDown
      <4>3. CASE src.remaining \in Nat \ {0}
        <5>1. src' = [src EXCEPT !.pc = "wait", !.remaining = src.remaining - 1]
          BY <1>3, <4>3 DEF CountDown
        <5>2. src.remaining - 1 \in Nat
          BY <4>3
        <5> QED
          BY <5>1, <5>2 DEF TypeOK, SourceStates
      <4> QED
        BY <4>1, <4>2, <4>3 DEF TypeOK, SourceStates
    <3> QED
      BY <1>3, <3>1 DEF TypeOK, CountDown
  <2>2. RingHoldsPublished'
    BY <1>3, RingKept DEF CountDown
  <2> QED
    BY <1>3, <2>1, <2>2 DEF CountDown, TypeOK, RoomInv, LoanInv, LentFrameStable,
       BacklogInv, Recovering
<1>4. CASE Borrow
  <2>1. TypeOK'
    <3>1. src' \in SourceStates
      BY <1>4 DEF TypeOK, SourceStates, Borrow
    <3> QED
      BY <1>4, <3>1 DEF TypeOK, Borrow
  <2>2. RingHoldsPublished'
    BY <1>4, RingKept DEF Borrow
  <2>3. slots[head] # Torn
    <3>1. Distance(head) = 0 /\ Distance(tail) \in 1 .. N - 1
      BY <1>4, DistanceFacts DEF TypeOK, Borrow
    <3>2. InRing(head)
      BY <3>1 DEF InRing
    <3>3. slots[head] = published[released + 1] /\ released + 1 \in 1 .. Len(published)
      BY <3>1, <3>2 DEF RingHoldsPublished, TypeOK
    <3> QED
      BY <3>3 DEF TypeOK
  <2> QED
    BY <1>4, <2>1, <2>2, <2>3 DEF Borrow, TypeOK, RoomInv, LoanInv, LentFrameStable,
       BacklogInv, Recovering
<1>5. CASE DropFrame
  <2>1. TypeOK'
    <3>1. src' \in SourceStates
      BY <1>5 DEF TypeOK, SourceStates, DropFrame
    <3> QED
      BY <1>5, <3>1 DEF TypeOK, DropFrame
  <2>2. RingHoldsPublished'
    BY <1>5, RingKept DEF DropFrame
  <2> QED
    BY <1>5, <2>1, <2>2 DEF DropFrame, TypeOK, RoomInv, LoanInv, LentFrameStable,
       BacklogInv, Recovering
<1>6. CASE Drain
  <2>1. TypeOK'
    <3>1. src' \in SourceStates
      <4>1. CASE src.left = 0 \/ head = tail
        BY <1>6, <4>1 DEF TypeOK, SourceStates, Drain
      <4>2. CASE ~(src.left = 0 \/ head = tail)
        <5>1. src' = [src EXCEPT !.pc = "release", !.left = src.left - 1]
          BY <1>6, <4>2 DEF Drain
        <5>2. src.left - 1 \in Nat
          BY <4>2 DEF TypeOK, SourceStates
        <5> QED
          BY <5>1, <5>2 DEF TypeOK, SourceStates
      <4> QED
        BY <4>1, <4>2
    <3> QED
      BY <1>6, <3>1 DEF TypeOK, Drain
  <2>2. RingHoldsPublished'
    BY <1>6, RingKept DEF Drain
  <2>3. head = tail => Len(published) = released
    BY DistanceFacts DEF RingHoldsPublished, TypeOK
  <2>4. backlog <= Len(published)
    BY DEF BacklogInv
  <2>5. RoomInv' /\ LoanInv' /\ LentFrameStable'
    BY <1>6 DEF Drain, TypeOK, SourceStates, RoomInv, LoanInv, LentFrameStable
  <2>6. BacklogInv'
    <3>1. CASE src.left = 0 \/ head = tail
      BY <1>6, <2>3, <2>4, <3>1 DEF Drain, TypeOK, SourceStates, BacklogInv,
         Recovering
    <3>2. CASE ~(src.left = 0 \/ head = tail)
      <4>1. src'.pc = "release" /\ src'.left = src.left - 1 /\ src'.ret = src.ret
        BY <1>6, <3>2 DEF Drain, TypeOK, SourceStates
      <4>2. backlog <= released + src.left
        BY <1>6 DEF Drain, BacklogInv
      <4> QED
        BY <1>6, <2>4, <4>1, <4>2 DEF Drain, TypeOK, SourceStates, BacklogInv,
           Recovering
    <3> QED
      BY <3>1, <3>2
  <2> QED
    BY <2>1, <2>2, <2>5, <2>6
<1>7. CASE Recover
  <2>1. TypeOK'
    <3>1. src' \in SourceStates
      BY <1>7 DEF TypeOK, SourceStates, Recover
    <3> QED
      BY <1>7, <3>1 DEF TypeOK, Recover
  <2>2. RingHoldsPublished'
    BY <1>7, RingKept DEF Recover
  <2>3. Len(published) <= released + 1 + N
    BY DistanceFacts DEF RingHoldsPublished, TypeOK
  <2> QED
    BY <1>7, <2>1, <2>2, <2>3 DEF Recover, TypeOK, RoomInv, LoanInv, LentFrameStable,
       BacklogInv, Recovering
<1>8. CASE Advance
  <2>1. TypeOK'
    <3>1. src' \in SourceStates
      BY <1>8 DEF TypeOK, SourceStates, Advance
    <3> QED
      BY <1>8, <3>1, WrapFacts DEF TypeOK, Advance
  <2>2. /\ head # tail /\ head' = Wrap(head) /\ tail' = tail /\ slots' = slots
        /\ published' = published /\ released' = released + 1
    BY <1>8 DEF Advance, LoanInv
  <2>3. \A i \in Slots : i # head => Distance(i)' = Distance(i) - 1
    BY <2>2, DistanceAdvance DEF TypeOK
  <2>4. Distance(tail)' = Distance(tail) - 1
    BY <2>2, DistanceAdvance DEF TypeOK, Distance
  <2>5. Distance(head) = 0 /\ \A i \in Slots : Distance(i) \in 0 .. N - 1
    BY DistanceFacts DEF TypeOK
  <2>6. ASSUME NEW i \in Slots, InRing(i)'
        PROVE  slots'[i] = published'[released' + Distance(i)' + 1]
    <3>1. i # head
      BY <2>2, <2>4, <2>5, <2>6 DEF InRing, Distance, Wrap, TypeOK, Slots
    <3>2. InRing(i)
      BY <2>3, <2>4, <2>5, <2>6, <3>1 DEF InRing, TypeOK
    <3>3. released' + Distance(i)' + 1 = released + Distance(i) + 1
      BY <2>2, <2>3, <2>5, <3>1 DEF TypeOK
    <3> QED
      BY <2>2, <3>2, <3>3 DEF RingHoldsPublished
  <2>7. Len(published') = released' + Distance(tail)'
    BY <2>2, <2>4, <2>5 DEF RingHoldsPublished, TypeOK
  <2>8. RingHoldsPublished'
    BY <2>6, <2>7 DEF RingHoldsPublished
  <2>9. RoomInv'
    BY <1>8, <2>2, WrapFacts DEF Advance, RoomInv, TypeOK
  <2>10. LoanInv' /\ LentFrameStable'
    BY <1>8, <2>1 DEF Advance, LoanInv, LentFrameStable, TypeOK, SourceStates
  <2>11. BacklogInv'
    BY <1>8 DEF Advance, BacklogInv, Recovering, TypeOK
  <2> QED
    BY <2>1, <2>8, <2>9, <2>10, <2>11
<1> QED
  BY <1>1, <1>2, <1>3, <1>4, <1>5, <1>6, <1>7, <1>8 DEF SourceStep

(* Every step keeps the invariant.                                         *)
LEMMA NextIInv == IInv /\ [Next]_vars => IInv'
<1> SUFFICES ASSUME IInv, [Next]_vars PROVE IInv'
  OBVIOUS
<1>1. CASE UNCHANGED vars
  BY <1>1 DEF vars, IInv, TypeOK, RoomInv, LoanInv, LentFrameStable, BacklogInv,
     Recovering, RingHoldsPublished, InRing, Distance, Wrap
<1> QED
  BY <1>1, ProducerSafe, SourceSafe DEF Next

-----------------------------------------------------------------------------
(* The invariant is inductive: produce, borrow, release and recover keep   *)
(* it, in every interleaving of the interrupt with the task.               *)
THEOREM Inductive == Spec => []IInv
  BY InitIInv, NextIInv, PTL DEF Spec

(* Type correctness of the ring.                                           *)
THEOREM TypeCorrect == Spec => []TypeOK
<1>1. IInv => TypeOK
  BY DEF IInv
<1> QED
  BY <1>1, Inductive, PTL

(* The zero-copy loan is sound: a lent slot is whole and never rewritten.  *)
THEOREM LoanSound == Spec => []LentFrameStable
<1>1. IInv => LentFrameStable
  BY DEF IInv
<1> QED
  BY <1>1, Inductive, PTL

(* The ring holds exactly the published frames not yet released, in order. *)
THEOREM NothingLost == Spec => []RingHoldsPublished
<1>1. IInv => RingHoldsPublished
  BY DEF IInv
<1> QED
  BY <1>1, Inductive, PTL

(* Frames are lent in capture order.                                       *)
THEOREM InCaptureOrder == Spec => []CaptureOrder
<1>1. ASSUME IInv PROVE CaptureOrder
  <2> SUFFICES ASSUME src.pc = "reading"
               PROVE  released < Len(published) /\ lent = published[released + 1]
    BY DEF CaptureOrder
  <2>1. head # tail /\ slots[head] = lent
    BY <1>1 DEF IInv, LoanInv, LentFrameStable
  <2>2. Distance(head) = 0 /\ Distance(tail) \in 1 .. N - 1
    BY <1>1, <2>1, DistanceFacts, RingAssumption DEF IInv, TypeOK
  <2>3. InRing(head)
    BY <2>2 DEF InRing
  <2>4. slots[head] = published[released + 1]
    BY <1>1, <2>2, <2>3 DEF IInv, RingHoldsPublished, TypeOK
  <2>5. Len(published) = released + Distance(tail)
    BY <1>1 DEF IInv, RingHoldsPublished
  <2> QED
    BY <1>1, <2>1, <2>2, <2>4, <2>5 DEF IInv, TypeOK
<1> QED
  BY <1>1, Inductive, PTL

(* N releases outlast any backlog, whatever the handler adds meanwhile.    *)
THEOREM BacklogDropped == Spec => []RecoverDropsBacklog
<1>1. IInv => RecoverDropsBacklog
  BY DEF IInv, BacklogInv, Recovering, RecoverDropsBacklog
<1> QED
  BY <1>1, Inductive, PTL
=============================================================================
