--------------------------- MODULE ChannelProofs ---------------------------
(***************************************************************************)
(* Proofs about Channel for any set of handles, capacity and policies.     *)
(***************************************************************************)
EXTENDS Channel, FiniteSetTheorems, SequenceTheorems, TLAPS

(***************************************************************************)
(* The inductive invariant.  The receiver count mirrors the receiver; a    *)
(* leaky link has one handle, which is what keeps an eviction from moving  *)
(* the queue under a parked sender and what keeps the slot it frees; the   *)
(* queue never outgrows the capacity.                                      *)
(***************************************************************************)
ReceiversCounted == receivers = IF rx = "gone" THEN 0 ELSE 1

LeakyHasOneHandle ==
    /\ policy # "Block" =>
          \A s \in Senders : s # Original => tx[s] \in {"none", "gone"}
    /\ \A s \in Senders :
          tx[s] \in {"trying", "evicting", "retrying"} => policy # "Block"

WithinCapacity == Len(queue) <= Capacity

IInv ==
    /\ TypeOK
    /\ ReceiversCounted
    /\ LeakyHasOneHandle
    /\ WithinCapacity
    /\ NoLostWakeup
    /\ SendersCounted
    /\ EvictionFreesASlot
    /\ EndIsFinal

(* Removing the element at a position of a sequence shortens it by one and *)
(* keeps it a sequence over the same set.                                  *)
LEMMA RemoveAtType ==
    ASSUME NEW S, NEW q \in Seq(S), NEW i \in 1 .. Len(q)
    PROVE  /\ RemoveAt(q, i) \in Seq(S)
           /\ Len(RemoveAt(q, i)) = Len(q) - 1
  <1> DEFINE a == SubSeq(q, 1, i - 1)
             b == SubSeq(q, i + 1, Len(q))
  <1>1. a \in Seq(S) /\ Len(a) = i - 1
    BY SubSeqProperties
  <1>2. b \in Seq(S) /\ Len(b) = Len(q) - i
    BY SubSeqProperties
  <1>3. RemoveAt(q, i) = a \o b
    BY DEF RemoveAt
  <1> HIDE DEF a, b
  <1>4. a \o b \in Seq(S) /\ Len(a \o b) = Len(a) + Len(b)
    BY <1>1, <1>2, ConcatProperties
  <1> QED BY <1>1, <1>2, <1>3, <1>4

(* Every state of Channel is well typed before and after a step.           *)
LEMMA TypeStep ==
    ASSUME TypeOK, ReceiversCounted, SendersCounted, [Next]_vars
    PROVE  TypeOK'
  <1> USE ChannelAssumption
  <1>1. ASSUME NEW s \in Senders, CloneSender(s) PROVE TypeOK'
    BY <1>1 DEF TypeOK, CloneSender, history, TxStates
  <1>2. ASSUME NEW s \in Senders, DropSender(s) PROVE TypeOK'
    <2>1. senders > 0
      <3>1. s \in Live /\ IsFiniteSet(Live)
        BY <1>2, FS_Subset DEF DropSender, Live
      <3> QED BY <3>1, FS_EmptySet, FS_CardinalityType DEF SendersCounted
    <2>2. senders' \in Nat
      BY <1>2, <2>1 DEF DropSender, TypeOK
    <2>3. recvWaker' \in BOOLEAN /\ rx' \in RxStates
      BY <1>2 DEF DropSender, WakeReceiver, TypeOK, RxStates
    <2> QED BY <1>2, <2>2, <2>3 DEF TypeOK, DropSender, history, TxStates
  <1>3. ASSUME NEW s \in Senders, NEW d \in BOOLEAN, StartPush(s, d)
        PROVE  TypeOK'
    BY <1>3 DEF TypeOK, StartPush, inner, history, TxStates, Packet
  <1>4. ASSUME NEW s \in Senders, Enqueue(s) PROVE TypeOK'
    <2>1. queue' \in Seq(Packet) /\ tx' \in [Senders -> TxStates]
      BY <1>4 DEF TypeOK, Enqueue, TxStates
    <2>2. recvWaker' \in BOOLEAN /\ rx' \in RxStates
      BY <1>4 DEF TypeOK, Enqueue, WakeReceiver, RxStates
    <2> QED BY <1>4, <2>1, <2>2 DEF TypeOK, Enqueue, history
  <1>5. ASSUME NEW s \in Senders, RejectClosed(s) PROVE TypeOK'
    BY <1>5 DEF TypeOK, RejectClosed, inner, TxStates
  <1>6. ASSUME NEW s \in Senders, TrySendFull(s) PROVE TypeOK'
    <2>1. tx' \in [Senders -> TxStates] /\ dropped' \subseteq Packet
      BY <1>6 DEF TypeOK, TrySendFull, TxStates
    <2> QED BY <1>6, <2>1 DEF TypeOK, TrySendFull, inner
  <1>7. ASSUME NEW s \in Senders, Evict(s) PROVE TypeOK'
    <2>1. CASE EvictFrame(s)
      <3>1. PICK i \in 1 .. Len(queue) :
                /\ queue' = RemoveAt(queue, i)
                /\ dropped' = dropped \cup {queue[i]}
                /\ tx' = [tx EXCEPT ![s] = "retrying"]
        BY <2>1 DEF EvictFrame
      <3>2. queue' \in Seq(Packet)
        BY <3>1, RemoveAtType DEF TypeOK
      <3> QED BY <1>7, <3>1, <3>2 DEF TypeOK, Evict, TxStates
    <2>2. CASE BlockInstead(s)
      BY <1>7, <2>2 DEF TypeOK, Evict, BlockInstead, TxStates
    <2> QED BY <1>7, <2>1, <2>2 DEF Evict
  <1>8. ASSUME NEW s \in Senders, ParkSender(s) PROVE TypeOK'
    BY <1>8 DEF TypeOK, ParkSender, history, TxStates
  <1>9. ASSUME NEW s \in Senders, CancelPush(s) PROVE TypeOK'
    BY <1>9 DEF TypeOK, CancelPush, inner, TxStates
  <1>10. ASSUME Pop PROVE TypeOK'
    BY <1>10 DEF TypeOK, Pop, WakeSenders, TxStates
  <1>11. CASE ReceiveEnd
    BY <1>11 DEF TypeOK, ReceiveEnd, inner, history, RxStates
  <1>12. CASE ParkReceiver
    BY <1>12 DEF TypeOK, ParkReceiver, history, RxStates
  <1>13. CASE CancelRecv
    BY <1>13 DEF TypeOK, CancelRecv, inner, history, RxStates
  <1>14. CASE DropReceiver
    BY <1>14 DEF TypeOK, DropReceiver, WakeSenders, TxStates, RxStates, Range,
                 ReceiversCounted
  <1>15. CASE UNCHANGED vars
    BY <1>15 DEF TypeOK, vars, inner, history
  <1> QED
    BY <1>1, <1>2, <1>3, <1>4, <1>5, <1>6, <1>7, <1>8, <1>9, <1>10, <1>11,
       <1>12, <1>13, <1>14, <1>15
    DEF Next, TrySend, RetrySend, PollSend, TryRecv, PollRecv, Freed
-----------------------------------------------------------------------------
(* The live handles change only when one is cloned or dropped, so the      *)
(* count stays their number.                                               *)
LEMMA CountStep ==
    ASSUME TypeOK, SendersCounted, [Next]_vars
    PROVE  SendersCounted'
  <1> USE ChannelAssumption
  <1>0. IsFiniteSet(Live)
    BY FS_Subset DEF Live
  <1>1. ASSUME NEW s \in Senders, CloneSender(s) PROVE SendersCounted'
    <2>1. Live' = Live \cup {s} /\ s \notin Live
      BY <1>1 DEF CloneSender, Live, TypeOK
    <2>2. Cardinality(Live \cup {s}) = Cardinality(Live) + 1
      BY <1>0, <2>1, FS_AddElement
    <2> QED BY <1>1, <2>1, <2>2 DEF CloneSender, SendersCounted
  <1>2. ASSUME NEW s \in Senders, DropSender(s) PROVE SendersCounted'
    <2>1. Live' = Live \ {s} /\ s \in Live
      BY <1>2 DEF DropSender, Live, TypeOK
    <2>2. Cardinality(Live \ {s}) = Cardinality(Live) - 1
      BY <1>0, <2>1, FS_RemoveElement
    <2> QED BY <1>2, <2>1, <2>2 DEF DropSender, SendersCounted
  <1> DEFINE Same == Live' = Live /\ senders' = senders
  <1>3. ASSUME NEW s \in Senders, NEW d \in BOOLEAN, StartPush(s, d) PROVE Same
    BY <1>3 DEF StartPush, Live, TypeOK, inner
  <1>4. ASSUME NEW s \in Senders,
               tx[s] \in {"trying", "retrying", "sending"},
               Enqueue(s) \/ RejectClosed(s) \/ TrySendFull(s) \/ ParkSender(s)
        PROVE  Same
    <2>1. CASE Enqueue(s)
      BY <1>4, <2>1 DEF Enqueue, Live, TypeOK
    <2>2. CASE RejectClosed(s)
      BY <1>4, <2>2 DEF RejectClosed, Live, TypeOK, inner
    <2>3. CASE TrySendFull(s)
      BY <1>4, <2>3 DEF TrySendFull, Live, TypeOK, inner
    <2>4. CASE ParkSender(s)
      BY <1>4, <2>4 DEF ParkSender, Live, TypeOK
    <2> QED BY <1>4, <2>1, <2>2, <2>3, <2>4
  <1>5. ASSUME NEW s \in Senders, Evict(s) PROVE Same
    BY <1>5 DEF Evict, EvictFrame, BlockInstead, Live, TypeOK
  <1>6. ASSUME NEW s \in Senders, CancelPush(s) PROVE Same
    BY <1>6 DEF CancelPush, Live, TypeOK, inner
  <1>7. ASSUME Pop \/ DropReceiver PROVE Same
    <2>1. WakeSenders /\ senders' = senders
      BY <1>7 DEF Pop, DropReceiver
    <2> QED BY <2>1 DEF WakeSenders, Live, TypeOK
  <1>8. ASSUME ReceiveEnd \/ ParkReceiver \/ CancelRecv \/ UNCHANGED vars
        PROVE  Same
    BY <1>8 DEF ReceiveEnd, ParkReceiver, CancelRecv, vars, inner, Live
  <1>9. ASSUME Same PROVE SendersCounted'
    BY <1>9 DEF SendersCounted
  <1> HIDE DEF Same
  <1> QED
    BY <1>1, <1>2, <1>3, <1>4, <1>5, <1>6, <1>7, <1>8, <1>9
    DEF Next, TrySend, RetrySend, PollSend, TryRecv, PollRecv, Freed
-----------------------------------------------------------------------------
(* What a step must keep besides the types and the count.                  *)
Safe ==
    /\ ReceiversCounted
    /\ LeakyHasOneHandle
    /\ WithinCapacity
    /\ NoLostWakeup
    /\ EvictionFreesASlot
    /\ EndIsFinal

(* A count of zero handles means there are none.                           *)
LEMMA ZeroMeansNone ==
    ASSUME TypeOK, SendersCounted
    PROVE  /\ senders = 0 => Live = {}
           /\ Live # {} => senders > 0
  <1>1. IsFiniteSet(Live)
    BY FS_Subset, ChannelAssumption DEF Live
  <1> QED BY <1>1, FS_EmptySet, FS_CardinalityType DEF SendersCounted, TypeOK

(* Appending to a queue with room: the receiver's waker is spent and the   *)
(* queue stays within capacity.                                            *)
LEMMA EnqueueSafe ==
    ASSUME TypeOK, SendersCounted, Safe, NEW s \in Senders,
           tx[s] \in {"trying", "retrying", "sending"}, Enqueue(s)
    PROVE  Safe'
  <1> USE ChannelAssumption DEF Safe
  <1>1. Len(queue') = Len(queue) + 1 /\ queue' # <<>> /\ Len(queue) < Capacity
    BY DEF Enqueue, Full, TypeOK
  <1>2. tx' = [tx EXCEPT ![s] = "idle"] /\ tx \in [Senders -> TxStates]
    BY DEF Enqueue, TypeOK
  <1>3. s \in Live
    BY DEF Live
  <1>4. ReceiversCounted'
    BY DEF ReceiversCounted, Enqueue, WakeReceiver
  <1>5. LeakyHasOneHandle'
    BY <1>2 DEF LeakyHasOneHandle, Enqueue
  <1>6. WithinCapacity'
    BY <1>1 DEF WithinCapacity, TypeOK
  <1>7. NoLostWakeup'
    <2>1. rx' # "parked"
      BY DEF NoLostWakeup, Enqueue, WakeReceiver
    <2>2. \A r \in Senders : tx'[r] # "parked"
      BY <1>1, <1>2 DEF NoLostWakeup, Full, TypeOK
    <2> QED BY <2>1, <2>2 DEF NoLostWakeup
  <1>8. EvictionFreesASlot'
    <2>1. ASSUME NEW r \in Senders, tx'[r] = "retrying" PROVE FALSE
      <3>1. r # s /\ tx[r] = "retrying"
        BY <1>2, <2>1
      <3>2. policy # "Block"
        BY <3>1 DEF LeakyHasOneHandle
      <3> QED BY <3>1, <3>2 DEF LeakyHasOneHandle
    <2> QED BY <2>1 DEF EvictionFreesASlot
  <1>9. EndIsFinal'
    <2>1. rx' # "ended"
      BY <1>3 DEF EndIsFinal, Enqueue, WakeReceiver
    <2> QED BY <2>1 DEF EndIsFinal
  <1> QED BY <1>4, <1>5, <1>6, <1>7, <1>8, <1>9

(* The other steps of a sender handle.                                     *)
LEMMA SenderSafe ==
    ASSUME TypeOK, SendersCounted, Safe, NEW s \in Senders,
           \/ CloneSender(s)
           \/ DropSender(s)
           \/ \E d \in BOOLEAN : StartPush(s, d)
           \/ tx[s] \in {"trying", "retrying", "sending"} /\ RejectClosed(s)
           \/ tx[s] = "trying" /\ TrySendFull(s)
           \/ Evict(s)
           \/ tx[s] = "sending" /\ ParkSender(s)
           \/ CancelPush(s)
    PROVE  Safe'
  <1> USE ChannelAssumption DEF Safe
  <1>0. tx \in [Senders -> TxStates]
    BY DEF TypeOK
  <1>1. CASE CloneSender(s)
    <2>1. rx # "ended"
      BY <1>1 DEF EndIsFinal, CloneSender
    <2>2. senders' > 0 /\ rx' = rx /\ queue' = queue /\ policy' = policy
          /\ tx' = [tx EXCEPT ![s] = "idle"] /\ policy = "Block"
      BY <1>1 DEF CloneSender, TypeOK, history
    <2> QED BY <1>0, <1>1, <2>1, <2>2
            DEF CloneSender, ReceiversCounted, LeakyHasOneHandle, WithinCapacity,
                NoLostWakeup, EvictionFreesASlot, EndIsFinal, Full, Closed
  <1>2. CASE DropSender(s)
    <2>1. s \in Live
      BY <1>2 DEF DropSender, Live
    <2>2. senders > 0
      BY <2>1, ZeroMeansNone
    <2>3. tx' = [tx EXCEPT ![s] = "gone"] /\ UNCHANGED <<policy, queue, receivers,
          sendWakers>> /\ senders' = senders - 1
      BY <1>2 DEF DropSender
    <2>4. rx # "ended" /\ rx' # "ended" /\ (rx' = "gone" <=> rx = "gone")
      BY <1>2, <2>1 DEF DropSender, EndIsFinal, WakeReceiver
    <2>5. rx' = "parked" => rx = "parked" /\ recvWaker' /\ senders' > 0
      BY <1>2, <2>2, <2>3 DEF DropSender, WakeReceiver, NoLostWakeup, TypeOK
    <2>6. ReceiversCounted' /\ WithinCapacity' /\ EndIsFinal'
      BY <2>3, <2>4 DEF ReceiversCounted, WithinCapacity, EndIsFinal
    <2>7. LeakyHasOneHandle' /\ EvictionFreesASlot'
      BY <1>0, <2>3 DEF LeakyHasOneHandle, EvictionFreesASlot, Full, Closed
    <2>8. NoLostWakeup'
      BY <1>0, <2>3, <2>5 DEF NoLostWakeup, Full, Closed
    <2> QED BY <2>6, <2>7, <2>8
  <1>3. CASE \E d \in BOOLEAN : StartPush(s, d)
    <2>1. PICK d \in BOOLEAN : StartPush(s, d)
      BY <1>3
    <2>2. tx' = [tx EXCEPT ![s] = IF d /\ policy # "Block"
                                  THEN "trying" ELSE "sending"]
          /\ UNCHANGED <<policy, queue, senders, receivers, sendWakers,
                         recvWaker, rx>>
          /\ tx[s] = "idle"
      BY <2>1 DEF StartPush, inner
    <2>3. s \in Live
      BY <2>2 DEF Live
    <2> QED BY <1>0, <2>2, <2>3
            DEF ReceiversCounted, LeakyHasOneHandle, WithinCapacity,
                NoLostWakeup, EvictionFreesASlot, EndIsFinal, Full, Closed
  <1> DEFINE Same(to) == /\ tx' = [tx EXCEPT ![s] = to]
                         /\ UNCHANGED <<policy, queue, senders, receivers,
                                        sendWakers, recvWaker, rx>>
  <1>4. ASSUME NEW to \in {"idle", "evicting"}, Same(to), s \in Live,
               to = "evicting" => tx[s] = "trying"
        PROVE  Safe'
    <2>1. rx # "ended"
      BY <1>4 DEF EndIsFinal
    <2>2. ReceiversCounted' /\ WithinCapacity' /\ EndIsFinal'
      BY <1>4, <2>1 DEF ReceiversCounted, WithinCapacity, EndIsFinal
    <2>3. LeakyHasOneHandle' /\ EvictionFreesASlot'
      BY <1>0, <1>4
      DEF LeakyHasOneHandle, EvictionFreesASlot, Full, Closed, Live
    <2>4. NoLostWakeup'
      BY <1>0, <1>4 DEF NoLostWakeup, Full, Closed
    <2> QED BY <2>2, <2>3, <2>4
  <1>5. CASE tx[s] \in {"trying", "retrying", "sending"} /\ RejectClosed(s)
    <2>1. Same("idle") /\ s \in Live
      BY <1>5 DEF RejectClosed, inner, Live
    <2> QED BY <1>4, <2>1
  <1>6. CASE tx[s] = "trying" /\ TrySendFull(s)
    <2>1. (Same("idle") \/ Same("evicting")) /\ s \in Live
      BY <1>6 DEF TrySendFull, inner, Live
    <2> QED BY <1>4, <1>6, <2>1
  <1>7. CASE CancelPush(s)
    <2>1. Same("idle") /\ s \in Live
      BY <1>7 DEF CancelPush, inner, Live
    <2> QED BY <1>4, <2>1
  <1>8. CASE Evict(s)
    <2>1. /\ tx[s] = "evicting" /\ policy # "Block" /\ s = Original
          /\ \A r \in Senders : r # s => tx[r] \in {"none", "gone"}
      BY <1>8 DEF Evict, LeakyHasOneHandle
    <2>2. rx # "ended"
      BY <2>1 DEF EndIsFinal, Live
    <2>3. UNCHANGED <<policy, senders, receivers, sendWakers, recvWaker, rx>>
      BY <1>8 DEF Evict
    <2>4. CASE EvictFrame(s)
      <3>1. PICK i \in 1 .. Len(queue) :
                /\ queue' = RemoveAt(queue, i)
                /\ tx' = [tx EXCEPT ![s] = "retrying"]
        BY <2>4 DEF EvictFrame
      <3>2. Len(queue') = Len(queue) - 1 /\ Len(queue) \in Nat /\ Len(queue) > 0
        BY <3>1, RemoveAtType DEF TypeOK
      <3>3. queue # <<>> /\ rx # "parked"
        BY <3>2 DEF NoLostWakeup
      <3> QED BY <1>0, <2>1, <2>2, <2>3, <3>1, <3>2, <3>3
              DEF ReceiversCounted, LeakyHasOneHandle, WithinCapacity,
                  NoLostWakeup, EvictionFreesASlot, EndIsFinal, Full, Closed
    <2>5. CASE BlockInstead(s)
      BY <1>0, <2>1, <2>2, <2>3, <2>5
      DEF BlockInstead, ReceiversCounted, LeakyHasOneHandle, WithinCapacity,
          NoLostWakeup, EvictionFreesASlot, EndIsFinal, Full, Closed
    <2> QED BY <1>8, <2>4, <2>5 DEF Evict
  <1>9. CASE tx[s] = "sending" /\ ParkSender(s)
    <2>1. /\ tx' = [tx EXCEPT ![s] = "parked"]
          /\ sendWakers' = sendWakers \cup {s}
          /\ UNCHANGED <<policy, queue, senders, receivers, recvWaker, rx>>
          /\ Full /\ ~Closed /\ s \in Live
      BY <1>9 DEF ParkSender, Live
    <2>2. rx # "ended"
      BY <2>1 DEF EndIsFinal
    <2>3. ReceiversCounted' /\ WithinCapacity' /\ EndIsFinal'
      BY <2>1, <2>2 DEF ReceiversCounted, WithinCapacity, EndIsFinal
    <2>4. LeakyHasOneHandle' /\ EvictionFreesASlot'
      BY <1>0, <2>1
      DEF LeakyHasOneHandle, EvictionFreesASlot, Full, Closed, Live
    <2>5. NoLostWakeup'
      BY <1>0, <2>1 DEF NoLostWakeup, Full, Closed
    <2> QED BY <2>3, <2>4, <2>5
  <1> QED BY <1>1, <1>2, <1>3, <1>5, <1>6, <1>7, <1>8, <1>9
(* The steps of the receiver.                                              *)
LEMMA ReceiverSafe ==
    ASSUME TypeOK, SendersCounted, Safe,
           \/ rx = "running" /\ (Pop \/ ReceiveEnd \/ ParkReceiver)
           \/ CancelRecv
           \/ DropReceiver
    PROVE  Safe'
  <1> USE ChannelAssumption DEF Safe
  <1>0. tx \in [Senders -> TxStates]
    BY DEF TypeOK
  <1>1. ASSUME WakeSenders PROVE
            \A r \in Senders : /\ tx'[r] # "parked"
                               /\ tx'[r] # "sending" => tx'[r] = tx[r]
                               /\ tx'[r] \in {"none", "gone"} <=>
                                  tx[r] \in {"none", "gone"}
    BY <1>0, <1>1 DEF WakeSenders, NoLostWakeup
  <1>2. CASE rx = "running" /\ Pop
    <2>1. /\ queue # <<>> /\ queue' = Tail(queue) /\ WakeSenders
          /\ rx' = "running"
          /\ UNCHANGED <<policy, senders, receivers, recvWaker>>
      BY <1>2 DEF Pop
    <2>2. Len(queue') = Len(queue) - 1 /\ Len(queue) \in Nat
      BY <2>1 DEF TypeOK
    <2>3. ReceiversCounted' /\ WithinCapacity' /\ EndIsFinal'
      BY <1>2, <2>1, <2>2 DEF ReceiversCounted, WithinCapacity, EndIsFinal
    <2>4. LeakyHasOneHandle' /\ EvictionFreesASlot'
      BY <1>1, <2>1, <2>2 DEF LeakyHasOneHandle, EvictionFreesASlot, Full, Closed
    <2>5. NoLostWakeup'
      BY <1>1, <2>1 DEF NoLostWakeup
    <2> QED BY <2>3, <2>4, <2>5
  <1>3. CASE rx = "running" /\ ReceiveEnd
    <2>1. Live = {}
      BY <1>3, ZeroMeansNone DEF ReceiveEnd
    <2>2. queue = <<>> /\ rx' = "ended"
          /\ UNCHANGED <<policy, queue, senders, receivers, sendWakers, tx>>
      BY <1>3 DEF ReceiveEnd, inner
    <2>3. EndIsFinal'
      BY <2>1, <2>2 DEF EndIsFinal, Live
    <2> QED BY <1>3, <2>2, <2>3
            DEF ReceiversCounted, LeakyHasOneHandle, WithinCapacity,
                NoLostWakeup, EvictionFreesASlot, Full, Closed
  <1>4. CASE rx = "running" /\ ParkReceiver
    <2>1. queue = <<>> /\ rx' = "parked" /\ recvWaker' = TRUE /\ senders > 0
          /\ UNCHANGED <<policy, queue, senders, receivers, sendWakers, tx>>
      BY <1>4 DEF ParkReceiver, TypeOK
    <2> QED BY <1>4, <2>1
            DEF ReceiversCounted, LeakyHasOneHandle, WithinCapacity,
                NoLostWakeup, EvictionFreesASlot, EndIsFinal, Full, Closed
  <1>5. CASE CancelRecv
    <2>1. rx = "parked" /\ rx' = "running"
          /\ UNCHANGED <<policy, queue, senders, receivers, sendWakers, tx>>
      BY <1>5 DEF CancelRecv, inner
    <2> QED BY <2>1
            DEF ReceiversCounted, LeakyHasOneHandle, WithinCapacity,
                NoLostWakeup, EvictionFreesASlot, EndIsFinal, Full, Closed
  <1>6. CASE DropReceiver
    <2>1. /\ queue' = <<>> /\ rx' = "gone" /\ WakeSenders /\ rx # "gone"
          /\ receivers' = receivers - 1
          /\ UNCHANGED <<policy, senders>>
      BY <1>6 DEF DropReceiver
    <2>2. ReceiversCounted' /\ WithinCapacity' /\ EndIsFinal'
      BY <2>1 DEF ReceiversCounted, WithinCapacity, EndIsFinal
    <2>3. LeakyHasOneHandle' /\ EvictionFreesASlot'
      BY <1>1, <2>1, <2>2
      DEF LeakyHasOneHandle, EvictionFreesASlot, ReceiversCounted, Closed
    <2>4. NoLostWakeup'
      BY <1>1, <2>1 DEF NoLostWakeup
    <2> QED BY <2>2, <2>3, <2>4
  <1> QED BY <1>2, <1>3, <1>4, <1>5, <1>6

-----------------------------------------------------------------------------
(* The invariant holds initially and every step keeps it.                  *)
LEMMA InitIInv == Init => IInv
  <1> SUFFICES ASSUME Init PROVE IInv
    OBVIOUS
  <1> USE ChannelAssumption DEF Init
  <1>1. TypeOK
    <2>1. slot \in [Senders -> Packet]
      BY DEF Packet
    <2>2. tx \in [Senders -> TxStates] /\ rx \in RxStates
      BY DEF TxStates, RxStates
    <2>3. queue \in Seq(Packet) /\ delivered \in Seq(Packet)
      BY EmptySeq
    <2> QED BY <2>1, <2>2, <2>3 DEF TypeOK
  <1>2. SendersCounted
    <2>1. Live = {Original}
      BY DEF Live
    <2> QED BY <2>1, FS_Singleton DEF SendersCounted
  <1> QED
    BY <1>1, <1>2 DEF IInv, ReceiversCounted, LeakyHasOneHandle, WithinCapacity,
       NoLostWakeup, EvictionFreesASlot, EndIsFinal

(* Every step of the channel keeps the inductive invariant.                *)
LEMMA NextIInv == IInv /\ [Next]_vars => IInv'
  <1> SUFFICES ASSUME IInv, [Next]_vars PROVE IInv'
    OBVIOUS
  <1>1. TypeOK /\ SendersCounted /\ Safe /\ ReceiversCounted
    BY DEF IInv, Safe
  <1>2. TypeOK' /\ SendersCounted'
    BY <1>1, TypeStep, CountStep
  <1>3. ASSUME UNCHANGED vars PROVE Safe'
    <2>1. UNCHANGED <<policy, queue, senders, receivers, sendWakers, recvWaker,
                      tx, rx>>
      BY <1>3 DEF vars, inner
    <2>2. UNCHANGED <<ReceiversCounted, LeakyHasOneHandle, WithinCapacity>>
      BY <2>1 DEF ReceiversCounted, LeakyHasOneHandle, WithinCapacity
    <2>3. UNCHANGED <<NoLostWakeup, EvictionFreesASlot, EndIsFinal>>
      BY <2>1 DEF NoLostWakeup, EvictionFreesASlot, EndIsFinal, Live, Full, Closed
    <2> QED BY <1>1, <2>2, <2>3 DEF Safe
  <1>4. ASSUME Next PROVE Safe'
    <2>1. ASSUME TryRecv \/ PollRecv \/ CancelRecv \/ DropReceiver PROVE Safe'
      BY <1>1, <2>1, ReceiverSafe DEF TryRecv, PollRecv
    <2>2. ASSUME NEW s \in Senders,
                 \/ CloneSender(s) \/ DropSender(s)
                 \/ \E d \in BOOLEAN : StartPush(s, d)
                 \/ TrySend(s) \/ Evict(s) \/ RetrySend(s)
                 \/ PollSend(s) \/ CancelPush(s)
          PROVE  Safe'
      BY <1>1, <2>2, EnqueueSafe, SenderSafe DEF TrySend, RetrySend, PollSend
    <2> QED BY <1>3, <1>4, <2>1, <2>2 DEF Next, Freed
  <1> QED BY <1>2, <1>3, <1>4 DEF IInv, Safe

(* Every reachable state of a link satisfies the invariant.                *)
THEOREM Inductive == Spec => []IInv
  BY InitIInv, NextIInv, PTL DEF Spec

(* A channel never reaches an ill-typed state, in particular the count of  *)
(* handles never goes below zero.                                          *)
THEOREM TypeCorrect == Spec => []TypeOK
  <1>1. IInv => TypeOK
    BY DEF IInv
  <1> QED BY <1>1, Inductive, PTL

(* No wake is ever lost: whatever the interleaving of pushes, evictions,   *)
(* receives, cancellations, clones and drops, a parked arm's waker is in   *)
(* the channel and the condition it waits for has not come true.           *)
THEOREM WakeupsKept == Spec => []NoLostWakeup
  <1>1. IInv => NoLostWakeup
    BY DEF IInv
  <1> QED BY <1>1, Inductive, PTL

(* The unreachable! after an eviction is unreachable for every capacity.   *)
THEOREM RetryAlwaysFits == Spec => []EvictionFreesASlot
  <1>1. IInv => EvictionFreesASlot
    BY DEF IInv
  <1> QED BY <1>1, Inductive, PTL

(* The receiver sees the end of the stream only after the last handle is   *)
(* gone and the queue is drained, and nothing can follow it.               *)
THEOREM EndOnlyWhenDrained == Spec => []EndIsFinal
  <1>1. IInv => EndIsFinal
    BY DEF IInv
  <1> QED BY <1>1, Inductive, PTL

(* The count that decides who wakes the receiver last is exact.            *)
THEOREM HandlesCounted == Spec => []SendersCounted
  <1>1. IInv => SendersCounted
    BY DEF IInv
  <1> QED BY <1>1, Inductive, PTL
-----------------------------------------------------------------------------
(***************************************************************************)
(* Every packet is in one place.  Ledger says of the whole stream, by what *)
(* has been delivered and what is queued, and of the packets lost, which   *)
(* numbers can be there; its parts need one another: order in the stream   *)
(* rests on a handle's packet being newer than all it pushed before, and   *)
(* that a packet is not lost and queued at once on both.                   *)
(***************************************************************************)
Lost == dropped \cup shed

Same(p, q) == p.src = q.src /\ p.num = q.num

Pushing(s, n) == Busy(s) /\ n = count[s]

(* A packet that has left its push.                                        *)
Past(p) == p.num \in 1 .. count[p.src] /\ ~Pushing(p.src, p.num)

SlotNumbered ==
    \A s \in Senders : /\ slot[s].src = s
                       /\ slot[s].num = count[s]
                       /\ Busy(s) => count[s] > 0

AllPast ==
    /\ \A i \in DOMAIN Stream : Past(Stream[i])
    /\ \A p \in Lost : Past(p)

LostApart ==
    /\ \A p \in Lost : \A i \in DOMAIN Stream : ~Same(p, Stream[i])
    /\ \A p, q \in Lost : Same(p, q) => p = q

AllPlaced ==
    \A s \in Senders : \A n \in 1 .. count[s] :
        \/ Pushing(s, n)
        \/ \E i \in DOMAIN Stream : Stream[i].src = s /\ Stream[i].num = n
        \/ \E p \in Lost : p.src = s /\ p.num = n

Ledger ==
    /\ SlotNumbered
    /\ AllPast
    /\ PerSenderOrder
    /\ LostApart
    /\ AllPlaced

(* The stream is a sequence of packets.                                    *)
LEMMA StreamType ==
    ASSUME TypeOK
    PROVE  /\ Stream \in Seq(Packet)
           /\ Len(Stream) = Len(delivered) + Len(queue)
           /\ DOMAIN Stream = 1 .. Len(Stream)
           /\ \A i \in 1 .. Len(Stream) :
                 /\ Stream[i] = IF i <= Len(delivered) THEN delivered[i]
                                ELSE queue[i - Len(delivered)]
                 /\ Stream[i] \in Packet
  <1>1. delivered \in Seq(Packet) /\ queue \in Seq(Packet)
    BY DEF TypeOK
  <1>2. /\ Stream \in Seq(Packet)
        /\ Len(Stream) = Len(delivered) + Len(queue)
        /\ \A i \in 1 .. Len(delivered) + Len(queue) :
              Stream[i] = IF i <= Len(delivered) THEN delivered[i]
                          ELSE queue[i - Len(delivered)]
    BY <1>1, ConcatProperties DEF Stream
  <1>3. DOMAIN Stream = 1 .. Len(Stream)
    BY <1>2, LenProperties
  <1>4. \A i \in 1 .. Len(Stream) : Stream[i] \in Packet
    BY <1>2, ElementOfSeq
  <1> QED BY <1>2, <1>3, <1>4

(* Appending to the queue appends to the stream.                           *)
LEMMA StreamAppend ==
    ASSUME TypeOK, TypeOK', NEW p \in Packet, queue' = Append(queue, p),
           delivered' = delivered
    PROVE  /\ Len(Stream') = Len(Stream) + 1
           /\ \A i \in 1 .. Len(Stream) : Stream'[i] = Stream[i]
           /\ Stream'[Len(Stream) + 1] = p
           /\ DOMAIN Stream = 1 .. Len(Stream)
           /\ DOMAIN Stream' = 1 .. Len(Stream) + 1
  <1>1. delivered \in Seq(Packet) /\ queue \in Seq(Packet) /\ Stream \in Seq(Packet)
    BY StreamType DEF TypeOK
  <1>2. Stream' = Append(Stream, p)
    <2>1. <<p>> \in Seq(Packet) /\ Append(queue, p) = queue \o <<p>>
      BY <1>1, AppendIsConcat
    <2>2. delivered \o (queue \o <<p>>) = (delivered \o queue) \o <<p>>
      BY <1>1, <2>1, ConcatAssociative
    <2>3. Append(delivered \o queue, p) = (delivered \o queue) \o <<p>>
      BY <1>1, AppendIsConcat DEF Stream
    <2> QED BY <2>1, <2>2, <2>3 DEF Stream
  <1>3. DOMAIN Stream = 1 .. Len(Stream) /\ Len(Stream) \in Nat
    BY <1>1, LenProperties
  <1> QED BY <1>1, <1>2, <1>3, AppendProperties, LenProperties

(* Moving the head of the queue to the receiver leaves the stream alone.   *)
LEMMA StreamPop ==
    ASSUME TypeOK, queue # <<>>,
           delivered' = Append(delivered, Head(queue)), queue' = Tail(queue)
    PROVE  Stream' = Stream
  <1>1. delivered \in Seq(Packet) /\ queue \in Seq(Packet)
    BY DEF TypeOK
  <1>2. Head(queue) \in Packet /\ Tail(queue) \in Seq(Packet)
    BY <1>1, HeadTailProperties
  <1>3. <<Head(queue)>> \in Seq(Packet)
    BY <1>2
  <1>4. Append(delivered, Head(queue)) = delivered \o <<Head(queue)>>
    BY <1>1, <1>2, AppendIsConcat
  <1>5. queue = <<Head(queue)>> \o Tail(queue)
    BY <1>1
  <1>6. (delivered \o <<Head(queue)>>) \o Tail(queue)
            = delivered \o (<<Head(queue)>> \o Tail(queue))
    BY <1>1, <1>2, <1>3, ConcatAssociative
  <1> QED BY <1>4, <1>5, <1>6 DEF Stream

(* An eviction takes one packet out and closes the gap.                    *)
LEMMA StreamRemove ==
    ASSUME TypeOK, TypeOK', NEW i \in 1 .. Len(queue),
           queue' = RemoveAt(queue, i), delivered' = delivered
    PROVE  LET at == Len(delivered) + i
           IN  /\ at \in 1 .. Len(Stream)
               /\ Stream[at] = queue[i]
               /\ DOMAIN Stream = 1 .. Len(Stream)
               /\ DOMAIN Stream' = 1 .. Len(Stream) - 1
               /\ \A k \in 1 .. Len(Stream) - 1 :
                     Stream'[k] = IF k < at THEN Stream[k] ELSE Stream[k + 1]
  <1> DEFINE a == SubSeq(queue, 1, i - 1)
             b == SubSeq(queue, i + 1, Len(queue))
             at == Len(delivered) + i
  <1>1. delivered \in Seq(Packet) /\ queue \in Seq(Packet)
        /\ Len(delivered) \in Nat /\ Len(queue) \in Nat
    BY DEF TypeOK
  <1>2. /\ a \in Seq(Packet) /\ Len(a) = i - 1
        /\ \A k \in 1 .. i - 1 : a[k] = queue[k]
    BY <1>1, SubSeqProperties
  <1>3. /\ b \in Seq(Packet) /\ Len(b) = Len(queue) - i
        /\ \A k \in 1 .. Len(queue) - i : b[k] = queue[i + k]
    BY <1>1, SubSeqProperties
  <1>4. queue' = a \o b
    BY DEF RemoveAt
  <1> HIDE DEF a, b
  <1>5. /\ Len(queue') = Len(queue) - 1
        /\ \A k \in 1 .. Len(queue) - 1 :
              queue'[k] = IF k < i THEN queue[k] ELSE queue[k + 1]
    <2>1. /\ Len(queue') = Len(a) + Len(b)
          /\ \A k \in 1 .. Len(a) + Len(b) :
                queue'[k] = IF k <= Len(a) THEN a[k] ELSE b[k - Len(a)]
      BY <1>2, <1>3, <1>4, ConcatProperties
    <2>2. ASSUME NEW k \in 1 .. Len(queue) - 1
          PROVE  queue'[k] = IF k < i THEN queue[k] ELSE queue[k + 1]
      <3>1. k \in 1 .. Len(a) + Len(b) /\ (k <= Len(a) <=> k < i)
        BY <1>1, <1>2, <1>3
      <3>2. CASE k < i
        BY <1>1, <1>2, <2>1, <3>1, <3>2
      <3>3. CASE ~(k < i)
        <4>1. k - Len(a) \in 1 .. Len(queue) - i /\ i + (k - Len(a)) = k + 1
          BY <1>1, <1>2, <3>3
        <4>2. queue'[k] = b[k - Len(a)]
          BY <2>1, <3>1, <3>3
        <4> QED BY <1>3, <3>3, <4>1, <4>2
      <3> QED BY <3>2, <3>3
    <2> QED BY <1>1, <1>2, <1>3, <2>1, <2>2
  <1>6. /\ Len(Stream) = Len(delivered) + Len(queue)
        /\ DOMAIN Stream = 1 .. Len(Stream)
        /\ \A k \in 1 .. Len(Stream) :
              Stream[k] = IF k <= Len(delivered) THEN delivered[k]
                          ELSE queue[k - Len(delivered)]
    BY StreamType
  <1>7. /\ Len(Stream') = Len(delivered) + Len(queue')
        /\ DOMAIN Stream' = 1 .. Len(Stream')
        /\ \A k \in 1 .. Len(Stream') :
              Stream'[k] = IF k <= Len(delivered) THEN delivered[k]
                           ELSE queue'[k - Len(delivered)]
    <2>1. delivered' \in Seq(Packet) /\ queue' \in Seq(Packet)
      BY DEF TypeOK
    <2>2. Stream' = delivered' \o queue'
      BY DEF Stream
    <2> QED BY <2>1, <2>2, ConcatProperties, LenProperties
  <1>8. \A k \in 1 .. Len(Stream) - 1 :
            Stream'[k] = IF k < at THEN Stream[k] ELSE Stream[k + 1]
    <2> SUFFICES ASSUME NEW k \in 1 .. Len(Stream) - 1
                 PROVE  Stream'[k] = IF k < at THEN Stream[k] ELSE Stream[k + 1]
      OBVIOUS
    <2>1. CASE k <= Len(delivered)
      BY <1>1, <1>5, <1>6, <1>7, <2>1
    <2>2. CASE k > Len(delivered)
      <3> DEFINE m == k - Len(delivered)
      <3>1. /\ m \in 1 .. Len(queue) - 1 /\ (m < i <=> k < at)
            /\ (k + 1) - Len(delivered) = m + 1
            /\ k \in 1 .. Len(Stream) /\ k + 1 \in 1 .. Len(Stream)
            /\ k \in 1 .. Len(Stream')
            /\ ~(k <= Len(delivered)) /\ ~(k + 1 <= Len(delivered))
        BY <1>1, <1>5, <1>6, <1>7, <2>2
      <3>2. Stream'[k] = queue'[m] /\ Stream[k] = queue[m]
        BY <1>6, <1>7, <3>1
      <3>3. Stream[k + 1] = queue[m + 1]
        BY <1>6, <3>1
      <3> HIDE DEF m, at
      <3> QED BY <1>5, <3>1, <3>2, <3>3
    <2> QED BY <1>1, <1>6, <2>1, <2>2
  <1>9. at \in 1 .. Len(Stream) /\ Stream[at] = queue[i]
    <2>1. at \in 1 .. Len(Stream) /\ ~(at <= Len(delivered))
          /\ at - Len(delivered) = i
      BY <1>1, <1>6
    <2> HIDE DEF at
    <2> QED BY <1>6, <2>1
  <1>10. Len(Stream') = Len(Stream) - 1
    BY <1>1, <1>5, <1>6, <1>7
  <1> QED BY <1>6, <1>7, <1>8, <1>9, <1>10

(* The ledger reads the stream, the losses, the pushes under way and their *)
(* numbers, and nothing else.                                              *)
LEMMA LedgerKept ==
    ASSUME Ledger, Stream' = Stream, Lost' = Lost, UNCHANGED <<slot, count>>,
           \A r \in Senders : Busy(r)' = Busy(r), TypeOK
    PROVE  Ledger'
  <1>1. \A i \in DOMAIN Stream : Stream[i].src \in Senders
    BY StreamType DEF Packet
  <1>2. \A p \in Lost : p.src \in Senders
    BY DEF TypeOK, Lost, Packet
  <1>3. \A r \in Senders : \A n : Pushing(r, n)' = Pushing(r, n)
    BY DEF Pushing
  <1>4. AllPast'
    BY <1>1, <1>2, <1>3 DEF AllPast, Past, Ledger
  <1>5. SlotNumbered' /\ PerSenderOrder' /\ LostApart'
    BY DEF SlotNumbered, PerSenderOrder, LostApart, Ledger, Same
  <1>6. AllPlaced'
    BY <1>3 DEF AllPlaced, Ledger
  <1> QED BY <1>4, <1>5, <1>6 DEF Ledger

(* A new push takes the next number, which nothing has yet.                *)
LEMMA LedgerStart ==
    ASSUME Ledger, TypeOK, NEW s \in Senders, NEW d \in BOOLEAN, StartPush(s, d)
    PROVE  Ledger'
  <1>0. /\ Stream' = Stream /\ Lost' = Lost
        /\ count' = [count EXCEPT ![s] = count[s] + 1]
        /\ slot' = [slot EXCEPT ![s] = [src |-> s, num |-> count[s] + 1,
                                        data |-> d]]
    BY DEF StartPush, Stream, Lost, history, inner
  <1>1. /\ count \in [Senders -> Nat]
        /\ \A i \in DOMAIN Stream : Stream[i].src \in Senders
                                    /\ Stream[i].num \in Nat
        /\ \A p \in Lost : p.src \in Senders /\ p.num \in Nat
    BY StreamType DEF TypeOK, Lost, Packet
  <1>2. Busy(s)' /\ ~Busy(s) /\ \A r \in Senders : r # s => Busy(r)' = Busy(r)
    BY DEF Busy, StartPush, TypeOK
  <1>3. \A p : p.src \in Senders /\ p.num \in Nat /\ Past(p) => Past(p)'
    BY <1>0, <1>1, <1>2 DEF Past, Pushing
  <1>4. AllPast'
    BY <1>0, <1>1, <1>3 DEF AllPast, Ledger
  <1>5. SlotNumbered'
    BY <1>0, <1>1, <1>2 DEF SlotNumbered, Ledger, TypeOK
  <1>6. PerSenderOrder' /\ LostApart'
    BY <1>0 DEF PerSenderOrder, LostApart, Ledger, Same
  <1>7. AllPlaced'
    <2> SUFFICES ASSUME NEW r \in Senders, NEW n \in 1 .. count'[r],
                        ~Pushing(r, n)'
                 PROVE  \/ \E i \in DOMAIN Stream :
                              Stream[i].src = r /\ Stream[i].num = n
                        \/ \E p \in Lost : p.src = r /\ p.num = n
      BY <1>0 DEF AllPlaced
    <2>1. n \in 1 .. count[r] /\ ~Pushing(r, n)
      BY <1>0, <1>1, <1>2 DEF Pushing
    <2> QED BY <2>1 DEF AllPlaced, Ledger
  <1> QED BY <1>4, <1>5, <1>6, <1>7 DEF Ledger

(* The end of a push, wherever its packet goes: what the push held         *)
(* is past, and no other push changes.                                     *)
LEMMA PushOver ==
    ASSUME Ledger, TypeOK, NEW s \in Senders, Busy(s), ~Busy(s)',
           \A r \in Senders : r # s => Busy(r)' = Busy(r),
           UNCHANGED <<slot, count>>
    PROVE  /\ SlotNumbered'
           /\ Past(slot[s])' /\ ~Past(slot[s])
           /\ \A p : p.src \in Senders /\ Past(p) => Past(p)' /\ ~Same(p, slot[s])
           /\ \A r \in Senders : \A n \in 1 .. count[r] :
                 Pushing(r, n) /\ ~Pushing(r, n)' =>
                    slot[s].src = r /\ slot[s].num = n
           /\ slot[s].src = s /\ slot[s].num = count[s] /\ count[s] \in Nat
  <1>1. count \in [Senders -> Nat]
    BY DEF TypeOK
  <1>2. slot[s].src = s /\ slot[s].num = count[s] /\ count[s] > 0
    BY DEF Ledger, SlotNumbered
  <1>3. SlotNumbered'
    BY <1>1 DEF Ledger, SlotNumbered
  <1>4. Past(slot[s])' /\ ~Past(slot[s])
    BY <1>1, <1>2 DEF Past, Pushing
  <1>5. \A p : p.src \in Senders /\ Past(p) => Past(p)' /\ ~Same(p, slot[s])
    BY <1>1, <1>2 DEF Past, Pushing, Same
  <1>6. \A r \in Senders : \A n \in 1 .. count[r] :
           Pushing(r, n) /\ ~Pushing(r, n)' =>
              slot[s].src = r /\ slot[s].num = n
    BY <1>1, <1>2 DEF Pushing
  <1> QED BY <1>1, <1>2, <1>3, <1>4, <1>5, <1>6

(* An accepted packet is the newest of its handle.                         *)
LEMMA LedgerEnqueue ==
    ASSUME Ledger, TypeOK, TypeOK', NEW s \in Senders, Busy(s), Enqueue(s)
    PROVE  Ledger'
  <1> DEFINE N == Len(Stream)
  <1>0. /\ queue' = Append(queue, slot[s]) /\ delivered' = delivered
        /\ Lost' = Lost /\ UNCHANGED <<slot, count>> /\ slot[s] \in Packet
    BY DEF Enqueue, Lost, history, TypeOK
  <1>1. /\ \A i \in 1 .. N : Stream'[i] = Stream[i]
        /\ Stream'[N + 1] = slot[s]
        /\ DOMAIN Stream = 1 .. N
        /\ DOMAIN Stream' = 1 .. N + 1
        /\ N \in Nat
    BY <1>0, StreamAppend, StreamType, LenProperties
  <1>2. ~Busy(s)' /\ \A r \in Senders : r # s => Busy(r)' = Busy(r)
    BY DEF Busy, Enqueue, TypeOK
  <1>3. /\ SlotNumbered'
        /\ Past(slot[s])' /\ ~Past(slot[s])
        /\ \A p : p.src \in Senders /\ Past(p) => Past(p)' /\ ~Same(p, slot[s])
        /\ \A r \in Senders : \A n \in 1 .. count[r] :
              Pushing(r, n) /\ ~Pushing(r, n)' =>
                 slot[s].src = r /\ slot[s].num = n
        /\ slot[s].src = s /\ slot[s].num = count[s] /\ count[s] \in Nat
    BY <1>0, <1>2, PushOver
  <1>4. /\ \A i \in 1 .. N : Stream[i].src \in Senders /\ Stream[i].num \in Nat
        /\ \A p \in Lost : p.src \in Senders
    BY <1>1, StreamType DEF TypeOK, Lost, Packet
  <1>5. \A i \in 1 .. N : Past(Stream[i])
    BY <1>1 DEF Ledger, AllPast
  <1>6. \A p \in Lost : Past(p)
    BY DEF Ledger, AllPast
  <1> HIDE DEF N
  <1>7. \A i \in 1 .. N + 1 : i \in 1 .. N \/ i = N + 1
    BY <1>1
  <1>8. AllPast'
    BY <1>0, <1>1, <1>3, <1>4, <1>5, <1>6, <1>7 DEF AllPast
  <1>9. PerSenderOrder'
    <2> SUFFICES ASSUME NEW i \in 1 .. N + 1, NEW j \in 1 .. N + 1, i < j,
                        Stream'[i].src = Stream'[j].src
                 PROVE  Stream'[i].num < Stream'[j].num
      BY <1>1 DEF PerSenderOrder
    <2>1. i \in 1 .. N
      BY <1>1
    <2>2. CASE j \in 1 .. N
      BY <1>1, <2>1, <2>2 DEF Ledger, PerSenderOrder
    <2>3. CASE j = N + 1
      <3>1. Stream[i].src = s /\ Stream'[i] = Stream[i] /\ Stream'[j].num = count[s]
        BY <1>1, <1>3, <2>1, <2>3
      <3>2. Stream[i].num \in 1 .. count[s] /\ Stream[i].num # count[s]
        BY <1>5, <2>1, <3>1 DEF Past, Pushing
      <3> QED BY <1>3, <3>1, <3>2
    <2> QED BY <1>7, <2>2, <2>3
  <1>10. LostApart'
    <2>1. ASSUME NEW p \in Lost, NEW i \in 1 .. N + 1 PROVE ~Same(p, Stream'[i])
      BY <1>1, <1>3, <1>4, <1>6, <1>7 DEF Ledger, LostApart
    <2> QED BY <1>0, <1>1, <2>1 DEF Ledger, LostApart, Same
  <1>11. AllPlaced'
    <2> SUFFICES ASSUME NEW r \in Senders, NEW n \in 1 .. count[r],
                        ~Pushing(r, n)'
                 PROVE  \/ \E i \in 1 .. N + 1 :
                              Stream'[i].src = r /\ Stream'[i].num = n
                        \/ \E p \in Lost : p.src = r /\ p.num = n
      BY <1>0, <1>1 DEF AllPlaced
    <2>1. CASE Pushing(r, n)
      BY <1>1, <1>3, <2>1
    <2>2. CASE \E i \in 1 .. N : Stream[i].src = r /\ Stream[i].num = n
      BY <1>1, <2>2
    <2> QED BY <1>1, <2>1, <2>2 DEF Ledger, AllPlaced
  <1> QED BY <1>3, <1>8, <1>9, <1>10, <1>11 DEF Ledger

(* A packet that dies with its push.                                       *)
LEMMA LedgerLose ==
    ASSUME Ledger, TypeOK, NEW s \in Senders, Busy(s),
           tx' = [tx EXCEPT ![s] = "idle"], Lost' = Lost \cup {slot[s]},
           UNCHANGED <<queue, delivered, slot, count>>
    PROVE  Ledger'
  <1>0. Stream' = Stream
    BY DEF Stream
  <1>1. ~Busy(s)' /\ \A r \in Senders : r # s => Busy(r)' = Busy(r)
    BY DEF Busy, TypeOK
  <1>2. /\ SlotNumbered'
        /\ Past(slot[s])' /\ ~Past(slot[s])
        /\ \A p : p.src \in Senders /\ Past(p) => Past(p)' /\ ~Same(p, slot[s])
        /\ \A r \in Senders : \A n \in 1 .. count[r] :
              Pushing(r, n) /\ ~Pushing(r, n)' =>
                 slot[s].src = r /\ slot[s].num = n
    BY <1>1, PushOver
  <1>3. /\ \A i \in DOMAIN Stream : Stream[i].src \in Senders /\ Past(Stream[i])
        /\ \A p \in Lost : p.src \in Senders /\ Past(p)
    BY StreamType DEF TypeOK, Lost, Packet, Ledger, AllPast
  <1>4. AllPast'
    BY <1>0, <1>2, <1>3 DEF AllPast
  <1>5. PerSenderOrder'
    BY <1>0 DEF PerSenderOrder, Ledger
  <1>6. LostApart'
    <2>1. \A i \in DOMAIN Stream : ~Same(slot[s], Stream[i])
      BY <1>2, <1>3 DEF Same
    <2>2. \A p \in Lost : ~Same(slot[s], p) /\ ~Same(p, slot[s])
      BY <1>2, <1>3 DEF Same
    <2> QED BY <1>0, <2>1, <2>2 DEF LostApart, Ledger
  <1>7. AllPlaced'
    <2> SUFFICES ASSUME NEW r \in Senders, NEW n \in 1 .. count[r],
                        ~Pushing(r, n)'
                 PROVE  \/ \E i \in DOMAIN Stream :
                              Stream[i].src = r /\ Stream[i].num = n
                        \/ \E p \in Lost' : p.src = r /\ p.num = n
      BY <1>0 DEF AllPlaced
    <2>1. CASE Pushing(r, n)
      BY <1>2, <2>1
    <2> QED BY <2>1 DEF Ledger, AllPlaced
  <1> QED BY <1>2, <1>4, <1>5, <1>6, <1>7 DEF Ledger

(* Packets taken out of the stream and entered as lost: every position of  *)
(* the new stream comes from one of the old, in order, and every position  *)
(* of the old one is kept or lost.                                         *)
LEMMA LedgerMove ==
    ASSUME Ledger, TypeOK, UNCHANGED <<slot, count>>,
           \A r \in Senders : Busy(r)' = Busy(r),
           NEW K, NEW from \in [DOMAIN Stream' -> DOMAIN Stream],
           K \subseteq DOMAIN Stream,
           DOMAIN Stream' \subseteq Int,
           \A i \in DOMAIN Stream' :
              Stream'[i] = Stream[from[i]] /\ from[i] \notin K,
           \A i, j \in DOMAIN Stream' : i < j => from[i] < from[j],
           \A i \in DOMAIN Stream : i \in K \/ \E j \in DOMAIN Stream' : from[j] = i,
           Lost' = Lost \cup {Stream[i] : i \in K}
    PROVE  Ledger'
  <1>1. /\ \A i \in DOMAIN Stream : Stream[i].src \in Senders /\ Past(Stream[i])
                                    /\ Stream[i].num \in Nat
        /\ \A p \in Lost : p.src \in Senders /\ Past(p)
        /\ DOMAIN Stream \subseteq Int
    <2>1. DOMAIN Stream = 1 .. Len(Stream) /\ Len(Stream) \in Nat
          /\ \A i \in 1 .. Len(Stream) : Stream[i] \in Packet
      BY StreamType, LenProperties
    <2>2. \A p \in Lost : p \in Packet
      BY DEF TypeOK, Lost
    <2>3. (\A i \in DOMAIN Stream : Past(Stream[i])) /\ (\A p \in Lost : Past(p))
      BY DEF Ledger, AllPast
    <2> QED BY <2>1, <2>2, <2>3 DEF Packet
  <1>2. \A r \in Senders : \A n : Pushing(r, n)' = Pushing(r, n)
    BY DEF Pushing
  <1>3. \A p : p.src \in Senders /\ Past(p) => Past(p)'
    BY <1>2 DEF Past
  <1>4. AllPast'
    BY <1>1, <1>3 DEF AllPast
  <1>5. SlotNumbered'
    BY DEF SlotNumbered, Ledger
  <1>6. PerSenderOrder'
    BY DEF PerSenderOrder, Ledger
  <1>7. \A i, j \in DOMAIN Stream : Same(Stream[i], Stream[j]) => i = j
    <2>1. \A i, j \in DOMAIN Stream :
              i < j /\ Stream[i].src = Stream[j].src => Stream[i].num < Stream[j].num
      BY DEF PerSenderOrder, Ledger
    <2> QED BY <1>1, <2>1 DEF Same
  <1>8. LostApart'
    <2>1. ASSUME NEW p \in Lost', NEW j \in DOMAIN Stream'
          PROVE  ~Same(p, Stream'[j])
      <3>1. CASE p \in Lost
        BY <3>1 DEF LostApart, Ledger
      <3>2. ASSUME NEW i \in K, p = Stream[i] PROVE ~Same(p, Stream'[j])
        BY <1>7, <3>2
      <3> QED BY <3>1, <3>2
    <2>2. ASSUME NEW p \in Lost', NEW q \in Lost', Same(p, q) PROVE p = q
      <3>1. CASE p \in Lost /\ q \in Lost
        BY <2>2, <3>1 DEF LostApart, Ledger
      <3>2. ASSUME NEW i \in K, NEW j \in K, p = Stream[i], q = Stream[j]
            PROVE  p = q
        BY <1>7, <2>2, <3>2
      <3>3. ASSUME NEW i \in K, p = Stream[i], q \in Lost PROVE FALSE
        <4>1. Same(q, Stream[i])
          BY <2>2, <3>3 DEF Same
        <4> QED BY <3>3, <4>1 DEF LostApart, Ledger
      <3>4. ASSUME NEW j \in K, q = Stream[j], p \in Lost PROVE FALSE
        BY <2>2, <3>4 DEF LostApart, Ledger
      <3> QED BY <3>1, <3>2, <3>3, <3>4
    <2> QED BY <2>1, <2>2 DEF LostApart
  <1>9. AllPlaced'
    <2> SUFFICES ASSUME NEW r \in Senders, NEW n \in 1 .. count[r],
                        ~Pushing(r, n)
                 PROVE  \/ \E i \in DOMAIN Stream' :
                              Stream'[i].src = r /\ Stream'[i].num = n
                        \/ \E p \in Lost' : p.src = r /\ p.num = n
      BY <1>2 DEF AllPlaced
    <2>1. ASSUME NEW i \in DOMAIN Stream, Stream[i].src = r, Stream[i].num = n
          PROVE  \/ \E j \in DOMAIN Stream' :
                       Stream'[j].src = r /\ Stream'[j].num = n
                 \/ \E p \in Lost' : p.src = r /\ p.num = n
      <3>1. CASE i \in K
        BY <2>1, <3>1
      <3>2. ASSUME NEW j \in DOMAIN Stream', from[j] = i
            PROVE  Stream'[j].src = r /\ Stream'[j].num = n
        BY <2>1, <3>2
      <3> QED BY <3>1, <3>2
    <2>2. ASSUME NEW p \in Lost, p.src = r, p.num = n
          PROVE  \E q \in Lost' : q.src = r /\ q.num = n
      BY <2>2
    <2> QED BY <2>1, <2>2 DEF Ledger, AllPlaced
  <1> QED BY <1>4, <1>5, <1>6, <1>8, <1>9 DEF Ledger

(* An eviction moves one packet from the stream to the losses.             *)
LEMMA LedgerEvict ==
    ASSUME Ledger, TypeOK, TypeOK', NEW s \in Senders, Evict(s), EvictFrame(s)
    PROVE  Ledger'
  <1>1. PICK i \in 1 .. Len(queue) :
            /\ queue' = RemoveAt(queue, i)
            /\ dropped' = dropped \cup {queue[i]}
            /\ tx' = [tx EXCEPT ![s] = "retrying"]
    BY DEF EvictFrame
  <1>2. UNCHANGED <<slot, count, delivered, shed>> /\ tx[s] = "evicting"
    BY DEF Evict
  <1>3. \A r \in Senders : Busy(r)' = Busy(r)
    BY <1>1, <1>2 DEF Busy, TypeOK
  <1> DEFINE at == Len(delivered) + i
             N == Len(Stream)
             from == [k \in DOMAIN Stream' |-> IF k < at THEN k ELSE k + 1]
  <1>4. /\ at \in 1 .. N /\ Stream[at] = queue[i]
        /\ DOMAIN Stream = 1 .. N /\ DOMAIN Stream' = 1 .. N - 1
        /\ \A k \in 1 .. N - 1 :
              Stream'[k] = IF k < at THEN Stream[k] ELSE Stream[k + 1]
    BY <1>1, <1>2, StreamRemove
  <1>5. N \in Nat
    BY StreamType, LenProperties
  <1> HIDE DEF at, N
  <1>6. from \in [DOMAIN Stream' -> DOMAIN Stream]
    BY <1>4, <1>5
  <1>7. \A k \in DOMAIN Stream' : Stream'[k] = Stream[from[k]] /\ from[k] # at
    BY <1>4, <1>5
  <1>8. \A k, m \in DOMAIN Stream' : k < m => from[k] < from[m]
    BY <1>4, <1>5
  <1>9. ASSUME NEW k \in DOMAIN Stream, k # at
        PROVE  \E m \in DOMAIN Stream' : from[m] = k
    <2>1. CASE k < at
      <3>1. k \in DOMAIN Stream' /\ from[k] = k
        BY <1>4, <1>5, <2>1
      <3> QED BY <3>1
    <2>2. CASE k > at
      <3>1. k - 1 \in DOMAIN Stream' /\ from[k - 1] = k
        BY <1>4, <1>5, <2>2
      <3> QED BY <3>1
    <2> QED BY <1>4, <1>5, <1>9, <2>1, <2>2
  <1>10. Lost' = Lost \cup {Stream[k] : k \in {at}}
    BY <1>1, <1>2, <1>4 DEF Lost
  <1>11. DOMAIN Stream' \subseteq Int /\ {at} \subseteq DOMAIN Stream
    BY <1>4, <1>5
  <1> HIDE DEF from
  <1>12. PICK K, f : K = {at} /\ f = from
    OBVIOUS
  <1>13. /\ f \in [DOMAIN Stream' -> DOMAIN Stream]
         /\ K \subseteq DOMAIN Stream
         /\ \A k \in DOMAIN Stream' : Stream'[k] = Stream[f[k]] /\ f[k] \notin K
         /\ \A k \in DOMAIN Stream :
               k \in K \/ \E m \in DOMAIN Stream' : f[m] = k
    BY <1>6, <1>7, <1>9, <1>11, <1>12
  <1>14. /\ \A k, m \in DOMAIN Stream' : k < m => f[k] < f[m]
         /\ Lost' = Lost \cup {Stream[k] : k \in K}
    BY <1>8, <1>10, <1>12
  <1> QED BY <1>2, <1>3, <1>11, <1>13, <1>14, LedgerMove

(* A receiver that goes away loses what is still queued.                   *)
LEMMA LedgerDropReceiver ==
    ASSUME Ledger, TypeOK, TypeOK', DropReceiver
    PROVE  Ledger'
  <1>1. /\ UNCHANGED <<slot, count, delivered, dropped>> /\ queue' = <<>>
        /\ shed' = shed \cup Range(queue)
    BY DEF DropReceiver
  <1>2. \A r \in Senders : Busy(r)' = Busy(r)
    BY DEF DropReceiver, WakeSenders, Busy, TypeOK
  <1> DEFINE D == Len(delivered)
             N == Len(Stream)
             K == D + 1 .. N
             from == [k \in DOMAIN Stream' |-> k]
  <1>3. delivered \in Seq(Packet) /\ queue \in Seq(Packet) /\ D \in Nat
        /\ Len(queue) \in Nat
    BY DEF TypeOK
  <1>4. /\ DOMAIN Stream = 1 .. N /\ N = D + Len(queue)
        /\ \A k \in 1 .. N : Stream[k] = IF k <= D THEN delivered[k] ELSE queue[k - D]
    BY StreamType
  <1>5. Stream' = delivered
    BY <1>1, <1>3, ConcatEmptySeq DEF Stream
  <1>6. DOMAIN Stream' = 1 .. D
    BY <1>3, <1>5, LenProperties
  <1> HIDE DEF D, N
  <1>7. from \in [DOMAIN Stream' -> DOMAIN Stream] /\ K \subseteq DOMAIN Stream
        /\ DOMAIN Stream' \subseteq Int
    BY <1>3, <1>4, <1>6
  <1>8. \A k \in DOMAIN Stream' : Stream'[k] = Stream[from[k]] /\ from[k] \notin K
    BY <1>3, <1>4, <1>5, <1>6
  <1>9. \A k, m \in DOMAIN Stream' : k < m => from[k] < from[m]
    BY <1>6
  <1>10. \A k \in DOMAIN Stream : k \in K \/ \E m \in DOMAIN Stream' : from[m] = k
    BY <1>3, <1>4, <1>6
  <1>11. Range(queue) = {Stream[k] : k \in K}
    <2>1. DOMAIN queue = 1 .. Len(queue)
      BY <1>3, LenProperties
    <2>2. ASSUME NEW m \in 1 .. Len(queue)
          PROVE  \E k \in K : queue[m] = Stream[k]
      <3>1. D + m \in K /\ (D + m) - D = m /\ D + m \in 1 .. N /\ ~(D + m <= D)
        BY <1>3, <1>4
      <3> QED BY <1>4, <3>1
    <2>3. ASSUME NEW k \in K PROVE Stream[k] \in Range(queue)
      <3>1. k - D \in 1 .. Len(queue) /\ k \in 1 .. N /\ ~(k <= D)
        BY <1>3, <1>4
      <3> QED BY <1>4, <2>1, <3>1 DEF Range
    <2> QED BY <2>1, <2>2, <2>3 DEF Range
  <1>12. Lost' = Lost \cup {Stream[k] : k \in K}
    BY <1>1, <1>11 DEF Lost
  <1> HIDE DEF from, K
  <1>13. PICK J, f : J = K /\ f = from
    OBVIOUS
  <1>14. /\ f \in [DOMAIN Stream' -> DOMAIN Stream]
         /\ J \subseteq DOMAIN Stream
         /\ \A k \in DOMAIN Stream' : Stream'[k] = Stream[f[k]] /\ f[k] \notin J
         /\ \A k \in DOMAIN Stream :
               k \in J \/ \E m \in DOMAIN Stream' : f[m] = k
    BY <1>7, <1>8, <1>10, <1>13
  <1>15. /\ \A k, m \in DOMAIN Stream' : k < m => f[k] < f[m]
         /\ Lost' = Lost \cup {Stream[k] : k \in J}
    BY <1>9, <1>12, <1>13
  <1>16. UNCHANGED <<slot, count>> /\ DOMAIN Stream' \subseteq Int
    BY <1>1, <1>7
  <1> QED BY <1>2, <1>14, <1>15, <1>16, LedgerMove

(* The ledger is balanced initially and every step keeps it so.            *)
LEMMA LedgerInit == Init => Ledger
  <1> SUFFICES ASSUME Init PROVE Ledger
    OBVIOUS
  <1>1. DOMAIN Stream = {}
    <2>1. <<>> \in Seq(Packet)
      BY EmptySeq
    <2>2. Stream = <<>>
      BY <2>1, ConcatEmptySeq DEF Init, Stream
    <2> QED BY <2>2
  <1>2. Lost = {}
    BY DEF Init, Lost
  <1>3. \A s \in Senders : count[s] = 0 /\ ~Busy(s) /\ slot[s].src = s
                           /\ slot[s].num = 0
    BY DEF Init, Busy
  <1> QED BY <1>1, <1>2, <1>3
          DEF Ledger, SlotNumbered, AllPast, PerSenderOrder, LostApart, AllPlaced

(* Every step keeps each packet in exactly one place, in its order.        *)
LEMMA LedgerStep ==
    ASSUME Ledger, TypeOK, TypeOK', [Next]_vars
    PROVE  Ledger'
  <1> DEFINE Kept == /\ UNCHANGED <<slot, count, dropped, shed>>
                     /\ Stream' = Stream
                     /\ \A r \in Senders : Busy(r)' = Busy(r)
  <1>1. ASSUME Kept PROVE Ledger'
    <2>1. Lost' = Lost
      BY <1>1 DEF Lost
    <2> QED BY <1>1, <2>1, LedgerKept
  <1>2. ASSUME NEW s \in Senders, CloneSender(s) \/ DropSender(s) PROVE Kept
    <2>1. CASE CloneSender(s)
      BY <2>1 DEF CloneSender, history, Stream, Busy, TypeOK
    <2>2. CASE DropSender(s)
      BY <2>2 DEF DropSender, history, Stream, Busy, TypeOK
    <2> QED BY <1>2, <2>1, <2>2
  <1>3. ASSUME NEW s \in Senders, Evict(s), BlockInstead(s) PROVE Kept
    BY <1>3 DEF Evict, BlockInstead, Stream, Busy, TypeOK
  <1>4. ASSUME NEW s \in Senders, tx[s] = "sending", ParkSender(s) PROVE Kept
    BY <1>4 DEF ParkSender, history, Stream, Busy, TypeOK
  <1>5. ASSUME Pop PROVE Kept
    <2>1. Stream' = Stream
      BY <1>5, StreamPop DEF Pop
    <2>2. WakeSenders /\ UNCHANGED <<slot, count, dropped, shed>>
      BY <1>5 DEF Pop
    <2> QED BY <2>1, <2>2 DEF WakeSenders, Busy, TypeOK
  <1>6. ASSUME ReceiveEnd \/ ParkReceiver \/ CancelRecv \/ UNCHANGED vars
        PROVE  Kept
    BY <1>6 DEF ReceiveEnd, ParkReceiver, CancelRecv, vars, inner, history,
                Stream, Busy
  <1>7. ASSUME NEW s \in Senders, tx[s] \in {"trying", "retrying", "sending"},
               Enqueue(s)
        PROVE  Ledger'
    BY <1>7, LedgerEnqueue DEF Busy
  <1>8. ASSUME NEW s \in Senders,
               \/ /\ tx[s] \in {"trying", "retrying", "sending"}
                  /\ RejectClosed(s)
               \/ CancelPush(s)
        PROVE  Ledger'
    <2>1. /\ Busy(s) /\ tx' = [tx EXCEPT ![s] = "idle"]
          /\ UNCHANGED <<queue, delivered, slot, count, dropped>>
          /\ shed' = shed \cup {slot[s]}
      BY <1>8 DEF RejectClosed, CancelPush, Busy, inner
    <2>2. Lost' = Lost \cup {slot[s]}
      BY <2>1 DEF Lost
    <2> QED BY <2>1, <2>2, LedgerLose
  <1>9. ASSUME NEW s \in Senders, tx[s] = "trying", TrySendFull(s) PROVE Ledger'
    <2>1. Busy(s) /\ UNCHANGED <<queue, delivered, slot, count, shed>>
      BY <1>9 DEF TrySendFull, Busy, inner
    <2>2. CASE policy = "DropNewest"
      <3>1. tx' = [tx EXCEPT ![s] = "idle"] /\ dropped' = dropped \cup {slot[s]}
        BY <1>9, <2>2 DEF TrySendFull
      <3>2. Lost' = Lost \cup {slot[s]}
        BY <2>1, <3>1 DEF Lost
      <3> QED BY <2>1, <3>1, <3>2, LedgerLose
    <2>3. CASE policy # "DropNewest"
      <3>1. Kept
        BY <1>9, <2>1, <2>3 DEF TrySendFull, Stream, Busy, TypeOK
      <3> QED BY <1>1, <3>1
    <2> QED BY <2>2, <2>3
  <1> HIDE DEF Kept
  <1>10. ASSUME NEW s \in Senders,
                \/ CloneSender(s) \/ DropSender(s)
                \/ \E d \in BOOLEAN : StartPush(s, d)
                \/ TrySend(s) \/ Evict(s) \/ RetrySend(s)
                \/ PollSend(s) \/ CancelPush(s)
         PROVE  Ledger'
    <2>1. CASE TrySend(s) \/ RetrySend(s) \/ PollSend(s)
      BY <1>1, <1>4, <1>7, <1>8, <1>9, <2>1 DEF TrySend, RetrySend, PollSend
    <2>2. CASE Evict(s)
      BY <1>1, <1>3, <2>2, LedgerEvict DEF Evict
    <2>3. CASE \E d \in BOOLEAN : StartPush(s, d)
      BY <2>3, LedgerStart
    <2> QED BY <1>1, <1>2, <1>8, <1>10, <2>1, <2>2, <2>3
  <1>11. ASSUME TryRecv \/ PollRecv \/ CancelRecv \/ DropReceiver PROVE Ledger'
    BY <1>1, <1>5, <1>6, <1>11, LedgerDropReceiver DEF TryRecv, PollRecv
  <1> QED BY <1>1, <1>6, <1>10, <1>11 DEF Next, Freed

(* Every reachable state has a balanced ledger.                            *)
THEOREM LedgerBalanced == Spec => []Ledger
  <1>1. IInv /\ IInv' /\ Ledger /\ [Next]_vars => Ledger'
    BY LedgerStep DEF IInv
  <1> QED BY <1>1, LedgerInit, Inductive, PTL DEF Spec

(* A handle's packets leave a link in the order they were pushed, for any  *)
(* number of handles, any capacity and any policy, whatever is parked,     *)
(* evicted, cancelled or refused on the way.                               *)
THEOREM OrderKept == Spec => []PerSenderOrder
  <1>1. Ledger => PerSenderOrder
    BY DEF Ledger
  <1> QED BY <1>1, LedgerBalanced, PTL

(* A balanced ledger puts each packet in one place.                        *)
LEMMA OnePlace ==
    ASSUME Ledger, TypeOK
    PROVE  EachPacketOnce
  <1> SUFFICES ASSUME NEW s \in Senders, NEW n \in 1 .. count[s]
               PROVE  Places(s, n) = 1
    BY DEF EachPacketOnce
  <1> DEFINE Is(p) == p.src = s /\ p.num = n
             Q == {i \in DOMAIN Stream : Is(Stream[i])}
             L == {p \in Lost : Is(p)}
             B == Busy(s) /\ Is(slot[s])
  <1>1. Places(s, n) = Cardinality(Q) + Cardinality(L) + (IF B THEN 1 ELSE 0)
    BY DEF Places, Lost
  <1>2. B <=> Pushing(s, n)
    BY DEF Pushing, Ledger, SlotNumbered, TypeOK
  <1>3. DOMAIN Stream \subseteq Int
        /\ \A i \in DOMAIN Stream : Stream[i].num \in Nat
    <2>1. DOMAIN Stream = 1 .. Len(Stream) /\ Len(Stream) \in Nat
          /\ \A i \in 1 .. Len(Stream) : Stream[i] \in Packet
      BY StreamType, LenProperties
    <2> QED BY <2>1 DEF Packet
  <1>4. \A i, j \in Q : i = j
    <2>1. \A i, j \in DOMAIN Stream :
              i < j /\ Stream[i].src = Stream[j].src => Stream[i].num < Stream[j].num
      BY DEF PerSenderOrder, Ledger
    <2> QED BY <1>3, <2>1
  <1>5. \A p, q \in L : p = q
    BY DEF LostApart, Ledger, Same
  <1>6. Q = {} \/ L = {}
    BY DEF LostApart, Ledger, Same
  <1>7. Pushing(s, n) => Q = {} /\ L = {}
    BY DEF AllPast, Ledger, Past
  <1>8. ~Pushing(s, n) => Q # {} \/ L # {}
    BY DEF AllPlaced, Ledger
  <1> HIDE DEF Q, L, B
  <1>9. Cardinality(Q) = IF Q = {} THEN 0 ELSE 1
    <2>1. CASE Q = {}
      BY <2>1, FS_EmptySet
    <2>2. ASSUME NEW i \in Q PROVE Cardinality(Q) = 1
      <3>1. Q = {i}
        BY <1>4, <2>2
      <3> QED BY <3>1, FS_Singleton
    <2> QED BY <2>1, <2>2
  <1>10. Cardinality(L) = IF L = {} THEN 0 ELSE 1
    <2>1. CASE L = {}
      BY <2>1, FS_EmptySet
    <2>2. ASSUME NEW p \in L PROVE Cardinality(L) = 1
      <3>1. L = {p}
        BY <1>5, <2>2
      <3> QED BY <3>1, FS_Singleton
    <2> QED BY <2>1, <2>2
  <1> QED BY <1>1, <1>2, <1>6, <1>7, <1>8, <1>9, <1>10

(* Every packet ever pushed is in exactly one place: with its push, in the *)
(* queue, delivered, dropped by the policy or lost with its push or its    *)
(* receiver.                                                               *)
THEOREM PacketsAccounted == Spec => []EachPacketOnce
  <1>1. IInv /\ Ledger => EachPacketOnce
    BY OnePlace DEF IInv
  <1> QED BY <1>1, LedgerBalanced, Inductive, PTL

-----------------------------------------------------------------------------
(***************************************************************************)
(* The link implements AbstractLink, liveness left to the model checker:   *)
(* initial states map to initial states, every step to a step or a         *)
(* stutter.  Besides IInv and Ledger the mapping needs three more facts:   *)
(* no handle goes over the bound on pushes, so every packet is one of      *)
(* AbstractLink's; only a data frame is tried on a leaky link; and only a  *)
(* push of a DropOldest link comes to evict, which is what lets the        *)
(* abstract link tie every loss to its policy.                             *)
(***************************************************************************)
LinkSafety == Link!Init /\ [][Link!Next]_(Link!vars)

PushesBounded == \A s \in Senders : count[s] <= MaxPush

OnlyDataTried ==
    \A s \in Senders :
        tx[s] \in {"trying", "evicting", "retrying"} => slot[s].data

OnlyOldestEvicts ==
    \A s \in Senders : tx[s] = "evicting" => policy = "DropOldest"

(* A handle that used up the bound alone used up the bound of all.         *)
LEMMA RoomToPush ==
    ASSUME TypeOK, PushesBounded, NEW s \in Senders, Pushes < MaxPush
    PROVE  count[s] < MaxPush
  <1> DEFINE P == {p \in Senders \X (1 .. MaxPush) : p[2] <= count[p[1]]}
             M == {s} \X (1 .. MaxPush)
  <1>1. MaxPush \in Nat /\ IsFiniteSet(Senders) /\ count[s] \in Nat
    BY ChannelAssumption DEF TypeOK
  <1>2. IsFiniteSet(1 .. MaxPush) /\ Cardinality(1 .. MaxPush) = MaxPush
    BY <1>1, FS_Interval
  <1>3. IsFiniteSet({s}) /\ Cardinality({s}) = 1
    BY FS_Singleton
  <1>4. IsFiniteSet(M) /\ Cardinality(M) = MaxPush
    BY <1>1, <1>2, <1>3, FS_Product
  <1>5. IsFiniteSet(P)
    <2>1. IsFiniteSet(Senders \X (1 .. MaxPush))
      BY <1>1, <1>2, FS_Product
    <2> QED BY <2>1, FS_Subset
  <1>6. ASSUME count[s] >= MaxPush PROVE Cardinality(M) <= Cardinality(P)
    <2>1. M \subseteq P
      BY <1>1, <1>6
    <2> QED BY <1>4, <1>5, <2>1, FS_Subset
  <1>7. Pushes = Cardinality(P) /\ Cardinality(P) \in Nat
    BY <1>5, FS_CardinalityType DEF Pushes
  <1> HIDE DEF P, M
  <1> QED BY <1>1, <1>4, <1>6, <1>7

(* No sender pushes past the bound, and try_push carries only data.        *)
LEMMA BoundStep ==
    ASSUME TypeOK, PushesBounded, OnlyDataTried, [Next]_vars
    PROVE  PushesBounded' /\ OnlyDataTried'
  <1> USE DEF PushesBounded, OnlyDataTried
  <1>1. ASSUME NEW s \in Senders, NEW d \in BOOLEAN, StartPush(s, d)
        PROVE  PushesBounded' /\ OnlyDataTried'
    <2>1. count[s] < MaxPush
      BY <1>1, RoomToPush DEF StartPush
    <2>2. MaxPush \in Nat
      BY ChannelAssumption
    <2>3. PushesBounded'
      BY <1>1, <2>1, <2>2 DEF StartPush, TypeOK
    <2>4. OnlyDataTried'
      BY <1>1 DEF StartPush, TypeOK
    <2> QED BY <2>3, <2>4
  <1> DEFINE Kept == /\ UNCHANGED <<slot, count>>
                     /\ \A r \in Senders :
                           tx'[r] \in {"trying", "evicting", "retrying"} =>
                           tx[r] \in {"trying", "evicting", "retrying"}
  <1>2. ASSUME NEW s \in Senders, CloneSender(s) \/ DropSender(s) PROVE Kept
    BY <1>2 DEF CloneSender, DropSender, TypeOK
  <1>3. ASSUME NEW s \in Senders, Enqueue(s) \/ RejectClosed(s) \/ CancelPush(s)
        PROVE  Kept
    BY <1>3 DEF Enqueue, RejectClosed, CancelPush, TypeOK
  <1>4. ASSUME NEW s \in Senders, tx[s] = "trying", TrySendFull(s) PROVE Kept
    BY <1>4 DEF TrySendFull, TypeOK
  <1>5. ASSUME NEW s \in Senders, Evict(s) PROVE Kept
    BY <1>5 DEF Evict, EvictFrame, BlockInstead, TypeOK
  <1>6. ASSUME NEW s \in Senders, ParkSender(s) PROVE Kept
    BY <1>6 DEF ParkSender, TypeOK
  <1>7. ASSUME Pop \/ DropReceiver PROVE Kept
    BY <1>7 DEF Pop, DropReceiver, WakeSenders, TypeOK
  <1>8. ASSUME ReceiveEnd \/ ParkReceiver \/ CancelRecv \/ UNCHANGED vars
        PROVE  Kept
    BY <1>8 DEF ReceiveEnd, ParkReceiver, CancelRecv, vars
  <1>9. ASSUME Kept PROVE PushesBounded' /\ OnlyDataTried'
    BY <1>9
  <1> HIDE DEF Kept, PushesBounded, OnlyDataTried
  <1> QED
    BY <1>1, <1>2, <1>3, <1>4, <1>5, <1>6, <1>7, <1>8, <1>9
    DEF Next, TrySend, RetrySend, PollSend, TryRecv, PollRecv, Freed

(* Evicting begins in the Full arm of a leaky push, and DropNewest leaves  *)
(* that arm without it.                                                    *)
LEMMA EvictsStep ==
    ASSUME TypeOK, LeakyHasOneHandle, OnlyOldestEvicts, [Next]_vars
    PROVE  OnlyOldestEvicts'
  <1> USE DEF OnlyOldestEvicts
  <1> DEFINE Kept == /\ UNCHANGED policy
                     /\ \A r \in Senders : tx'[r] = "evicting" => tx[r] = "evicting"
  <1>1. ASSUME NEW s \in Senders, tx[s] = "trying", TrySendFull(s)
        PROVE  OnlyOldestEvicts'
    <2>1. policy \in {"Block", "DropOldest", "DropNewest"} /\ policy # "Block"
      BY <1>1, ChannelAssumption DEF TypeOK, LeakyHasOneHandle
    <2> QED BY <1>1, <2>1 DEF TrySendFull, TypeOK
  <1>2. ASSUME NEW s \in Senders,
               CloneSender(s) \/ DropSender(s) \/ CancelPush(s)
        PROVE  Kept
    BY <1>2 DEF CloneSender, DropSender, CancelPush, TypeOK
  <1>3. ASSUME NEW s \in Senders, NEW d \in BOOLEAN, StartPush(s, d) PROVE Kept
    BY <1>3 DEF StartPush, TypeOK
  <1>4. ASSUME NEW s \in Senders, Enqueue(s) \/ RejectClosed(s) \/ ParkSender(s)
        PROVE  Kept
    BY <1>4 DEF Enqueue, RejectClosed, ParkSender, TypeOK
  <1>5. ASSUME NEW s \in Senders, Evict(s) PROVE Kept
    BY <1>5 DEF Evict, EvictFrame, BlockInstead, TypeOK
  <1>6. ASSUME Pop \/ DropReceiver PROVE Kept
    BY <1>6 DEF Pop, DropReceiver, WakeSenders, TypeOK
  <1>7. ASSUME ReceiveEnd \/ ParkReceiver \/ CancelRecv \/ UNCHANGED vars
        PROVE  Kept
    BY <1>7 DEF ReceiveEnd, ParkReceiver, CancelRecv, vars
  <1>8. ASSUME Kept PROVE OnlyOldestEvicts'
    BY <1>8
  <1> HIDE DEF Kept, OnlyOldestEvicts
  <1> QED
    BY <1>1, <1>2, <1>3, <1>4, <1>5, <1>6, <1>7, <1>8
    DEF Next, TrySend, RetrySend, PollSend, TryRecv, PollRecv, Freed

(* What every step of the mapping may assume.                              *)
MapInv == IInv /\ Ledger /\ PushesBounded /\ OnlyDataTried /\ OnlyOldestEvicts

(* A packet being pushed is one AbstractLink knows.                        *)
LEMMA PushIsAbstract ==
    ASSUME MapInv, NEW s \in Senders, Busy(s)
    PROVE  slot[s] \in Link!Packet /\ slot[s].src = s /\ s \in Live
  <1>1. slot[s] \in Packet /\ slot[s].num = count[s] /\ count[s] \in Nat
        /\ count[s] > 0 /\ slot[s].src = s /\ count[s] <= MaxPush
    BY DEF MapInv, IInv, TypeOK, Ledger, SlotNumbered, PushesBounded
  <1>2. slot[s].num \in 1 .. MaxPush
    BY <1>1, ChannelAssumption
  <1>3. slot[s] \in Link!Packet
    BY <1>1, <1>2 DEF Packet, Link!Packet
  <1> QED BY <1>1, <1>3 DEF Busy, Live

(* The channel starts where the abstract link starts.                      *)
LEMMA LinkInit == Init => Link!Init
  <1> SUFFICES ASSUME Init PROVE Link!Init
    OBVIOUS
  <1>1. Live = {Original} /\ Original \in Senders
    BY ChannelAssumption DEF Init, Live
  <1> QED BY <1>1 DEF Init, Link!Init

(* Every step of the channel is a step of the abstract link, or none.      *)
LEMMA LinkStep ==
    ASSUME MapInv, [Next]_vars
    PROVE  [Link!Next]_(Link!vars)
  <1> DEFINE Side(r) == IF r \in {"running", "parked"} THEN "open" ELSE r
  <1>0. TypeOK /\ tx \in [Senders -> TxStates] /\ WithinCapacity /\ EndIsFinal
        /\ ReceiversCounted /\ SendersCounted
    BY DEF MapInv, IInv, TypeOK
  <1>1. ASSUME NEW s \in Senders, CloneSender(s) PROVE Link!Next
    <2>1. Live' = Live \cup {s} /\ s \notin Live /\ Live # {}
      BY <1>0, <1>1 DEF CloneSender, Live
    <2>2. UNCHANGED <<policy, queue, delivered, dropped, rx>>
      BY <1>1 DEF CloneSender, history
    <2>3. Link!Open(s)
      BY <2>1, <2>2 DEF Link!Open
    <2> QED BY <2>3 DEF Link!Next
  <1>2. ASSUME NEW s \in Senders, DropSender(s) PROVE Link!Next
    <2>1. Live' = Live \ {s} /\ s \in Live
      BY <1>0, <1>2 DEF DropSender, Live
    <2>2. UNCHANGED <<policy, queue, delivered, dropped>>
          /\ Side(rx') = Side(rx)
      BY <1>2 DEF DropSender, history, WakeReceiver
    <2>3. Link!Close(s)
      BY <2>1, <2>2 DEF Link!Close
    <2> QED BY <2>3 DEF Link!Next
  <1>3. ASSUME NEW s \in Senders, Busy(s), Enqueue(s) PROVE Link!Next
    <2>1. slot[s] \in Link!Packet /\ slot[s].src \in Live
      BY <1>3, PushIsAbstract
    <2>2. Side(rx) = "open" /\ Side(rx') = "open"
      BY <1>0, <1>3, <2>1
      DEF Enqueue, WakeReceiver, EndIsFinal, ReceiversCounted, Closed, TypeOK,
          RxStates
    <2>3. Live' = Live
      BY <1>0, <1>3 DEF Enqueue, Live, Busy
    <2>4. UNCHANGED <<policy, delivered, dropped>>
          /\ queue' = Append(queue, slot[s])
          /\ Len(queue) < Capacity
      BY <1>0, <1>3, ChannelAssumption DEF Enqueue, history, Full, TypeOK
    <2>5. Link!Accept(slot[s])
      BY <2>1, <2>2, <2>3, <2>4 DEF Link!Accept
    <2> QED BY <2>1, <2>5 DEF Link!Next
  <1>4. ASSUME NEW s \in Senders, tx[s] = "trying", TrySendFull(s)
        PROVE  [Link!Next]_(Link!vars)
    <2>1. Live' = Live /\ UNCHANGED <<policy, queue, delivered, rx>>
      BY <1>0, <1>4 DEF TrySendFull, Live, inner
    <2>2. CASE policy = "DropNewest"
      <3>1. slot[s] \in Link!Packet /\ slot[s].data
        BY <1>4, PushIsAbstract DEF Busy, MapInv, OnlyDataTried
      <3>2. Len(queue) = Capacity
        BY <1>0, <1>4, ChannelAssumption
        DEF TrySendFull, Full, WithinCapacity, TypeOK
      <3>3. dropped' = dropped \cup {slot[s]}
        BY <1>4, <2>2 DEF TrySendFull
      <3>4. Link!Refuse(slot[s])
        BY <2>1, <2>2, <3>1, <3>2, <3>3 DEF Link!Refuse
      <3> QED BY <3>1, <3>4 DEF Link!Next
    <2>3. CASE policy # "DropNewest"
      <3>1. dropped' = dropped
        BY <1>4, <2>3 DEF TrySendFull
      <3> QED BY <2>1, <3>1 DEF Link!vars
    <2> QED BY <2>2, <2>3
  <1>5. ASSUME NEW s \in Senders, Evict(s) PROVE [Link!Next]_(Link!vars)
    <2>1. Live' = Live /\ UNCHANGED <<policy, delivered, rx>>
      BY <1>0, <1>5 DEF Evict, EvictFrame, BlockInstead, Live
    <2>2. CASE EvictFrame(s)
      <3>1. PICK i \in 1 .. Len(queue) :
                /\ IsOldestData(i)
                /\ queue' = RemoveAt(queue, i)
                /\ dropped' = dropped \cup {queue[i]}
        BY <2>2 DEF EvictFrame
      <3>2. policy = "DropOldest"
        BY <1>5 DEF Evict, MapInv, OnlyOldestEvicts
      <3>3. Link!EvictOldest(i)
        BY <2>1, <3>1, <3>2
        DEF Link!EvictOldest, IsOldestData, RemoveAt, Link!RemoveAt
      <3> QED BY <3>3 DEF Link!Next
    <2>3. CASE BlockInstead(s)
      BY <2>1, <2>3 DEF BlockInstead, Link!vars
    <2> QED BY <1>5, <2>2, <2>3 DEF Evict
  <1>6. ASSUME rx = "running", Pop PROVE Link!Next
    <2>1. Live' = Live
      BY <1>0, <1>6 DEF Pop, WakeSenders, Live
    <2>2. /\ queue # <<>> /\ delivered' = Append(delivered, Head(queue))
          /\ queue' = Tail(queue) /\ UNCHANGED <<policy, dropped, rx>>
      BY <1>6 DEF Pop
    <2>3. Link!Deliver
      BY <1>6, <2>1, <2>2 DEF Link!Deliver
    <2> QED BY <2>3 DEF Link!Next
  <1>7. ASSUME rx = "running", ReceiveEnd PROVE Link!Next
    <2>1. Live = {} /\ Live' = Live
      BY <1>0, <1>7, ZeroMeansNone DEF ReceiveEnd, Live
    <2>2. /\ queue = <<>> /\ rx' = "ended"
          /\ UNCHANGED <<policy, queue, delivered, dropped>>
      BY <1>7 DEF ReceiveEnd, inner, history
    <2>3. Link!End
      BY <1>7, <2>1, <2>2 DEF Link!End
    <2> QED BY <2>3 DEF Link!Next
  <1>8. ASSUME DropReceiver PROVE Link!Next
    <2>1. Live' = Live
      BY <1>0, <1>8 DEF DropReceiver, WakeSenders, Live
    <2>2. /\ rx # "gone" /\ rx' = "gone" /\ queue' = <<>>
          /\ UNCHANGED <<policy, delivered, dropped>>
      BY <1>8 DEF DropReceiver
    <2>3. Link!Abandon
      BY <2>1, <2>2 DEF Link!Abandon
    <2> QED BY <2>3 DEF Link!Next
  <1> DEFINE Hidden == /\ UNCHANGED <<policy, queue, delivered, dropped>>
                       /\ Live' = Live /\ Side(rx') = Side(rx)
  <1>9. ASSUME NEW s \in Senders,
               \/ \E d \in BOOLEAN : StartPush(s, d)
               \/ tx[s] \in {"trying", "retrying", "sending"} /\ RejectClosed(s)
               \/ tx[s] = "sending" /\ ParkSender(s)
               \/ CancelPush(s)
        PROVE  Hidden
    BY <1>0, <1>9
    DEF StartPush, RejectClosed, ParkSender, CancelPush, Live, inner, history
  <1>10. ASSUME \/ rx = "running" /\ ParkReceiver
                \/ CancelRecv \/ UNCHANGED vars
         PROVE  Hidden
    BY <1>10 DEF ParkReceiver, CancelRecv, vars, inner, history, Live
  <1>11. ASSUME Hidden PROVE UNCHANGED Link!vars
    BY <1>11 DEF Link!vars
  <1> HIDE DEF Hidden, Side
  <1>12. ASSUME NEW s \in Senders, TrySend(s) \/ RetrySend(s) \/ PollSend(s)
         PROVE  [Link!Next]_(Link!vars)
    BY <1>3, <1>4, <1>9, <1>11, <1>12 DEF TrySend, RetrySend, PollSend, Busy
  <1>13. ASSUME TryRecv \/ PollRecv PROVE [Link!Next]_(Link!vars)
    BY <1>6, <1>7, <1>10, <1>11, <1>13 DEF TryRecv, PollRecv
  <1> QED
    BY <1>1, <1>2, <1>5, <1>8, <1>9, <1>10, <1>11, <1>12, <1>13 DEF Next, Freed

(* The lock sections, wakers and polls of channel.rs add up to the bounded *)
(* FIFO a link promises: whatever arms do, the queue is only ever appended *)
(* to at the back, popped at the front, relieved of its oldest data frame  *)
(* when the policy is DropOldest, or given up with its receiver; a frame   *)
(* is refused only by a full DropNewest link, and a Block link loses none. *)
THEOREM ImplementsLinkSafety == Spec => LinkSafety
  <1> DEFINE More == PushesBounded /\ OnlyDataTried /\ OnlyOldestEvicts
  <1>1. Init => More
    BY ChannelAssumption DEF Init, PushesBounded, OnlyDataTried, OnlyOldestEvicts
  <1>2. IInv /\ More /\ [Next]_vars => More'
    BY BoundStep, EvictsStep DEF IInv
  <1>3. IInv /\ Ledger /\ More => MapInv
    BY DEF MapInv
  <1> HIDE DEF More
  <1>4. Spec => []More
    BY <1>1, <1>2, Inductive, PTL DEF Spec
  <1>5. Spec => []MapInv
    BY <1>3, <1>4, Inductive, LedgerBalanced, PTL
  <1>6. MapInv /\ [Next]_vars => [Link!Next]_(Link!vars)
    BY LinkStep
  <1> QED BY <1>5, <1>6, LinkInit, PTL DEF Spec, LinkSafety

=============================================================================
