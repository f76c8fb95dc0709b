------------------------------ MODULE Channel ------------------------------
(***************************************************************************)
(* The bounded link of g2g-core (runtime/channel.rs): one receiver, one or *)
(* more sender handles, a capacity, and the wakers parked futures leave    *)
(* behind.  Every section the code runs under the channel's lock is one    *)
(* action; between two sections any other arm may run, as it does under    *)
(* the thread-per-arm runner.                                              *)
(*                                                                         *)
(* A sender handle pushes packets the way SenderSink::poll_push does: a    *)
(* Block link, and every control packet, goes through poll_send; a data    *)
(* frame on a leaky link goes through try_send and, under DropOldest,      *)
(* through an eviction in a lock section of its own.                       *)
(*                                                                         *)
(* A packet is known by the handle that pushed it, its place in that       *)
(* handle's order and whether it is a data frame.  delivered, dropped and  *)
(* shed are history variables: what the receiver got, what the link policy *)
(* dropped, and what was lost with a cancelled push or a dead receiver.    *)
(***************************************************************************)
EXTENDS Integers, FiniteSets, SequencesExt

CONSTANTS Senders,      \* names for sender handles
          Original,     \* the handle `bounded` returns
          Capacity,     \* the channel's capacity
          Policies,     \* the link policies to consider
          MaxPush       \* bound on the pushes of all handles

ASSUME ChannelAssumption ==
    /\ IsFiniteSet(Senders)
    /\ Original \in Senders
    /\ Capacity \in Nat \ {0}
    /\ Policies \subseteq {"Block", "DropOldest", "DropNewest"}
    /\ MaxPush \in Nat

VARIABLES policy,       \* the link's LinkPolicy, fixed when the link is made
          queue,        \* Inner::queue
          senders,      \* Inner::senders, a count
          receivers,    \* Inner::receivers, a count
          sendWakers,   \* Inner::send_wakers: the handles whose waker is held
          recvWaker,    \* Inner::recv_waker.is_some()
          tx,           \* where each sender handle stands
          slot,         \* the packet each handle is pushing
          count,        \* pushes begun on each handle
          rx,           \* where the receiver stands
          delivered,    \* history: packets received, in order
          dropped,      \* history: packets the link policy dropped
          shed          \* history: packets lost to cancellation or closing

inner == <<queue, senders, receivers, sendWakers, recvWaker>>
history == <<delivered, dropped, shed>>
vars == <<policy, inner, tx, slot, count, rx, history>>

Packet == [src : Senders, num : Nat, data : BOOLEAN]

(* "trying", "evicting" and "retrying" are the lock sections of a leaky    *)
(* push; "sending" is about to be polled, "parked" waits for a wake.       *)
TxStates == {"none", "idle", "trying", "evicting", "retrying", "sending",
             "parked", "gone"}
RxStates == {"running", "parked", "ended", "gone"}

Live == {s \in Senders : tx[s] \notin {"none", "gone"}}
Busy(s) == tx[s] \in {"trying", "evicting", "retrying", "sending", "parked"}

Pushes == Cardinality({p \in Senders \X (1 .. MaxPush) : p[2] <= count[p[1]]})

Full == Len(queue) >= Capacity
Closed == receivers = 0

Init ==
    /\ policy \in Policies
    /\ queue = <<>>
    /\ senders = 1
    /\ receivers = 1
    /\ sendWakers = {}
    /\ recvWaker = FALSE
    /\ tx = [s \in Senders |-> IF s = Original THEN "idle" ELSE "none"]
    /\ slot = [s \in Senders |-> [src |-> s, num |-> 0, data |-> FALSE]]
    /\ count = [s \in Senders |-> 0]
    /\ rx = "running"
    /\ delivered = <<>>
    /\ dropped = {}
    /\ shed = {}

-----------------------------------------------------------------------------
(* Wakes.  Waking a parked future makes it runnable; waking any other is   *)
(* harmless, which is what a waker left by a cancelled future does.        *)

WakeOneSender ==
    /\ sendWakers' = {}
    /\ tx' = [s \in Senders |->
                IF /\ s \in sendWakers /\ tx[s] = "parked"
                   /\ s = CHOOSE w \in sendWakers : TRUE
                THEN "sending" ELSE tx[s]]

WakeSenders ==
    /\ sendWakers' = {}
    /\ tx' = [s \in Senders |-> IF s \in sendWakers /\ tx[s] = "parked"
                                THEN "sending" ELSE tx[s]]

WakeReceiver ==
    /\ recvWaker' = FALSE
    /\ rx' = IF recvWaker /\ rx = "parked" THEN "running" ELSE rx

-----------------------------------------------------------------------------
(* Sender handles.                                                         *)

(* Sender::clone.  Only Block links are ever given a second handle.        *)
CloneSender(s) ==
    /\ policy = "Block"
    /\ Live # {}
    /\ tx[s] = "none"
    /\ tx' = [tx EXCEPT ![s] = "idle"]
    /\ senders' = senders + 1
    /\ UNCHANGED <<policy, queue, receivers, sendWakers, recvWaker, slot,
                   count, rx, history>>

DropSenderSilently(s) ==
    /\ tx[s] = "idle"
    /\ tx' = [tx EXCEPT ![s] = "gone"]
    /\ senders' = senders - 1
    /\ UNCHANGED <<policy, queue, receivers, sendWakers, recvWaker, slot, count,
                   rx, history>>

(* Drop for Sender: the last handle wakes the receiver.                    *)
DropSender(s) ==
    /\ tx[s] = "idle"
    /\ tx' = [tx EXCEPT ![s] = "gone"]
    /\ senders' = senders - 1
    /\ IF senders' = 0 THEN WakeReceiver ELSE UNCHANGED <<recvWaker, rx>>
    /\ UNCHANGED <<policy, queue, receivers, sendWakers, slot, count, history>>

(* poll_push, up to its first lock section: a data frame on a leaky link   *)
(* tries, everything else sends.                                           *)
StartPush(s, isData) ==
    /\ tx[s] = "idle"
    /\ Pushes < MaxPush
    /\ count' = [count EXCEPT ![s] = @ + 1]
    /\ slot' = [slot EXCEPT ![s] = [src |-> s, num |-> count[s] + 1,
                                    data |-> isData]]
    /\ tx' = [tx EXCEPT ![s] = IF isData /\ policy # "Block"
                               THEN "trying" ELSE "sending"]
    /\ UNCHANGED <<policy, inner, rx, history>>

EnqueueKeepsPhase(s) ==
    /\ ~Closed /\ ~Full
    /\ queue' = Append(queue, slot[s])
    /\ WakeReceiver
    /\ UNCHANGED <<policy, senders, receivers, sendWakers, tx, slot, count,
                   history>>

EnqueueFront(s) ==
    /\ ~Closed /\ ~Full
    /\ queue' = <<slot[s]>> \o queue
    /\ WakeReceiver
    /\ tx' = [tx EXCEPT ![s] = "idle"]
    /\ UNCHANGED <<policy, senders, receivers, sendWakers, slot, count,
                   history>>

(* The body try_send and poll_send share when there is room.               *)
Enqueue(s) ==
    /\ ~Closed
    /\ ~Full
    /\ queue' = Append(queue, slot[s])
    /\ WakeReceiver
    /\ tx' = [tx EXCEPT ![s] = "idle"]
    /\ UNCHANGED <<policy, senders, receivers, sendWakers, slot, count,
                   history>>

(* The push fails with Shutdown: its packet dies with it.                  *)
RejectClosed(s) ==
    /\ Closed
    /\ tx' = [tx EXCEPT ![s] = "idle"]
    /\ shed' = shed \cup {slot[s]}
    /\ UNCHANGED <<policy, inner, slot, count, rx, delivered, dropped>>

TrySendFull(s) ==
    /\ ~Closed
    /\ Full
    /\ IF policy = "DropNewest"
         THEN /\ dropped' = dropped \cup {slot[s]}
              /\ tx' = [tx EXCEPT ![s] = "idle"]
         ELSE /\ tx' = [tx EXCEPT ![s] = "evicting"]
              /\ UNCHANGED dropped
    /\ UNCHANGED <<policy, inner, slot, count, rx, delivered, shed>>

(* The first try_send of a leaky push.                                     *)
TrySend(s) ==
    /\ tx[s] = "trying"
    /\ Enqueue(s) \/ RejectClosed(s) \/ TrySendFull(s)

(* evict_front_matching picks the front-most queued data frame.            *)
IsOldestData(i) ==
    queue[i].data /\ \A j \in 1 .. i - 1 : ~queue[j].data

EvictFrame(s) ==
    \E i \in 1 .. Len(queue) :
        /\ IsOldestData(i)
        /\ queue' = RemoveAt(queue, i)
        /\ dropped' = dropped \cup {queue[i]}
        /\ tx' = [tx EXCEPT ![s] = "retrying"]

(* Only control packets are queued: block rather than drop one.            *)
RetryAnyway(s) ==
    /\ \A i \in 1 .. Len(queue) : ~queue[i].data
    /\ tx' = [tx EXCEPT ![s] = "retrying"]
    /\ UNCHANGED <<queue, dropped>>

BlockInstead(s) ==
    /\ \A i \in 1 .. Len(queue) : ~queue[i].data
    /\ tx' = [tx EXCEPT ![s] = "sending"]
    /\ UNCHANGED <<queue, dropped>>

(* The eviction, in a lock section of its own; no waker is signalled.      *)
Evict(s) ==
    /\ tx[s] = "evicting"
    /\ EvictFrame(s) \/ BlockInstead(s)
    /\ UNCHANGED <<policy, senders, receivers, sendWakers, recvWaker, slot,
                   count, rx, delivered, shed>>

(* The second try_send.  Its Full arm is unreachable!, so a full open      *)
(* queue here would be a panic: EvictionFreesASlot.                        *)
RetrySend(s) ==
    /\ tx[s] = "retrying"
    /\ Enqueue(s) \/ RejectClosed(s)

(* poll_send with no room: leave a waker, once.                            *)
ParkSender(s) ==
    /\ ~Closed
    /\ Full
    /\ sendWakers' = sendWakers \cup {s}
    /\ tx' = [tx EXCEPT ![s] = "parked"]
    /\ UNCHANGED <<policy, queue, senders, receivers, recvWaker, slot, count,
                   rx, history>>

PollSend(s) ==
    /\ tx[s] = "sending"
    /\ Enqueue(s) \/ RejectClosed(s) \/ ParkSender(s)

(* A push dropped mid-send: its packet dies with its future, its waker     *)
(* stays in the channel.                                                   *)
CancelPush(s) ==
    /\ tx[s] \in {"sending", "parked"}
    /\ tx' = [tx EXCEPT ![s] = "idle"]
    /\ shed' = shed \cup {slot[s]}
    /\ UNCHANGED <<policy, inner, slot, count, rx, delivered, dropped>>

-----------------------------------------------------------------------------
(* The receiver.                                                           *)

(* The pop recv and try_recv share: every parked sender is woken.          *)
Pop ==
    /\ queue # <<>>
    /\ delivered' = Append(delivered, Head(queue))
    /\ queue' = Tail(queue)
    /\ WakeSenders
    /\ UNCHANGED <<policy, senders, receivers, recvWaker, slot, count, rx,
                   dropped, shed>>

TryRecv ==
    /\ rx = "running"
    /\ Pop

ReceiveEnd ==
    /\ queue = <<>>
    /\ senders = 0
    /\ rx' = "ended"
    /\ UNCHANGED <<policy, inner, tx, slot, count, history>>

ParkReceiver ==
    /\ queue = <<>>
    /\ senders # 0
    /\ recvWaker' = TRUE
    /\ rx' = "parked"
    /\ UNCHANGED <<policy, queue, senders, receivers, sendWakers, tx, slot,
                   count, history>>

(* RecvFuture::poll.                                                       *)
PollRecv ==
    /\ rx = "running"
    /\ Pop \/ ReceiveEnd \/ ParkReceiver

(* A recv that lost a Select2 is dropped and made again: the arm runs on,  *)
(* the waker stays in the channel.                                         *)
CancelRecv ==
    /\ rx = "parked"
    /\ rx' = "running"
    /\ UNCHANGED <<policy, inner, tx, slot, count, history>>

(* Drop for Receiver: parked senders are woken to see Closed, and what is  *)
(* still queued is released.                                               *)
DropReceiver ==
    /\ rx # "gone"
    /\ receivers' = receivers - 1
    /\ WakeSenders
    /\ shed' = shed \cup Range(queue)
    /\ queue' = <<>>
    /\ rx' = "gone"
    /\ UNCHANGED <<policy, senders, recvWaker, slot, count, delivered, dropped>>

-----------------------------------------------------------------------------
SenderStep(s) == TrySend(s) \/ Evict(s) \/ RetrySend(s) \/ PollSend(s)

(* Both sides are gone: the channel is freed.                              *)
Freed ==
    /\ Live = {}
    /\ rx = "gone"
    /\ UNCHANGED vars

Next ==
    \/ \E s \in Senders :
          \/ CloneSender(s)
          \/ DropSender(s)
          \/ \E isData \in BOOLEAN : StartPush(s, isData)
          \/ TrySend(s)
          \/ Evict(s)
          \/ RetrySend(s)
          \/ PollSend(s)
          \/ CancelPush(s)
    \/ TryRecv
    \/ PollRecv
    \/ CancelRecv
    \/ DropReceiver
    \/ Freed

(* An executor polls a runnable arm again; nothing makes it start a push,  *)
(* clone, cancel or drop.                                                  *)
Fairness ==
    /\ \A s \in Senders : WF_vars(SenderStep(s))
    /\ WF_vars(PollRecv)

Spec == Init /\ [][Next]_vars /\ Fairness
-----------------------------------------------------------------------------
(* Properties.                                                             *)

(* Every variable holds a value of its kind.                               *)
TypeOK ==
    /\ policy \in Policies
    /\ queue \in Seq(Packet)
    /\ senders \in Nat
    /\ receivers \in {0, 1}
    /\ sendWakers \subseteq Senders
    /\ recvWaker \in BOOLEAN
    /\ tx \in [Senders -> TxStates]
    /\ slot \in [Senders -> Packet]
    /\ count \in [Senders -> Nat]
    /\ rx \in RxStates
    /\ delivered \in Seq(Packet)
    /\ dropped \subseteq Packet
    /\ shed \subseteq Packet

(* A parked future always has a wake coming: a parked receiver has its     *)
(* waker in the channel, nothing queued and a sender left; a parked sender *)
(* has its waker in the channel and still faces a full, open queue.        *)
NoLostWakeup ==
    /\ rx = "parked" => recvWaker /\ queue = <<>> /\ senders > 0
    /\ \A s \in Senders :
          tx[s] = "parked" => s \in sendWakers /\ Full /\ ~Closed

(* The handle count the last-drop wake is decided by is the number of      *)
(* handles there are, however they were cloned and dropped.                *)
SendersCounted == senders = Cardinality(Live)

(* The unreachable! of the DropOldest retry really is: between the         *)
(* eviction and the retry nothing can fill the slot it freed.              *)
EvictionFreesASlot ==
    \A s \in Senders : tx[s] = "retrying" => Closed \/ ~Full

(* Everything accepted and not evicted, in the order it was accepted.      *)
Stream == delivered \o queue

(* How many places packet n of handle s is in at once.                     *)
Places(s, n) ==
    LET Is(p) == p.src = s /\ p.num = n
    IN  Cardinality({i \in DOMAIN Stream : Is(Stream[i])})
          + Cardinality({p \in dropped \cup shed : Is(p)})
          + (IF Busy(s) /\ Is(slot[s]) THEN 1 ELSE 0)

(* A push is neither lost nor doubled: each packet is being pushed, queued, *)
(* delivered, dropped by policy or lost with its push, and only one of     *)
(* these.                                                                  *)
EachPacketOnce ==
    \A s \in Senders : \A n \in 1 .. count[s] : Places(s, n) = 1

(* A handle's packets leave in the order they were pushed, evictions,      *)
(* parked retries and cancelled pushes notwithstanding.                    *)
PerSenderOrder ==
    \A i, j \in DOMAIN Stream :
        i < j /\ Stream[i].src = Stream[j].src => Stream[i].num < Stream[j].num

(* The receiver is told the stream ended only when no sender is left and   *)
(* everything accepted was delivered, and that stays so.                   *)
EndIsFinal ==
    rx = "ended" => Live = {} /\ queue = <<>>

(* The link keeps what AbstractLink promises, its liveness included.       *)
Link == INSTANCE AbstractLink WITH
    open <- Live,
    rx <- IF rx \in {"running", "parked"} THEN "open" ELSE rx

ImplementsLink == Link!Spec
=============================================================================
