---------------------------- MODULE AbstractLink ----------------------------
(***************************************************************************)
(* What a link promises the two arms it joins, with no lock, waker or poll *)
(* in sight: a bounded FIFO that delivers what it accepted while its       *)
(* receiver lives, that loses a data frame only as its policy says (a      *)
(* Block link none, and no link a control packet), and that tells the      *)
(* receiver the stream ended once every sender is closed and the queue has *)
(* drained.                                                                *)
(***************************************************************************)
EXTENDS Integers, SequencesExt

CONSTANTS Senders, Capacity, Policies, MaxPush

VARIABLES policy, queue, delivered, dropped, open, rx

vars == <<policy, queue, delivered, dropped, open, rx>>

Packet == [src : Senders, num : 1 .. MaxPush, data : BOOLEAN]

Init ==
    /\ policy \in Policies
    /\ queue = <<>>
    /\ delivered = <<>>
    /\ dropped = {}
    /\ \E s \in Senders : open = {s}
    /\ rx = "open"

Open(s) ==
    /\ open # {}
    /\ s \notin open
    /\ open' = open \cup {s}
    /\ UNCHANGED <<policy, queue, delivered, dropped, rx>>

Close(s) ==
    /\ s \in open
    /\ open' = open \ {s}
    /\ UNCHANGED <<policy, queue, delivered, dropped, rx>>

Accept(p) ==
    /\ rx = "open"
    /\ p.src \in open
    /\ Len(queue) < Capacity
    /\ queue' = Append(queue, p)
    /\ UNCHANGED <<policy, delivered, dropped, open, rx>>

(* A DropNewest link at capacity refuses a data frame.                     *)
Refuse(p) ==
    /\ policy = "DropNewest"
    /\ p.data
    /\ Len(queue) = Capacity
    /\ dropped' = dropped \cup {p}
    /\ UNCHANGED <<policy, queue, delivered, open, rx>>

(* A DropOldest link gives up the oldest data frame it holds, and only     *)
(* that.                                                                   *)
EvictOldest(i) ==
    /\ policy = "DropOldest"
    /\ queue[i].data
    /\ \A j \in 1 .. i - 1 : ~queue[j].data
    /\ dropped' = dropped \cup {queue[i]}
    /\ queue' = RemoveAt(queue, i)
    /\ UNCHANGED <<policy, delivered, open, rx>>

Deliver ==
    /\ rx = "open"
    /\ queue # <<>>
    /\ delivered' = Append(delivered, Head(queue))
    /\ queue' = Tail(queue)
    /\ UNCHANGED <<policy, dropped, open, rx>>

End ==
    /\ rx = "open"
    /\ open = {}
    /\ queue = <<>>
    /\ rx' = "ended"
    /\ UNCHANGED <<policy, queue, delivered, dropped, open>>

Abandon ==
    /\ rx # "gone"
    /\ rx' = "gone"
    /\ queue' = <<>>
    /\ UNCHANGED <<policy, delivered, dropped, open>>

Next ==
    \/ \E s \in Senders : Open(s) \/ Close(s)
    \/ \E p \in Packet : Accept(p) \/ Refuse(p)
    \/ \E i \in 1 .. Len(queue) : EvictOldest(i)
    \/ Deliver
    \/ End
    \/ Abandon

Spec == Init /\ [][Next]_vars /\ WF_vars(Deliver) /\ WF_vars(End)
=============================================================================
