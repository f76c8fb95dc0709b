------------------------------- MODULE ArmSet -------------------------------
(***************************************************************************)
(* The join that runs a graph (runtime/join.rs): every arm of the pipeline *)
(* is a slot of one ArmSet, polled by one task.  Waking an arm sets its    *)
(* bit and wakes the task only if no wake has reached it since it last     *)
(* polled, so a bit set at the wrong moment could be left with nobody to   *)
(* poll it.                                                                *)
(*                                                                         *)
(* task.open tells the joins apart.  OpenJoin, the graph mutator's, reuses *)
(* the slots of finished later arms and ends with its last arm;            *)
(* DynamicJoin also waits for its control channel to close.  JoinAll is    *)
(* either with nothing ever sent.                                          *)
(*                                                                         *)
(* Each section under the lock of WokenArms is one action.  The executor,  *)
(* the other threads and the control channel are external.                 *)
(***************************************************************************)
EXTENDS Integers, FiniteSets

CONSTANTS Initial,    \* how many arms the join starts with
          MaxSends,   \* bound on the arms sent on the control channel
          Threads,    \* the threads that wake arms from outside
          TaskWakers, \* the wakers an executor may poll the join with
          None,       \* no waker
          Kinds       \* the joins to consider: TRUE is OpenJoin, FALSE DynamicJoin

ASSUME ArmSetAssumption ==
    /\ Initial \in Nat \ {0}   \* a graph has a source
    /\ MaxSends \in Nat
    /\ None \notin TaskWakers
    /\ Kinds \subseteq BOOLEAN

VARIABLES
    arms,        \* each slot: "absent" (not allocated), "live" or "finished"
    live,        \* ArmSet::live
    bits,        \* WokenArms::bits, the slots marked woken
    parent,      \* WokenArms::parent
    parentWoken, \* WokenArms::parent_woken
    task,        \* the join's task: pc, from (where the pass goes on), waker
                 \* (the one it was last polled with), newArms (the control
                 \* channel is not known to be closed), open (OpenJoin)
    scheduled,   \* the executor will poll the task
    queue,       \* arms waiting in the control channel
    sent,        \* arms ever sent on it
    senders,     \* its senders are alive
    recvParked,  \* the join's waker is registered with it
    thr,         \* each thread: the task waker it has yet to call, or None
    outputs      \* how many outputs each slot has produced

vars == <<arms, live, bits, parent, parentWoken, task, scheduled, queue, sent,
          senders, recvParked, thr, outputs>>

(* As many slots as arms are ever taken.                                   *)
Slots == 0 .. Initial + MaxSends - 1
LiveArms == {i \in Slots : arms[i] = "live"}

Init ==
    /\ arms = [i \in Slots |-> IF i < Initial THEN "live" ELSE "absent"]
    /\ live = Initial
    /\ bits = {i \in Slots : i < Initial}
    /\ parent = None
    /\ parentWoken = TRUE
    /\ \E open \in Kinds :
          task = [pc |-> "idle", from |-> 0, waker |-> None, newArms |-> TRUE,
                  open |-> open]
    /\ scheduled = TRUE
    /\ queue = 0
    /\ sent = 0
    /\ senders = TRUE
    /\ recvParked = FALSE
    /\ thr = [t \in Threads |-> None]
    /\ outputs = [i \in Slots |-> 0]

-----------------------------------------------------------------------------
(* The executor polls the join when it was woken, and may also do so for   *)
(* another reason: the task runs other futures beside it.                  *)

BeginPoll(w) ==
    /\ task.pc = "idle"
    /\ task' = [task EXCEPT !.pc = "fold", !.waker = w]
    /\ scheduled' = FALSE
    /\ UNCHANGED <<arms, live, bits, parent, parentWoken, queue, sent, senders,
                   recvParked, thr, outputs>>

-----------------------------------------------------------------------------
(* fold_new_arms and what it adds.                                         *)

(* push: the next slot that was never allocated.                           *)
IsNewSlot(i) == arms[i] = "absent" /\ \A j \in Slots : j < i => arms[j] # "absent"

IsReusedSlot(i) ==
    /\ arms[i] = "finished"
    /\ i >= Initial
    /\ \A j \in Slots : j < i /\ j >= Initial => arms[j] # "finished"

(* push_into_finished_slot, for OpenJoin, prefers a slot to reuse.         *)
TargetSlot(i) ==
    \/ task.open /\ IsReusedSlot(i)
    \/ IsNewSlot(i) /\ ~(task.open /\ \E j \in Slots : IsReusedSlot(j))

(* start: the new arm is marked, and the waker mark returns is discarded.  *)
Start(i) ==
    /\ arms' = [arms EXCEPT ![i] = "live"]
    /\ live' = live + 1
    /\ bits' = bits \cup {i}
    /\ parentWoken' = TRUE

FoldArm ==
    /\ task.pc = "fold"
    /\ task.newArms
    /\ queue > 0
    /\ queue' = queue - 1
    /\ \E i \in Slots : TargetSlot(i) /\ Start(i)
    /\ UNCHANGED <<parent, task, scheduled, sent, senders, recvParked, thr,
                   outputs>>

FoldEndUnparked ==
    /\ task.pc = "fold"
    /\ task.newArms => queue = 0
    /\ recvParked' = FALSE
    /\ task' = [task EXCEPT !.pc = "register", !.newArms = @ /\ senders]
    /\ UNCHANGED <<arms, live, bits, parent, parentWoken, scheduled, queue,
                   sent, senders, thr, outputs>>

(* Nothing more to receive: park in the channel, or see that it closed.    *)
FoldEnd ==
    /\ task.pc = "fold"
    /\ task.newArms => queue = 0
    /\ recvParked' = (task.newArms /\ senders)
    /\ task' = [task EXCEPT !.pc = "register", !.newArms = @ /\ senders]
    /\ UNCHANGED <<arms, live, bits, parent, parentWoken, scheduled, queue,
                   sent, senders, thr, outputs>>

-----------------------------------------------------------------------------
(* poll_woken.                                                             *)

BeginPassStaysWoken ==
    /\ task.pc = "register"
    /\ task' = [task EXCEPT !.pc = "take", !.from = 0]
    /\ parent' = task.waker
    /\ UNCHANGED <<arms, live, bits, parentWoken, scheduled, queue, sent,
                   senders, recvParked, thr, outputs>>

(* The waker of this poll replaces an older one.                           *)
BeginPass ==
    /\ task.pc = "register"
    /\ task' = [task EXCEPT !.pc = "take", !.from = 0]
    /\ parent' = task.waker
    /\ parentWoken' = FALSE
    /\ UNCHANGED <<arms, live, bits, scheduled, queue, sent, senders,
                   recvParked, thr, outputs>>

(* The lowest woken slot at or above from; a finished arm is passed over.  *)
TakeNext ==
    /\ task.pc = "take"
    /\ \E i \in bits :
          /\ i >= task.from
          /\ \A j \in bits : j >= task.from => i <= j
          /\ bits' = bits \ {i}
          /\ task' = [task EXCEPT !.from = i + 1,
                         !.pc = IF arms[i] = "live" THEN "arm" ELSE "take"]
    /\ UNCHANGED <<arms, live, parent, parentWoken, scheduled, queue, sent,
                   senders, recvParked, thr, outputs>>

(* The pass is over: Ready if all_done and nothing more can come.          *)
EndPass ==
    /\ task.pc = "take"
    /\ \A i \in bits : i < task.from
    /\ task' = [task EXCEPT !.pc = IF live = 0 /\ (task.open \/ ~task.newArms)
                                   THEN "done" ELSE "idle"]
    /\ UNCHANGED <<arms, live, bits, parent, parentWoken, scheduled, queue,
                   sent, senders, recvParked, thr, outputs>>

(* The arm being polled is at task.from - 1.                               *)
ArmPending ==
    /\ task.pc = "arm"
    /\ task' = [task EXCEPT !.pc = "take"]
    /\ UNCHANGED <<arms, live, bits, parent, parentWoken, scheduled, queue,
                   sent, senders, recvParked, thr, outputs>>

ArmReady ==
    /\ task.pc = "arm"
    /\ task' = [task EXCEPT !.pc = "take"]
    /\ arms' = [arms EXCEPT ![task.from - 1] = "finished"]
    /\ live' = live - 1
    /\ outputs' = [outputs EXCEPT ![task.from - 1] = @ + 1]
    /\ UNCHANGED <<bits, parent, parentWoken, scheduled, queue, sent, senders,
                   recvParked, thr>>

-----------------------------------------------------------------------------
(* ArmWake::wake.  mark returns the task's waker to the first caller since *)
(* the task polled; it is called once the lock is released.                *)

Mark(i) ==
    /\ bits' = bits \cup {i}
    /\ parentWoken' = TRUE

Returned == IF parentWoken THEN None ELSE parent

(* An arm, while it is polled, wakes an arm of the same join: a push into  *)
(* its link, or itself.                                                    *)
ArmWakes(i) ==
    /\ task.pc = "arm"
    /\ arms[i] # "absent"
    /\ Mark(i)
    /\ scheduled' = (scheduled \/ (Returned = task.waker))
    /\ UNCHANGED <<arms, live, parent, task, queue, sent, senders, recvParked,
                   thr, outputs>>

(* Another thread does, with the waker of a slot that may have been reused *)
(* since, at any moment of the task's poll.                                *)
ThreadMarks(t, i) ==
    /\ thr[t] = None
    /\ arms[i] # "absent"
    /\ Mark(i)
    /\ thr' = [thr EXCEPT ![t] = Returned]
    /\ UNCHANGED <<arms, live, parent, task, scheduled, queue, sent, senders,
                   recvParked, outputs>>

(* Only the waker of the latest poll is sure to schedule the task.         *)
ThreadWakesTask(t) ==
    /\ thr[t] # None
    /\ thr' = [thr EXCEPT ![t] = None]
    /\ scheduled' = (scheduled \/ (thr[t] = task.waker))
    /\ UNCHANGED <<arms, live, bits, parent, parentWoken, task, queue, sent,
                   senders, recvParked, outputs>>

-----------------------------------------------------------------------------
(* The control channel, which wakes the join directly.                     *)

(* A mutation (insert) or a fan-in that grows sends an arm.  A sender that *)
(* waits for room in the channel has not sent yet.                         *)
SendArm ==
    /\ senders
    /\ task.pc # "done"
    /\ sent < MaxSends
    /\ sent' = sent + 1
    /\ queue' = queue + 1
    /\ scheduled' = (scheduled \/ recvParked)
    /\ recvParked' = FALSE
    /\ UNCHANGED <<arms, live, bits, parent, parentWoken, task, senders, thr,
                   outputs>>

CloseControl ==
    /\ senders
    /\ senders' = FALSE
    /\ scheduled' = (scheduled \/ recvParked)
    /\ recvParked' = FALSE
    /\ UNCHANGED <<arms, live, bits, parent, parentWoken, task, queue, sent,
                   thr, outputs>>

-----------------------------------------------------------------------------
PollStep ==
    FoldArm \/ FoldEnd \/ BeginPass \/ TakeNext \/ EndPass \/ ArmPending \/ ArmReady

Next ==
    \/ \E w \in TaskWakers : BeginPoll(w)
    \/ PollStep
    \/ \E i \in Slots : ArmWakes(i)
    \/ \E t \in Threads : \/ \E i \in Slots : ThreadMarks(t, i)
                          \/ ThreadWakesTask(t)
    \/ SendArm
    \/ CloseControl

(* The executor polls a scheduled task, a poll that began goes on, an arm's*)
(* poll returns and a thread that holds a waker calls it.                  *)
Fairness ==
    /\ WF_vars(scheduled /\ \E w \in TaskWakers : BeginPoll(w))
    /\ WF_vars(PollStep)
    /\ WF_vars(task.pc = "arm" /\ (ArmPending \/ ArmReady))
    /\ \A t \in Threads : WF_vars(ThreadWakesTask(t))

Spec == Init /\ [][Next]_vars /\ Fairness
-----------------------------------------------------------------------------
(* Properties.                                                             *)

(* Every variable holds a value of its kind, and slots are allocated in    *)
(* order.                                                                  *)
TypeOK ==
    /\ arms \in [Slots -> {"absent", "live", "finished"}]
    /\ \A i, j \in Slots : i < j /\ arms[i] = "absent" => arms[j] = "absent"
    /\ live \in Nat
    /\ bits \subseteq {i \in Slots : arms[i] # "absent"}
    /\ parent \in TaskWakers \cup {None}
    /\ parentWoken \in BOOLEAN
    /\ task \in [pc : {"idle", "fold", "register", "take", "arm", "done"},
                 from : Nat, waker : TaskWakers \cup {None}, newArms : BOOLEAN,
                 open : BOOLEAN]
    /\ scheduled \in BOOLEAN
    /\ queue \in Nat
    /\ sent \in Nat
    /\ senders \in BOOLEAN
    /\ recvParked \in BOOLEAN
    /\ thr \in [Threads -> TaskWakers \cup {None}]
    /\ outputs \in [Slots -> Nat]

(* Someone will poll: the task is scheduled, or a thread holds its waker.  *)
WakeOnItsWay ==
    scheduled \/ \E t \in Threads : thr[t] # None /\ thr[t] = task.waker

(* Between polls no woken arm is stranded: if an arm's bit is set, the     *)
(* task is scheduled or is about to be.  Waking suppressed by parent_woken *)
(* (join.rs, mark) never costs an arm its poll.                            *)
NoStrandedArm ==
    task.pc = "idle" /\ bits # {} => WakeOnItsWay

(* Between polls no sent arm and no closing of the channel is overlooked.  *)
NoStrandedArrival ==
    task.pc = "idle" /\ task.newArms /\ (queue > 0 \/ ~senders) => scheduled

(* The counter all_done reads is the number of unfinished arms: slots are  *)
(* reused, finished arms are woken again, and the count still holds.       *)
LiveCounted == live = Cardinality(LiveArms)

(* The join resolves only when every arm it took has finished, and (for    *)
(* DynamicJoin) every arm sent has been taken.                             *)
JoinsAll ==
    task.pc = "done" =>
        /\ LiveArms = {}
        /\ ~task.open => queue = 0 /\ ~senders

(* An initial arm produces one output, when it finishes: its slot is never *)
(* given to a later arm, whose result would overwrite its own.             *)
InitialResultsOnce ==
    \A i \in Slots :
        i < Initial => outputs[i] = (IF arms[i] = "finished" THEN 1 ELSE 0)

(* Once every arm has finished and no more can come, the join resolves.    *)
JoinResolves ==
    (LiveArms = {} /\ queue = 0 /\ ~senders) ~> (task.pc = "done")

=============================================================================
