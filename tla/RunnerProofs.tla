---------------------------- MODULE RunnerProofs ----------------------------
(***************************************************************************)
(* Proofs about the runner's tasks: the join of ArmSet, for any number of  *)
(* arms, of sends, of waking threads and of task wakers, and what a source *)
(* arm sleeps on (SourceWait), for every number of sources, buffers,       *)
(* frames and releases.  The two are proved apart.                         *)
(***************************************************************************)
EXTENDS ArmSet, SourceWait, FiniteSetTheorems, TLAPS

(* Whose waker is registered, and what parent_woken stands for.            *)
WakerInv ==
    /\ task.waker = None => task.pc = "idle" /\ scheduled
    /\ task.pc \in {"take", "arm", "idle"} => parent = task.waker
    /\ task.pc \in {"take", "arm", "idle"} /\ parentWoken => WakeOnItsWay

(* A bit the running pass will not reach was set with a wake.              *)
PassInv ==
    /\ task.pc \in {"take", "arm"} =>
          \A i \in bits : i >= task.from \/ parentWoken
    /\ task.pc = "idle" => \A i \in bits : parentWoken
    /\ task.pc = "arm" => /\ task.from - 1 \in Slots
                          /\ arms[task.from - 1] = "live"

(* What the join knows of its control channel.                             *)
ControlInv ==
    /\ recvParked => queue = 0 /\ senders
    /\ ~task.newArms => queue = 0 /\ ~senders
    /\ task.newArms /\ task.pc # "fold" => recvParked \/ scheduled

(* What the join has when it resolves.                                     *)
DoneInv == task.pc = "done" => live = 0 /\ (task.open \/ ~task.newArms)

IInv == /\ TypeOK /\ WakerInv /\ PassInv /\ ControlInv /\ DoneInv
        /\ LiveCounted /\ InitialResultsOnce

-----------------------------------------------------------------------------
(* Slots, and so the live arms, are finite in number.                      *)
LEMMA SlotsFinite == IsFiniteSet(Slots) /\ IsFiniteSet(LiveArms)
<1>1. IsFiniteSet(Slots)
  BY FS_Interval, ArmSetAssumption DEF Slots
<1>2. LiveArms \subseteq Slots
  BY DEF LiveArms
<1> QED
  BY <1>1, <1>2, FS_Subset

(* The states the join starts in satisfy the invariant.                    *)
LEMMA InitIInv == Init => IInv
<1> SUFFICES ASSUME Init PROVE IInv
  OBVIOUS
<1> USE ArmSetAssumption
<1>1. TypeOK
  <2>1. arms \in [Slots -> {"absent", "live", "finished"}]
    BY DEF Init
  <2>2. \A i, j \in Slots : i < j /\ arms[i] = "absent" => arms[j] = "absent"
    BY DEF Init, Slots
  <2>3. bits \subseteq {i \in Slots : arms[i] # "absent"}
    BY DEF Init
  <2>4. task \in [pc : {"idle", "fold", "register", "take", "arm", "done"},
                  from : Nat, waker : TaskWakers \cup {None}, newArms : BOOLEAN,
                  open : BOOLEAN]
    <3>1. PICK open \in Kinds :
             task = [pc |-> "idle", from |-> 0, waker |-> None, newArms |-> TRUE,
                     open |-> open]
      BY DEF Init
    <3>2. open \in BOOLEAN
      BY <3>1
    <3> QED
      BY <3>1, <3>2
  <2> QED
    BY <2>1, <2>2, <2>3, <2>4 DEF Init, TypeOK
<1>2. WakerInv
  BY DEF Init, WakerInv, WakeOnItsWay
<1>3. PassInv
  BY DEF Init, PassInv
<1>4. ControlInv /\ DoneInv
  BY DEF Init, ControlInv, DoneInv
<1>5. LiveCounted
  <2>1. LiveArms = 0 .. Initial - 1
    BY DEF Init, LiveArms, Slots
  <2>2. Cardinality(0 .. Initial - 1) = Initial
    BY FS_Interval
  <2> QED
    BY <2>1, <2>2 DEF Init, LiveCounted
<1>6. InitialResultsOnce
  BY DEF Init, InitialResultsOnce, Slots
<1> QED
  BY <1>1, <1>2, <1>3, <1>4, <1>5, <1>6 DEF IInv

-----------------------------------------------------------------------------
(* Marking a slot and starting one.                                        *)

(* An action that leaves arms and live alone keeps the count.              *)
LEMMA CountKept ==
  ASSUME LiveCounted, UNCHANGED <<arms, live>>
  PROVE  LiveCounted'
  BY DEF LiveCounted, LiveArms

(* Starting an arm in a slot that holds none adds one to the count.        *)
LEMMA StartCounts ==
  ASSUME TypeOK, LiveCounted, NEW i \in Slots, TargetSlot(i), Start(i)
  PROVE  LiveCounted'
<1>1. i \notin LiveArms
  BY DEF TargetSlot, IsNewSlot, IsReusedSlot, LiveArms
<1>2. LiveArms' = LiveArms \cup {i}
  BY DEF Start, LiveArms, TypeOK
<1>3. Cardinality(LiveArms \cup {i}) = Cardinality(LiveArms) + 1
  BY <1>1, SlotsFinite, FS_AddElement
<1> QED
  BY <1>2, <1>3 DEF Start, LiveCounted

(* An arm that finishes is taken off the count.                            *)
LEMMA ReadyCounts ==
  ASSUME TypeOK, PassInv, LiveCounted, ArmReady
  PROVE  LiveCounted' /\ live > 0
<1> DEFINE i == task.from - 1
<1>1. i \in LiveArms
  BY DEF PassInv, ArmReady, LiveArms
<1>2. LiveArms' = LiveArms \ {i}
  BY <1>1 DEF ArmReady, LiveArms, TypeOK
<1>3. Cardinality(LiveArms \ {i}) = Cardinality(LiveArms) - 1
  BY <1>1, SlotsFinite, FS_RemoveElement
<1>4. Cardinality(LiveArms) # 0
  BY <1>1, SlotsFinite, FS_EmptySet
<1>5. LiveCounted'
  BY <1>2, <1>3 DEF ArmReady, LiveCounted
<1>6. live > 0
  BY <1>4 DEF LiveCounted, TypeOK
<1> QED
  BY <1>5, <1>6

-----------------------------------------------------------------------------
(* Every step keeps the type invariant.                                    *)
LEMMA TypeStep ==
  ASSUME IInv, [Next]_vars
  PROVE  TypeOK'
<1> USE ArmSetAssumption DEF IInv
<1>1. ASSUME NEW w \in TaskWakers, BeginPoll(w) PROVE TypeOK'
  BY <1>1 DEF TypeOK, BeginPoll
<1>2. CASE FoldArm
  <2>1. PICK i \in Slots : TargetSlot(i) /\ Start(i)
    BY <1>2 DEF FoldArm
  <2>2. \A j \in Slots : j < i => arms[j] # "absent"
    BY <2>1 DEF TargetSlot, IsNewSlot, IsReusedSlot, TypeOK, Slots
  <2> QED
    BY <1>2, <2>1, <2>2 DEF TypeOK, FoldArm, Start, Slots
<1>3. CASE FoldEnd
  BY <1>3 DEF TypeOK, FoldEnd
<1>4. CASE BeginPass
  BY <1>4 DEF TypeOK, BeginPass
<1>5. CASE TakeNext
  <2>1. PICK i \in bits : /\ bits' = bits \ {i}
                          /\ task' = [task EXCEPT !.from = i + 1,
                                !.pc = IF arms[i] = "live" THEN "arm" ELSE "take"]
    BY <1>5 DEF TakeNext
  <2>2. i + 1 \in Nat
    BY DEF TypeOK, Slots
  <2> QED
    BY <1>5, <2>1, <2>2 DEF TypeOK, TakeNext
<1>6. CASE EndPass
  BY <1>6 DEF TypeOK, EndPass
<1>7. CASE ArmPending
  BY <1>7 DEF TypeOK, ArmPending
<1>8. CASE ArmReady
  <2>1. live - 1 \in Nat
    BY <1>8, ReadyCounts DEF TypeOK
  <2> QED
    BY <1>8, <2>1 DEF TypeOK, ArmReady, PassInv
<1>9. ASSUME NEW i \in Slots, ArmWakes(i) PROVE TypeOK'
  BY <1>9 DEF TypeOK, ArmWakes, Mark, Returned
<1>10. ASSUME NEW t \in Threads, NEW i \in Slots, ThreadMarks(t, i) PROVE TypeOK'
  BY <1>10 DEF TypeOK, ThreadMarks, Mark, Returned
<1>11. ASSUME NEW t \in Threads, ThreadWakesTask(t) PROVE TypeOK'
  BY <1>11 DEF TypeOK, ThreadWakesTask
<1>12. CASE SendArm
  <2>1. scheduled' \in BOOLEAN /\ recvParked' \in BOOLEAN
    BY <1>12 DEF SendArm
  <2> QED
    BY <1>12, <2>1 DEF TypeOK, SendArm
<1>13. CASE CloseControl
  BY <1>13 DEF TypeOK, CloseControl
<1>14. CASE UNCHANGED vars
  BY <1>14 DEF TypeOK, vars
<1> QED
  BY <1>1, <1>2, <1>3, <1>4, <1>5, <1>6, <1>7, <1>8, <1>9, <1>10, <1>11, <1>12,
     <1>13, <1>14 DEF Next, PollStep

(* Every step keeps the task's waker registered and its wake on the way.   *)
LEMMA WakerStep ==
  ASSUME IInv, [Next]_vars
  PROVE  WakerInv'
<1> USE ArmSetAssumption DEF IInv
<1>1. ASSUME NEW w \in TaskWakers, BeginPoll(w) PROVE WakerInv'
  BY <1>1 DEF TypeOK, WakerInv, WakeOnItsWay, BeginPoll
<1>2. CASE FoldArm
  BY <1>2 DEF TypeOK, WakerInv, WakeOnItsWay, FoldArm, Start
<1>3. CASE FoldEnd
  BY <1>3 DEF TypeOK, WakerInv, WakeOnItsWay, FoldEnd
<1>4. CASE BeginPass
  BY <1>4 DEF TypeOK, WakerInv, WakeOnItsWay, BeginPass
<1>5. CASE TakeNext
  BY <1>5 DEF TypeOK, WakerInv, WakeOnItsWay, TakeNext, Slots
<1>6. CASE EndPass
  BY <1>6 DEF TypeOK, WakerInv, WakeOnItsWay, EndPass
<1>7. CASE ArmPending
  BY <1>7 DEF TypeOK, WakerInv, WakeOnItsWay, ArmPending
<1>8. CASE ArmReady
  BY <1>8 DEF TypeOK, WakerInv, WakeOnItsWay, ArmReady
<1>9. ASSUME NEW i \in Slots, ArmWakes(i) PROVE WakerInv'
  BY <1>9 DEF TypeOK, WakerInv, WakeOnItsWay, ArmWakes, Mark, Returned
<1>10. ASSUME NEW t \in Threads, NEW i \in Slots, ThreadMarks(t, i) PROVE WakerInv'
  BY <1>10 DEF TypeOK, WakerInv, WakeOnItsWay, ThreadMarks, Mark, Returned
<1>11. ASSUME NEW t \in Threads, ThreadWakesTask(t) PROVE WakerInv'
  BY <1>11 DEF TypeOK, WakerInv, WakeOnItsWay, ThreadWakesTask
<1>12. CASE SendArm
  BY <1>12 DEF TypeOK, WakerInv, WakeOnItsWay, SendArm
<1>13. CASE CloseControl
  BY <1>13 DEF TypeOK, WakerInv, WakeOnItsWay, CloseControl
<1>14. CASE UNCHANGED vars
  BY <1>14 DEF TypeOK, WakerInv, WakeOnItsWay, vars
<1> QED
  BY <1>1, <1>2, <1>3, <1>4, <1>5, <1>6, <1>7, <1>8, <1>9, <1>10, <1>11, <1>12,
     <1>13, <1>14 DEF Next, PollStep

(* Every step keeps the bits a pass has gone by covered by a wake.         *)
LEMMA PassStep ==
  ASSUME IInv, [Next]_vars
  PROVE  PassInv'
<1> USE ArmSetAssumption DEF IInv
<1>1. ASSUME NEW w \in TaskWakers, BeginPoll(w) PROVE PassInv'
  BY <1>1 DEF TypeOK, PassInv, BeginPoll
<1>2. CASE FoldArm
  BY <1>2 DEF TypeOK, PassInv, FoldArm, Start
<1>3. CASE FoldEnd
  BY <1>3 DEF TypeOK, PassInv, FoldEnd
<1>4. CASE BeginPass
  BY <1>4 DEF TypeOK, PassInv, BeginPass, Slots
<1>5. CASE TakeNext
  BY <1>5 DEF TypeOK, PassInv, TakeNext, Slots
<1>6. CASE EndPass
  BY <1>6 DEF TypeOK, PassInv, EndPass, Slots
<1>7. CASE ArmPending
  BY <1>7 DEF TypeOK, PassInv, ArmPending
<1>8. CASE ArmReady
  BY <1>8 DEF TypeOK, PassInv, ArmReady
<1>9. ASSUME NEW i \in Slots, ArmWakes(i) PROVE PassInv'
  BY <1>9 DEF TypeOK, PassInv, ArmWakes, Mark, Returned
<1>10. ASSUME NEW t \in Threads, NEW i \in Slots, ThreadMarks(t, i) PROVE PassInv'
  BY <1>10 DEF TypeOK, PassInv, ThreadMarks, Mark, Returned
<1>11. ASSUME NEW t \in Threads, ThreadWakesTask(t) PROVE PassInv'
  BY <1>11 DEF TypeOK, PassInv, ThreadWakesTask
<1>12. CASE SendArm
  BY <1>12 DEF TypeOK, PassInv, SendArm
<1>13. CASE CloseControl
  BY <1>13 DEF TypeOK, PassInv, CloseControl
<1>14. CASE UNCHANGED vars
  BY <1>14 DEF TypeOK, PassInv, vars
<1> QED
  BY <1>1, <1>2, <1>3, <1>4, <1>5, <1>6, <1>7, <1>8, <1>9, <1>10, <1>11, <1>12,
     <1>13, <1>14 DEF Next, PollStep

(* Every step keeps what the join knows of its channel, and of its end.    *)
LEMMA ControlStep ==
  ASSUME IInv, [Next]_vars
  PROVE  ControlInv' /\ DoneInv'
<1> USE ArmSetAssumption DEF IInv
<1>1. ASSUME NEW w \in TaskWakers, BeginPoll(w) PROVE ControlInv' /\ DoneInv'
  BY <1>1 DEF TypeOK, ControlInv, DoneInv, BeginPoll
<1>2. CASE FoldArm
  BY <1>2 DEF TypeOK, ControlInv, DoneInv, FoldArm, Start
<1>3. CASE FoldEnd
  BY <1>3 DEF TypeOK, ControlInv, DoneInv, FoldEnd
<1>4. CASE BeginPass
  BY <1>4 DEF TypeOK, ControlInv, DoneInv, BeginPass
<1>5. CASE TakeNext
  BY <1>5 DEF TypeOK, ControlInv, DoneInv, TakeNext, Slots
<1>6. CASE EndPass
  BY <1>6 DEF TypeOK, ControlInv, DoneInv, EndPass
<1>7. CASE ArmPending
  BY <1>7 DEF TypeOK, ControlInv, DoneInv, ArmPending
<1>8. CASE ArmReady
  BY <1>8 DEF TypeOK, ControlInv, DoneInv, ArmReady
<1>9. ASSUME NEW i \in Slots, ArmWakes(i) PROVE ControlInv' /\ DoneInv'
  BY <1>9 DEF TypeOK, ControlInv, DoneInv, ArmWakes, Mark, Returned
<1>10. ASSUME NEW t \in Threads, NEW i \in Slots, ThreadMarks(t, i) PROVE ControlInv' /\ DoneInv'
  BY <1>10 DEF TypeOK, ControlInv, DoneInv, ThreadMarks, Mark, Returned
<1>11. ASSUME NEW t \in Threads, ThreadWakesTask(t) PROVE ControlInv' /\ DoneInv'
  BY <1>11 DEF TypeOK, ControlInv, DoneInv, ThreadWakesTask
<1>12. CASE SendArm
  BY <1>12 DEF TypeOK, ControlInv, DoneInv, SendArm
<1>13. CASE CloseControl
  BY <1>13 DEF TypeOK, ControlInv, DoneInv, CloseControl
<1>14. CASE UNCHANGED vars
  BY <1>14 DEF TypeOK, ControlInv, DoneInv, vars
<1> QED
  BY <1>1, <1>2, <1>3, <1>4, <1>5, <1>6, <1>7, <1>8, <1>9, <1>10, <1>11, <1>12,
     <1>13, <1>14 DEF Next, PollStep

(* Every step keeps an initial arm's slot its own.                         *)
LEMMA ResultsStep ==
  ASSUME IInv, [Next]_vars
  PROVE  InitialResultsOnce'
<1> USE ArmSetAssumption DEF IInv
<1>1. ASSUME NEW w \in TaskWakers, BeginPoll(w) PROVE InitialResultsOnce'
  BY <1>1 DEF TypeOK, InitialResultsOnce, BeginPoll
<1>2. CASE FoldArm
  <2>1. PICK i \in Slots : TargetSlot(i) /\ Start(i)
    BY <1>2 DEF FoldArm
  <2>2. i < Initial => arms[i] = "absent"
    BY <2>1 DEF TargetSlot, IsNewSlot, IsReusedSlot, Slots
  <2>3. \A j \in Slots : j # i => arms'[j] = arms[j]
    BY <2>1 DEF Start, TypeOK
  <2>4. arms'[i] = "live" /\ outputs' = outputs
    BY <1>2, <2>1 DEF Start, FoldArm, TypeOK
  <2>5. ASSUME NEW j \in Slots, j < Initial
        PROVE  outputs'[j] = (IF arms'[j] = "finished" THEN 1 ELSE 0)
    <3>1. CASE j = i
      BY <2>2, <2>4, <2>5, <3>1 DEF InitialResultsOnce
    <3>2. CASE j # i
      BY <2>3, <2>4, <2>5, <3>2 DEF InitialResultsOnce
    <3> QED
      BY <3>1, <3>2
  <2> QED
    BY <2>5 DEF InitialResultsOnce
<1>3. CASE FoldEnd
  BY <1>3 DEF TypeOK, InitialResultsOnce, FoldEnd
<1>4. CASE BeginPass
  BY <1>4 DEF TypeOK, InitialResultsOnce, BeginPass
<1>5. CASE TakeNext
  BY <1>5 DEF TypeOK, InitialResultsOnce, TakeNext, Slots
<1>6. CASE EndPass
  BY <1>6 DEF TypeOK, InitialResultsOnce, EndPass
<1>7. CASE ArmPending
  BY <1>7 DEF TypeOK, InitialResultsOnce, ArmPending
<1>8. CASE ArmReady
  BY <1>8 DEF TypeOK, InitialResultsOnce, ArmReady, PassInv
<1>9. ASSUME NEW i \in Slots, ArmWakes(i) PROVE InitialResultsOnce'
  BY <1>9 DEF TypeOK, InitialResultsOnce, ArmWakes, Mark, Returned
<1>10. ASSUME NEW t \in Threads, NEW i \in Slots, ThreadMarks(t, i) PROVE InitialResultsOnce'
  BY <1>10 DEF TypeOK, InitialResultsOnce, ThreadMarks, Mark, Returned
<1>11. ASSUME NEW t \in Threads, ThreadWakesTask(t) PROVE InitialResultsOnce'
  BY <1>11 DEF TypeOK, InitialResultsOnce, ThreadWakesTask
<1>12. CASE SendArm
  BY <1>12 DEF TypeOK, InitialResultsOnce, SendArm
<1>13. CASE CloseControl
  BY <1>13 DEF TypeOK, InitialResultsOnce, CloseControl
<1>14. CASE UNCHANGED vars
  BY <1>14 DEF TypeOK, InitialResultsOnce, vars
<1> QED
  BY <1>1, <1>2, <1>3, <1>4, <1>5, <1>6, <1>7, <1>8, <1>9, <1>10, <1>11, <1>12,
     <1>13, <1>14 DEF Next, PollStep

(* Every step keeps the count.                                             *)
LEMMA CountStep ==
  ASSUME IInv, [Next]_vars
  PROVE  LiveCounted'
<1> USE DEF IInv
<1>1. CASE FoldArm
  <2>1. PICK i \in Slots : TargetSlot(i) /\ Start(i)
    BY <1>1 DEF FoldArm
  <2> QED
    BY <2>1, StartCounts
<1>2. CASE ArmReady
  BY <1>2, ReadyCounts
<1>3. CASE ~FoldArm /\ ~ArmReady
  <2>1. UNCHANGED <<arms, live>>
    BY <1>3 DEF Next, PollStep, BeginPoll, FoldEnd, BeginPass, TakeNext, EndPass,
       ArmPending, ArmWakes, ThreadMarks, ThreadWakesTask, SendArm,
       CloseControl, vars
  <2> QED
    BY <2>1, CountKept
<1> QED
  BY <1>1, <1>2, <1>3

-----------------------------------------------------------------------------
(* The invariant is inductive: the join (BeginPoll to EndPass), the wakes  *)
(* (ArmWake) and the control channel all keep it.                          *)
THEOREM Inductive == Spec => []IInv
<1>1. IInv /\ [Next]_vars => IInv'
  BY TypeStep, WakerStep, PassStep, ControlStep, ResultsStep, CountStep DEF IInv
<1> QED
  BY InitIInv, <1>1, PTL DEF Spec

(* Type correctness of the join's state.                                   *)
THEOREM TypeCorrect == Spec => []TypeOK
<1>1. IInv => TypeOK
  BY DEF IInv
<1> QED
  BY <1>1, Inductive, PTL

(* mark's suppression of repeated wakes never strands a woken arm, however *)
(* many arms, threads and wakers there are.                                *)
THEOREM WokenArmsReached == Spec => []NoStrandedArm
<1>1. IInv => NoStrandedArm
  BY DEF IInv, TypeOK, WakerInv, PassInv, NoStrandedArm
<1> QED
  BY <1>1, Inductive, PTL

(* An arm sent to the join, or its channel closing, is always noticed.     *)
THEOREM ArrivalsNoticed == Spec => []NoStrandedArrival
<1>1. IInv => NoStrandedArrival
  BY DEF IInv, TypeOK, ControlInv, NoStrandedArrival
<1> QED
  BY <1>1, Inductive, PTL

(* ArmSet::live is the number of unfinished arms.                          *)
THEOREM ArmsCounted == Spec => []LiveCounted
<1>1. IInv => LiveCounted
  BY DEF IInv
<1> QED
  BY <1>1, Inductive, PTL

(* The join resolves with every arm it took finished.                      *)
THEOREM ResolvesWhenFinished == Spec => []JoinsAll
<1>1. ASSUME IInv PROVE JoinsAll
  <2>1. ASSUME task.pc = "done" PROVE LiveArms = {}
    BY <1>1, <2>1, SlotsFinite, FS_EmptySet DEF IInv, DoneInv, LiveCounted
  <2>2. ASSUME task.pc = "done", ~task.open PROVE queue = 0 /\ ~senders
    BY <1>1, <2>2 DEF IInv, DoneInv, ControlInv
  <2> QED
    BY <2>1, <2>2 DEF JoinsAll
<1> QED
  BY <1>1, Inductive, PTL

(* The result of an initial arm is recorded once and never overwritten.    *)
THEOREM ResultsKept == Spec => []InitialResultsOnce
<1>1. IInv => InitialResultsOnce
  BY DEF IInv
<1> QED
  BY <1>1, Inductive, PTL

-----------------------------------------------------------------------------
(* The source arms.                                                        *)

(* A handle that holds one source.  With two the waker slot is shared, and *)
(* NoForgottenSource does not hold.                                        *)
OneHeld == \A s, t \in HeldSources : s = t

(* A wake has been sent and not been used up.                              *)
Woke(s) == s \in flight \/ (woken[s] /\ (pc[s] = "park" => token[s]))

(* Where an arm is past its own future's poll, and past the end request's. *)
Waiting == {"requested", "wait", "rerequested", "check", "park"}
Sleeping == {"check", "park"}

(* A source that is not over has a frame to make.                          *)
FramesLeft == \A s \in Sources : pc[s] # "ended" => left[s] >= 1

(* Only a held source has a release to wait for.                           *)
HeldOnly ==
    /\ \A s \in Sources : pc[s] \in {"take", "register", "retake"} => s \in held
    /\ \A s \in Sources : pc[s] = "acquire" => s \notin held

(* Waiters are left in the pool only while it is empty.                    *)
PoolInv ==
    /\ waiters # {} => free = {}
    /\ \A s \in Sources : (pc[s] \in Waiting /\ s \notin held) => s \in waiters \/ Woke(s)

(* The waker of a held source is in the slot or has been woken, and once   *)
(* released somebody is about to take it from there.                       *)
ReleaseInv ==
    /\ \A s \in Sources :
          (pc[s] \in Waiting \cup {"retake"} /\ s \in held) => slot = s \/ Woke(s)
    /\ \A s \in Sources :
          (pc[s] \in Waiting /\ s \in held /\ released)
             => Woke(s) \/ (slot = s /\ unblocker = "stored")

(* The same for the request to end the run.                                *)
EndInv ==
    /\ ending.requested <=> ending.sink # "idle"
    /\ \A s \in Sources :
          pc[s] \in {"rerequested"} \cup Sleeping => s \in ending.sources \/ Woke(s)
    /\ \A s \in Sources :
          (pc[s] \in Sleeping /\ ending.requested)
             => Woke(s) \/ (s \in ending.sources /\ ending.sink = "stored")

WaitTypeInv == WaitTypeOK /\ FramesLeft /\ HeldOnly
WaitInv == WaitTypeInv /\ PoolInv /\ ReleaseInv /\ EndInv

-----------------------------------------------------------------------------
(* The types, and what follows from where an arm is, are kept.             *)
LEMMA WaitTypeStep ==
  ASSUME WaitTypeInv, [WaitNext]_waitVars
  PROVE  WaitTypeInv'
<1> USE SourceWaitAssumption DEF WaitTypeInv
<1>1. CASE UNCHANGED waitVars
  BY <1>1 DEF waitVars, WaitTypeOK, FramesLeft, HeldOnly
<1>2. ASSUME NEW s \in Sources, Check(s) \/ Clear(s) PROVE WaitTypeInv'
  <2>1. CASE Check(s)
    BY <2>1 DEF Check, Goto, WaitTypeOK, FramesLeft, HeldOnly, pool, handle
  <2>2. CASE Clear(s)
    BY <2>2 DEF Clear, Goto, Poll, WaitTypeOK, FramesLeft, HeldOnly, pool, handle
  <2> QED BY <1>2, <2>1, <2>2
<1>3. ASSUME NEW s \in Sources, Park(s) PROVE WaitTypeInv'
  BY <1>3 DEF Park, Goto, WaitTypeOK, FramesLeft, HeldOnly, pool, handle
<1>4. ASSUME NEW s \in Sources, Acquire(s) PROVE WaitTypeInv'
  <2>1. CASE free = {} /\ UNCHANGED <<free, out, left, held>>
    BY <1>4, <2>1 DEF Acquire, Goto, WaitTypeOK, FramesLeft, HeldOnly, executor, handle
  <2>2. ASSUME NEW b \in free,
               free' = free \ {b}, out' = out \cup {b}, UNCHANGED waiters,
               left' = [left EXCEPT ![s] = @ - 1],
               held' = held \cup ({s} \cap HeldSources),
               Goto(s, IF left[s] = 1 THEN "ended"
                       ELSE IF s \in HeldSources THEN "take" ELSE "acquire")
        PROVE  WaitTypeInv'
    <3>1. left[s] \in 1..MaxFrames
      BY <1>4 DEF Acquire, WaitTypeOK, FramesLeft
    <3>2. WaitTypeOK'
      BY <1>4, <2>2, <3>1 DEF Acquire, Goto, WaitTypeOK, executor, handle
    <3>3. FramesLeft'
      BY <1>4, <2>2, <3>1 DEF Goto, WaitTypeOK, FramesLeft
    <3>4. HeldOnly'
      BY <1>4, <2>2 DEF Goto, WaitTypeOK, HeldOnly
    <3> QED BY <3>2, <3>3, <3>4
  <2> QED BY <1>4, <2>1, <2>2 DEF Acquire
<1>5. ASSUME NEW s \in Sources, TakeRelease(s) PROVE WaitTypeInv'
  <2>1. CASE released /\ pc[s] \in {"take", "retake"}
    <3>1. WaitTypeOK'
      BY <1>5, <2>1 DEF TakeRelease, Goto, WaitTypeOK, executor, pool
    <3>2. FramesLeft'
      BY <1>5, <2>1 DEF TakeRelease, Goto, WaitTypeOK, FramesLeft
    <3>3. HeldOnly'
      BY <1>5, <2>1 DEF TakeRelease, Goto, WaitTypeOK, HeldOnly
    <3> QED BY <3>1, <3>2, <3>3
  <2>2. CASE ~released /\ pc[s] = "take"
    BY <1>5, <2>2 DEF TakeRelease, Goto, WaitTypeOK, FramesLeft, HeldOnly, executor, pool
  <2>3. CASE ~released /\ pc[s] = "retake"
    BY <1>5, <2>3 DEF TakeRelease, Goto, WaitTypeOK, FramesLeft, HeldOnly, executor, pool
  <2> QED BY <1>5, <2>1, <2>2, <2>3 DEF TakeRelease
<1>6. ASSUME NEW s \in Sources, LeaveWaker(s) PROVE WaitTypeInv'
  BY <1>6 DEF LeaveWaker, Goto, WaitTypeOK, FramesLeft, HeldOnly, executor, pool
<1>7. ASSUME NEW s \in Sources, CheckRequested(s) PROVE WaitTypeInv'
  BY <1>7 DEF CheckRequested, Goto, WaitTypeOK, FramesLeft, HeldOnly, executor, pool, handle
<1>8. ASSUME NEW s \in Sources, LeaveEndWaker(s) PROVE WaitTypeInv'
  BY <1>8 DEF LeaveEndWaker, Goto, WaitTypeOK, FramesLeft, HeldOnly, executor, pool, handle
<1>9. ASSUME NEW s \in Sources, Swallow(s) \/ Wake(s) PROVE WaitTypeInv'
  <2>1. CASE Swallow(s)
    BY <2>1 DEF Swallow, WaitTypeOK, FramesLeft, HeldOnly, pool, handle
  <2>2. CASE Wake(s)
    BY <2>2 DEF Wake, WaitTypeOK, FramesLeft, HeldOnly, pool, handle
  <2> QED BY <1>9, <2>1, <2>2
<1>10. ASSUME NEW b \in Buffers, DropBuffer(b) PROVE WaitTypeInv'
  BY <1>10 DEF DropBuffer, Waking, WaitTypeOK, FramesLeft, HeldOnly, handle
<1>11. CASE Unblock
  BY <1>11 DEF Unblock, WaitTypeOK, FramesLeft, HeldOnly, executor, pool
<1>12. CASE UnblockWakes
  BY <1>12 DEF UnblockWakes, Waking, WaitTypeOK, FramesLeft, HeldOnly, executor, pool
<1>13. CASE Request
  BY <1>13 DEF Request, WaitTypeOK, FramesLeft, HeldOnly, executor, pool, handle
<1>14. CASE RequestWakes
  BY <1>14 DEF RequestWakes, Waking, WaitTypeOK, FramesLeft, HeldOnly, executor, pool, handle
<1> QED BY <1>1, <1>2, <1>3, <1>4, <1>5, <1>6, <1>7, <1>8, <1>9, <1>10, <1>11, <1>12, <1>13,
        <1>14 DEF WaitNext, Arm

(* The types hold at the start.                                            *)
LEMMA WaitTypeInit == ASSUME WaitInit PROVE WaitTypeInv
<1> USE SourceWaitAssumption DEF WaitInit
<1>1. ending \in [requested : BOOLEAN, sources : SUBSET Sources,
                  sink : {"idle", "stored", "done"}]
  OBVIOUS
<1>2. WaitTypeOK
  <2>1. left \in [Sources -> 0..MaxFrames]
    OBVIOUS
  <2>2. woken \in [Sources -> BOOLEAN] /\ token \in [Sources -> BOOLEAN]
    OBVIOUS
  <2>3. /\ held \subseteq HeldSources /\ flight \subseteq Sources
        /\ free \subseteq Buffers /\ out \subseteq Buffers /\ waiters \subseteq Sources
        /\ slot \in HeldSources \cup {NoSource} /\ unblocker \in {"idle", "stored"}
    OBVIOUS
  <2>4. pc \in [Sources -> {"acquire", "take", "register", "retake",
                           "requested", "wait", "rerequested", "check", "park",
                           "clear", "ended", "stopped"}]
    OBVIOUS
  <2>5. unblocks \in 0..MaxUnblocks
    OBVIOUS
  <2>6. released \in BOOLEAN
    BY Zenon
  <2> HIDE DEF WaitInit
  <2> QED BY <1>1, <2>1, <2>2, <2>3, <2>4, <2>5, <2>6 DEF WaitTypeOK
<1>3. FramesLeft
  BY DEF FramesLeft
<1>4. HeldOnly
  BY DEF HeldOnly
<1> QED BY <1>2, <1>3, <1>4 DEF WaitTypeInv

(* The state is well typed, and no source is asked for more frames than it *)
(* has.                                                                    *)
THEOREM WaitTypeCorrect == WaitSpec => []WaitTypeOK
  BY WaitTypeInit, WaitTypeStep, PTL DEF WaitSpec, WaitTypeInv

-----------------------------------------------------------------------------
(* Who wakes a source that waits for a buffer.                             *)
LEMMA PoolStep ==
  ASSUME WaitTypeInv, PoolInv, [WaitNext]_waitVars
  PROVE  PoolInv'
<1> USE DEF WaitTypeInv, WaitTypeOK, PoolInv, Woke, Waiting
<1>1. CASE UNCHANGED waitVars
  BY <1>1 DEF waitVars
<1>2. ASSUME NEW s \in Sources, Check(s) \/ Clear(s) PROVE PoolInv'
  <2>1. CASE Check(s)
    BY <2>1 DEF Check, Goto, pool, handle
  <2>2. CASE Clear(s)
    BY <2>2 DEF Clear, Goto, Poll, pool, handle
  <2> QED BY <1>2, <2>1, <2>2
<1>3. ASSUME NEW s \in Sources, Park(s) PROVE PoolInv'
  BY <1>3 DEF Park, Goto, pool, handle
<1>4. ASSUME NEW s \in Sources, Acquire(s) PROVE PoolInv'
  BY <1>4 DEF Acquire, Goto, executor, handle
<1>5. ASSUME NEW s \in Sources, TakeRelease(s) PROVE PoolInv'
  BY <1>5 DEF TakeRelease, Goto, HeldOnly, executor, pool
<1>6. ASSUME NEW s \in Sources, LeaveWaker(s) PROVE PoolInv'
  BY <1>6 DEF LeaveWaker, Goto, executor, pool
<1>7. ASSUME NEW s \in Sources, CheckRequested(s) PROVE PoolInv'
  BY <1>7 DEF CheckRequested, Goto, executor, pool, handle
<1>8. ASSUME NEW s \in Sources, LeaveEndWaker(s) PROVE PoolInv'
  BY <1>8 DEF LeaveEndWaker, Goto, executor, pool, handle
<1>9. ASSUME NEW s \in Sources, Swallow(s) \/ Wake(s) PROVE PoolInv'
  BY <1>9 DEF Swallow, Wake, pool, handle
<1>10. ASSUME NEW b \in Buffers, DropBuffer(b) PROVE PoolInv'
  BY <1>10 DEF DropBuffer, Waking, handle
<1>11. CASE Unblock \/ UnblockWakes
  BY <1>11 DEF Unblock, UnblockWakes, Waking, executor, pool
<1>12. CASE Request \/ RequestWakes
  BY <1>12 DEF Request, RequestWakes, Waking, executor, pool, handle
<1> QED BY <1>1, <1>2, <1>3, <1>4, <1>5, <1>6, <1>7, <1>8, <1>9, <1>10, <1>11, <1>12
        DEF WaitNext, Arm

(* Who wakes a source that waits for its release.                          *)
LEMMA ReleaseStep ==
  ASSUME OneHeld, WaitTypeInv, ReleaseInv, [WaitNext]_waitVars
  PROVE  ReleaseInv'
<1> USE SourceWaitAssumption DEF WaitTypeInv, WaitTypeOK, HeldOnly, ReleaseInv, Woke, Waiting
<1>1. CASE UNCHANGED waitVars
  BY <1>1 DEF waitVars
<1>2. ASSUME NEW s \in Sources, Check(s) \/ Clear(s) PROVE ReleaseInv'
  <2>1. CASE Check(s)
    BY <2>1 DEF Check, Goto, pool, handle
  <2>2. CASE Clear(s)
    BY <2>2 DEF Clear, Goto, Poll, pool, handle
  <2> QED BY <1>2, <2>1, <2>2
<1>3. ASSUME NEW s \in Sources, Park(s) PROVE ReleaseInv'
  BY <1>3 DEF Park, Goto, pool, handle
<1>4. ASSUME NEW s \in Sources, Acquire(s) PROVE ReleaseInv'
  BY <1>4 DEF Acquire, Goto, executor, handle
<1>5. ASSUME NEW s \in Sources, TakeRelease(s) PROVE ReleaseInv'
  BY <1>5 DEF TakeRelease, Goto, executor, pool
<1>6. ASSUME NEW s \in Sources, LeaveWaker(s) PROVE ReleaseInv'
  BY <1>6 DEF LeaveWaker, Goto, OneHeld, executor, pool
<1>7. ASSUME NEW s \in Sources, CheckRequested(s) PROVE ReleaseInv'
  BY <1>7 DEF CheckRequested, Goto, executor, pool, handle
<1>8. ASSUME NEW s \in Sources, LeaveEndWaker(s) PROVE ReleaseInv'
  BY <1>8 DEF LeaveEndWaker, Goto, executor, pool, handle
<1>9. ASSUME NEW s \in Sources, Swallow(s) \/ Wake(s) PROVE ReleaseInv'
  BY <1>9 DEF Swallow, Wake, pool, handle
<1>10. ASSUME NEW b \in Buffers, DropBuffer(b) PROVE ReleaseInv'
  BY <1>10 DEF DropBuffer, Waking, handle
<1>11. CASE Unblock
  BY <1>11 DEF Unblock, executor, pool
<1>12. CASE UnblockWakes
  BY <1>12 DEF UnblockWakes, Waking, executor, pool
<1>13. CASE Request \/ RequestWakes
  BY <1>13 DEF Request, RequestWakes, Waking, executor, pool, handle
<1> QED BY <1>1, <1>2, <1>3, <1>4, <1>5, <1>6, <1>7, <1>8, <1>9, <1>10, <1>11, <1>12, <1>13
        DEF WaitNext, Arm

(* Who wakes a source when the run is to end.                              *)
LEMMA EndStep ==
  ASSUME WaitTypeInv, EndInv, [WaitNext]_waitVars
  PROVE  EndInv'
<1> USE DEF WaitTypeInv, WaitTypeOK, EndInv, Woke, Sleeping
<1>1. CASE UNCHANGED waitVars
  BY <1>1 DEF waitVars
<1>2. ASSUME NEW s \in Sources, Check(s) \/ Clear(s) PROVE EndInv'
  <2>1. CASE Check(s)
    BY <2>1 DEF Check, Goto, pool, handle
  <2>2. CASE Clear(s)
    BY <2>2 DEF Clear, Goto, Poll, pool, handle
  <2> QED BY <1>2, <2>1, <2>2
<1>3. ASSUME NEW s \in Sources, Park(s) PROVE EndInv'
  BY <1>3 DEF Park, Goto, pool, handle
<1>4. ASSUME NEW s \in Sources, Acquire(s) PROVE EndInv'
  BY <1>4 DEF Acquire, Goto, executor, handle
<1>5. ASSUME NEW s \in Sources, TakeRelease(s) PROVE EndInv'
  BY <1>5 DEF TakeRelease, Goto, executor, pool
<1>6. ASSUME NEW s \in Sources, LeaveWaker(s) PROVE EndInv'
  BY <1>6 DEF LeaveWaker, Goto, executor, pool
<1>7. ASSUME NEW s \in Sources, CheckRequested(s) PROVE EndInv'
  BY <1>7 DEF CheckRequested, Goto, executor, pool, handle
<1>8. ASSUME NEW s \in Sources, LeaveEndWaker(s) PROVE EndInv'
  BY <1>8 DEF LeaveEndWaker, Goto, executor, pool, handle
<1>9. ASSUME NEW s \in Sources, Swallow(s) \/ Wake(s) PROVE EndInv'
  BY <1>9 DEF Swallow, Wake, pool, handle
<1>10. ASSUME NEW b \in Buffers, DropBuffer(b) PROVE EndInv'
  BY <1>10 DEF DropBuffer, Waking, handle
<1>11. CASE Unblock \/ UnblockWakes
  BY <1>11 DEF Unblock, UnblockWakes, Waking, executor, pool
<1>12. CASE Request
  BY <1>12 DEF Request, executor, pool, handle
<1>13. CASE RequestWakes
  BY <1>13 DEF RequestWakes, Waking, executor, pool, handle
<1> QED BY <1>1, <1>2, <1>3, <1>4, <1>5, <1>6, <1>7, <1>8, <1>9, <1>10, <1>11, <1>12, <1>13
        DEF WaitNext, Arm

(* The inductive invariant holds of every run in which the unblock handle  *)
(* holds at most one source.                                               *)
THEOREM WakesInductive == ASSUME OneHeld PROVE WaitSpec => []WaitInv
<1>1. WaitInit => WaitInv
  <2> SUFFICES ASSUME WaitInit PROVE WaitInv
    OBVIOUS
  <2>1. PoolInv
    BY DEF WaitInit, PoolInv, Waiting
  <2>2. ReleaseInv
    BY DEF WaitInit, ReleaseInv, Waiting
  <2>3. EndInv
    BY DEF WaitInit, EndInv, Sleeping
  <2> QED BY WaitTypeInit, <2>1, <2>2, <2>3 DEF WaitInv
<1>2. WaitInv /\ [WaitNext]_waitVars => WaitInv'
  BY WaitTypeStep, PoolStep, ReleaseStep, EndStep DEF WaitInv
<1> QED BY <1>1, <1>2, PTL DEF WaitSpec

(* No source sleeps through the buffer, the release or the end of the run  *)
(* it waits for, whatever the number of sources, buffers and frames, as    *)
(* long as an unblock handle holds one source.                             *)
THEOREM SourcesWoken == ASSUME OneHeld PROVE WaitSpec => []NoForgottenSource
<1>1. WaitInv => NoForgottenSource
  <2> SUFFICES ASSUME WaitInv, NEW s \in Sources, pc[s] \in {"check", "park"}, Ready(s)
               PROVE  Coming(s)
    BY DEF NoForgottenSource
  <2>1. CASE s \notin held /\ free # {}
    BY <2>1 DEF WaitInv, PoolInv, Waiting, Woke, Coming
  <2>2. CASE s \in held /\ released
    BY <2>2 DEF WaitInv, ReleaseInv, Waiting, Woke, Coming
  <2>3. CASE ending.requested
    BY <2>3 DEF WaitInv, EndInv, Sleeping, Woke, Coming
  <2> QED BY <2>1, <2>2, <2>3 DEF Ready
<1> QED BY <1>1, WakesInductive, PTL

-----------------------------------------------------------------------------
(* The released lives are counted one by one: only a release taken adds to *)
(* them, and the frame that ends a life puts its source back on hold, so   *)
(* the lives begun stay what they were.                                    *)
LivesInv == IsFiniteSet(Lives) /\ OneLifePerRelease

(* Every step keeps the lives counted.                                     *)
LEMMA LivesStep ==
  ASSUME WaitTypeInv, LivesInv, [WaitNext]_waitVars
  PROVE  LivesInv'
<1> USE SourceWaitAssumption
<1>0. /\ pc \in [Sources -> {"acquire", "take", "register", "retake",
                            "requested", "wait", "rerequested", "check", "park",
                            "clear", "ended", "stopped"}]
      /\ left \in [Sources -> 0..MaxFrames] /\ released \in BOOLEAN
      /\ unblocks \in Nat
  BY DEF WaitTypeInv, WaitTypeOK
<1>1. ASSUME Lives' = Lives, UNCHANGED <<released, unblocks>> PROVE LivesInv'
  BY <1>1 DEF LivesInv, OneLifePerRelease
<1>2. ASSUME UNCHANGED <<left, held>> PROVE Lives' = Lives
  BY <1>2 DEF Lives
<1>3. ASSUME NEW s \in Sources, Acquire(s) PROVE LivesInv'
  <2>1. UNCHANGED <<released, unblocks>>
    BY <1>3 DEF Acquire, handle
  <2>2. CASE UNCHANGED <<left, held>>
    BY <1>1, <1>2, <2>1, <2>2
  <2>3. CASE /\ left' = [left EXCEPT ![s] = @ - 1]
             /\ held' = held \cup ({s} \cap HeldSources)
    <3>1. s \notin held /\ pc[s] = "acquire" /\ left[s] \in 1..MaxFrames
      BY <1>0, <1>3 DEF Acquire, WaitTypeInv, HeldOnly, FramesLeft
    <3>2. ASSUME NEW life \in HeldSources \X (1..MaxFrames)
          PROVE  life \in Lives' <=> life \in Lives
      BY <1>0, <2>3, <3>1 DEF Lives
    <3>3. Lives' = Lives
      BY <3>2 DEF Lives
    <3> QED BY <1>1, <2>1, <3>3
  <2> QED BY <1>3, <2>2, <2>3 DEF Acquire
<1>4. ASSUME NEW s \in Sources, TakeRelease(s) PROVE LivesInv'
  <2>1. CASE released
    <3>1. /\ released' = FALSE /\ held' = held \ {s}
          /\ UNCHANGED <<left, unblocks>>
      BY <1>4, <2>1 DEF TakeRelease
    <3>2. s \in held /\ s \in HeldSources /\ left[s] \in 1..MaxFrames
      BY <1>0, <1>4 DEF TakeRelease, WaitTypeInv, WaitTypeOK, HeldOnly, FramesLeft
    <3>3. <<s, left[s]>> \notin Lives
      BY <1>0, <3>2 DEF Lives
    <3>4. Lives' = Lives \cup {<<s, left[s]>>}
      <4>1. ASSUME NEW life \in HeldSources \X (1..MaxFrames)
            PROVE  life \in Lives' <=> life \in Lives \/ life = <<s, left[s]>>
        BY <1>0, <3>1, <3>2 DEF Lives
      <4>2. <<s, left[s]>> \in HeldSources \X (1..MaxFrames)
        BY <3>2
      <4> QED BY <4>1, <4>2 DEF Lives
    <3>5. IsFiniteSet(Lives') /\ Cardinality(Lives') = Cardinality(Lives) + 1
          /\ Cardinality(Lives) \in Nat
      BY <3>3, <3>4, FS_AddElement, FS_CardinalityType DEF LivesInv
    <3> QED BY <1>0, <2>1, <3>1, <3>5 DEF LivesInv, OneLifePerRelease
  <2>2. CASE ~released
    BY <1>1, <1>2, <1>4, <2>2 DEF TakeRelease
  <2> QED BY <2>1, <2>2
<1>5. CASE Unblock
  <2>1. Lives' = Lives /\ released' = TRUE
        /\ unblocks' = IF released THEN unblocks ELSE unblocks + 1
    BY <1>2, <1>5 DEF Unblock
  <2>2. Cardinality(Lives) \in Nat
    BY FS_CardinalityType DEF LivesInv
  <2> QED BY <1>0, <2>1, <2>2 DEF LivesInv, OneLifePerRelease
<1>6. ASSUME NEW s \in Sources,
             \/ Check(s) \/ Park(s) \/ Clear(s) \/ LeaveWaker(s)
             \/ CheckRequested(s) \/ LeaveEndWaker(s) \/ Swallow(s) \/ Wake(s)
      PROVE  LivesInv'
  <2>1. UNCHANGED <<left, held, released, unblocks>>
    BY <1>6 DEF Check, Park, Clear, LeaveWaker, CheckRequested, LeaveEndWaker,
                Swallow, Wake, handle
  <2> QED BY <1>1, <1>2, <2>1
<1>7. ASSUME \/ \E b \in Buffers : DropBuffer(b)
             \/ UnblockWakes \/ Request \/ RequestWakes \/ UNCHANGED waitVars
      PROVE  LivesInv'
  <2>1. UNCHANGED <<left, held, released, unblocks>>
    BY <1>7 DEF DropBuffer, UnblockWakes, Request, RequestWakes, waitVars, handle
  <2> QED BY <1>1, <1>2, <2>1
<1> QED BY <1>3, <1>4, <1>5, <1>6, <1>7 DEF WaitNext, Arm

(* Every release the application gives lets one life of one source begin   *)
(* and no more, whatever the sources, however calls of unblock and polls   *)
(* cross; here the handle may hold any number of sources.                  *)
THEOREM ReleasesCounted == WaitSpec => []OneLifePerRelease
<1>1. WaitInit => WaitTypeInv /\ LivesInv
  <2> SUFFICES ASSUME WaitInit PROVE WaitTypeInv /\ LivesInv
    OBVIOUS
  <2>1. WaitTypeInv
    BY WaitTypeInit
  <2>2. Lives = {}
    BY SourceWaitAssumption DEF WaitInit, Lives
  <2>3. released = FALSE /\ unblocks = 0
    BY DEF WaitInit
  <2> QED BY <2>1, <2>2, <2>3, FS_EmptySet DEF LivesInv, OneLifePerRelease
<1>2. WaitTypeInv /\ LivesInv /\ [WaitNext]_waitVars => WaitTypeInv' /\ LivesInv'
  BY WaitTypeStep, LivesStep
<1>3. LivesInv => OneLifePerRelease
  BY DEF LivesInv
<1> QED BY <1>1, <1>2, <1>3, PTL DEF WaitSpec
=============================================================================
