----------------------------- MODULE SourceWait -----------------------------
(***************************************************************************)
(* What a source arm can be asleep on, and the executor it sleeps in.  An  *)
(* arm of the threaded runner is one block_on (runtime/blocking.rs) of     *)
(* select2(src.run, run_end.requested()).  The sources draw their frames   *)
(* from a BufferPool (pool.rs), whose buffers come back when a frame is    *)
(* dropped downstream.  Some are wrapped for restarts: each life of theirs *)
(* (here one frame) is held by an UnblockHandle (runtime/unblock.rs) until *)
(* the application releases it.  All of them are stopped by a sink's       *)
(* RunEndRequest (runtime/run_end.rs).                                     *)
(*                                                                         *)
(* A section under a lock and an access to an atomic is a step.  A wake    *)
(* comes some time after the waker was taken.  The names every module has  *)
(* (Init, Next...) are prefixed: RunnerProofs extends this one and ArmSet. *)
(***************************************************************************)
EXTENDS Integers, FiniteSets

CONSTANTS Sources,      \* the source arms
          HeldSources,  \* those whose lives the unblock handle holds
          Buffers,      \* the buffers of the pool
          NoSource,     \* an empty waker slot
          MaxFrames,    \* frames of a source
          MaxUnblocks   \* bound on the application's releases

ASSUME SourceWaitAssumption ==
    /\ HeldSources \subseteq Sources
    /\ NoSource \notin Sources
    /\ MaxFrames \in Nat \ {0}
    /\ MaxUnblocks \in Nat

VARIABLES
    pc,        \* where each arm is
    left,      \* frames each source still has to make
    held,      \* the sources whose next life waits for its release
    woken,     \* ThreadWaker.woken of each arm's block_on
    token,     \* the unpark token of each arm's thread
    flight,    \* sources whose waker was taken and is about to be woken
    free,      \* PoolState.free
    out,       \* buffers in frames downstream
    waiters,   \* PoolState.waiters
    released,  \* UnblockInner.released
    slot,      \* UnblockInner.waker
    unblocker, \* the application's thread in unblock: "idle" or "stored"
    unblocks,  \* history: calls of unblock that set a release
    ending     \* the run's end: requested, sources (waiting_sources) and the
               \* sink's thread in request: "idle", "stored" or "done"

waitVars == <<pc, left, held, woken, token, flight, free, out, waiters, released, slot,
              unblocker, unblocks, ending>>

executor == <<woken, token, flight>>
pool == <<free, out, waiters>>
handle == <<released, slot, unblocker, unblocks>>

WaitInit ==
    /\ pc = [s \in Sources |-> IF s \in HeldSources THEN "take" ELSE "acquire"]
    /\ left = [s \in Sources |-> MaxFrames]
    /\ held = HeldSources
    /\ woken = [s \in Sources |-> FALSE]
    /\ token = [s \in Sources |-> FALSE]
    /\ flight = {}
    /\ free = Buffers
    /\ out = {}
    /\ waiters = {}
    /\ released = FALSE
    /\ slot = NoSource
    /\ unblocker = "idle"
    /\ unblocks = 0
    /\ ending = [requested |-> FALSE, sources |-> {}, sink |-> "idle"]

Goto(s, where) == pc' = [pc EXCEPT ![s] = where]

(* The wakes that follow when a set of wakers is taken and woken.          *)
Waking(ws) == flight \cup ws

-----------------------------------------------------------------------------
(* block_on.                                                               *)

(* Where a poll begins.                                                    *)
Poll(s) == IF s \in held THEN "take" ELSE "acquire"

(* Mutant: parks first and looks at the flag after.                        *)
CheckAfterPark(s) ==
    /\ pc[s] = "check"
    /\ Goto(s, "park")
    /\ UNCHANGED <<left, held, executor, pool, handle, ending>>

(* After Pending the flag is swapped: polled again if it was up, else      *)
(* parked.                                                                 *)
Check(s) ==
    /\ pc[s] = "check"
    /\ woken' = [woken EXCEPT ![s] = FALSE]
    /\ Goto(s, IF woken[s] THEN "clear" ELSE "park")
    /\ UNCHANGED <<left, held, token, flight, pool, handle, ending>>

(* park returns with the token, and the flag is swapped again.             *)
Park(s) ==
    /\ pc[s] = "park"
    /\ token[s]
    /\ token' = [token EXCEPT ![s] = FALSE]
    /\ woken' = [woken EXCEPT ![s] = FALSE]
    /\ Goto(s, IF woken[s] THEN "clear" ELSE "park")
    /\ UNCHANGED <<left, held, flight, pool, handle, ending>>

(* The flag is put down before the next poll, a wake since the swap with   *)
(* it: the poll is what that wake asked for.                               *)
Clear(s) ==
    /\ pc[s] = "clear"
    /\ woken' = [woken EXCEPT ![s] = FALSE]
    /\ Goto(s, Poll(s))
    /\ UNCHANGED <<left, held, token, flight, pool, handle, ending>>

(* Code inside a poll parks the thread and swallows the token.             *)
Swallow(s) ==
    /\ pc[s] \notin {"check", "park", "clear", "ended", "stopped"}
    /\ token[s]
    /\ token' = [token EXCEPT ![s] = FALSE]
    /\ UNCHANGED <<pc, left, held, woken, flight, pool, handle, ending>>

(* ThreadWaker::wake: the flag, then the token.                            *)
Wake(s) ==
    /\ s \in flight
    /\ flight' = flight \ {s}
    /\ woken' = [woken EXCEPT ![s] = TRUE]
    /\ token' = [token EXCEPT ![s] = TRUE]
    /\ UNCHANGED <<pc, left, held, pool, handle, ending>>

-----------------------------------------------------------------------------
(* The pool.                                                               *)

(* AcquireFuture::poll: a free buffer, which leaves in a frame, or wait.   *)
Acquire(s) ==
    /\ pc[s] = "acquire"
    /\ \/ \E b \in free :
             /\ free' = free \ {b}
             /\ out' = out \cup {b}
             /\ left' = [left EXCEPT ![s] = @ - 1]
             /\ held' = held \cup ({s} \cap HeldSources)
             /\ Goto(s, IF left[s] = 1 THEN "ended"
                        ELSE IF s \in HeldSources THEN "take" ELSE "acquire")
             /\ UNCHANGED waiters
       \/ /\ free = {}
          /\ waiters' = waiters \cup {s}
          /\ Goto(s, "requested")
          /\ UNCHANGED <<free, out, left, held>>
    /\ UNCHANGED <<executor, handle, ending>>

(* The frame is dropped: its buffer comes back and every waiter is woken.  *)
DropBuffer(b) ==
    /\ b \in out
    /\ out' = out \ {b}
    /\ free' = free \cup {b}
    /\ waiters' = {}
    /\ flight' = Waking(waiters)
    /\ UNCHANGED <<pc, left, held, woken, token, handle, ending>>

-----------------------------------------------------------------------------
(* The unblock handle.                                                     *)

(* Mutant: the release is read and not consumed.                           *)
TakeReleaseKeeps(s) ==
    /\ pc[s] \in {"take", "retake"}
    /\ \/ /\ released
          /\ held' = held \ {s}
          /\ Goto(s, "acquire")
       \/ /\ ~released
          /\ Goto(s, IF pc[s] = "take" THEN "register" ELSE "requested")
          /\ UNCHANGED held
    /\ UNCHANGED <<left, handle, executor, pool, ending>>

(* take_release, before the waker is left and again after.                 *)
TakeRelease(s) ==
    /\ pc[s] \in {"take", "retake"}
    /\ \/ /\ released
          /\ released' = FALSE
          /\ held' = held \ {s}
          /\ Goto(s, "acquire")
       \/ /\ ~released
          /\ Goto(s, IF pc[s] = "take" THEN "register" ELSE "requested")
          /\ UNCHANGED <<released, held>>
    /\ UNCHANGED <<left, slot, unblocker, unblocks, executor, pool, ending>>

(* Mutant: no second look at the release.                                  *)
LeaveWakerOnly(s) ==
    /\ pc[s] = "register"
    /\ slot' = s
    /\ Goto(s, "requested")
    /\ UNCHANGED <<left, held, released, unblocker, unblocks, executor, pool, ending>>

LeaveWaker(s) ==
    /\ pc[s] = "register"
    /\ slot' = s
    /\ Goto(s, "retake")
    /\ UNCHANGED <<left, held, released, unblocker, unblocks, executor, pool, ending>>

(* unblock: the release is stored, then the waker taken and woken.         *)
Unblock ==
    /\ unblocker = "idle"
    /\ unblocks < MaxUnblocks
    /\ unblocks' = IF released THEN unblocks ELSE unblocks + 1
    /\ released' = TRUE
    /\ unblocker' = "stored"
    /\ UNCHANGED <<pc, left, held, slot, executor, pool, ending>>

UnblockWakes ==
    /\ unblocker = "stored"
    /\ flight' = Waking({slot} \ {NoSource})
    /\ slot' = NoSource
    /\ unblocker' = "idle"
    /\ UNCHANGED <<pc, left, held, released, unblocks, woken, token, pool, ending>>

-----------------------------------------------------------------------------
(* The end of the run, the second future of the arm's select2.             *)

(* is_requested, before the waker is left and again after.  Once requested *)
(* the source's own future is dropped; its wakers stay where they are.     *)
CheckRequested(s) ==
    /\ pc[s] \in {"requested", "rerequested"}
    /\ Goto(s, IF ending.requested THEN "stopped"
               ELSE IF pc[s] = "requested" THEN "wait" ELSE "check")
    /\ UNCHANGED <<left, held, executor, pool, handle, ending>>

(* Mutant: no second look at the request.                                  *)
LeaveEndWakerOnly(s) ==
    /\ pc[s] = "wait"
    /\ ending' = [ending EXCEPT !.sources = @ \cup {s}]
    /\ Goto(s, "check")
    /\ UNCHANGED <<left, held, executor, pool, handle>>

LeaveEndWaker(s) ==
    /\ pc[s] = "wait"
    /\ ending' = [ending EXCEPT !.sources = @ \cup {s}]
    /\ Goto(s, "rerequested")
    /\ UNCHANGED <<left, held, executor, pool, handle>>

(* request: a sink that can show nothing more.                             *)
Request ==
    /\ ending.sink = "idle"
    /\ ending' = [ending EXCEPT !.requested = TRUE, !.sink = "stored"]
    /\ UNCHANGED <<pc, left, held, executor, pool, handle>>

RequestWakes ==
    /\ ending.sink = "stored"
    /\ flight' = Waking(ending.sources)
    /\ ending' = [ending EXCEPT !.sources = {}, !.sink = "done"]
    /\ UNCHANGED <<pc, left, held, woken, token, pool, handle>>

-----------------------------------------------------------------------------
Arm(s) ==
    \/ Check(s) \/ Park(s) \/ Clear(s) \/ Acquire(s)
    \/ TakeRelease(s) \/ LeaveWaker(s) \/ CheckRequested(s) \/ LeaveEndWaker(s)

WaitNext ==
    \/ \E s \in Sources : Arm(s) \/ Swallow(s) \/ Wake(s)
    \/ \E b \in Buffers : DropBuffer(b)
    \/ Unblock \/ UnblockWakes
    \/ Request \/ RequestWakes

(* Threads run, calls return and frames are dropped downstream; releases   *)
(* and the end of the run may never come.                                  *)
WaitFairness ==
    /\ \A s \in Sources : WF_waitVars(Arm(s)) /\ WF_waitVars(Wake(s))
    /\ \A b \in Buffers : WF_waitVars(DropBuffer(b))
    /\ WF_waitVars(UnblockWakes)
    /\ WF_waitVars(RequestWakes)

WaitSpec == WaitInit /\ [][WaitNext]_waitVars /\ WaitFairness

-----------------------------------------------------------------------------
WaitTypeOK ==
    /\ pc \in [Sources -> {"acquire", "take", "register", "retake",
                           "requested", "wait", "rerequested", "check", "park",
                           "clear", "ended", "stopped"}]
    /\ left \in [Sources -> 0..MaxFrames]
    /\ held \subseteq HeldSources
    /\ woken \in [Sources -> BOOLEAN]
    /\ token \in [Sources -> BOOLEAN]
    /\ flight \subseteq Sources
    /\ free \subseteq Buffers
    /\ out \subseteq Buffers
    /\ waiters \subseteq Sources
    /\ released \in BOOLEAN
    /\ slot \in HeldSources \cup {NoSource}
    /\ unblocker \in {"idle", "stored"}
    /\ unblocks \in 0..MaxUnblocks
    /\ ending \in [requested : BOOLEAN, sources : SUBSET Sources,
                   sink : {"idle", "stored", "done"}]

(* What a source waits for is there.                                       *)
Ready(s) ==
    \/ s \notin held /\ free # {}
    \/ s \in held /\ released
    \/ ending.requested

(* Somebody is on the way to wake it.                                      *)
Coming(s) ==
    \/ s \in flight
    \/ woken[s] /\ (pc[s] = "park" => token[s])
    \/ slot = s /\ unblocker = "stored"
    \/ s \in ending.sources /\ ending.sink = "stored"

(* No source sleeps while what it waits for is there: a buffer dropped, a  *)
(* release or the end of the run that lands at any point of its poll, or   *)
(* while code inside the poll eats the thread's token, still wakes it.     *)
NoForgottenSource ==
    \A s \in Sources : (pc[s] \in {"check", "park"} /\ Ready(s)) => Coming(s)

(* One unblock releases one life, however calls and lives cross.           *)
Lives == {life \in HeldSources \X (1..MaxFrames) :
             \/ life[2] > left[life[1]]
             \/ life[2] = left[life[1]] /\ life[1] \notin held}
OneLifePerRelease ==
    Cardinality(Lives) + (IF released THEN 1 ELSE 0) = unblocks

(* Every source gets the buffers it needs, or the run is ended: waiters    *)
(* woken together for one buffer race, and neither a loser nor the waker   *)
(* of a source that has stopped uses up another's turn.  A source that is  *)
(* held goes on once released.                                             *)
Over(s) == pc[s] \in {"ended", "stopped"}
SourcesGoOn ==
    /\ \A s \in Sources \ HeldSources : <>Over(s)
    /\ \A s \in HeldSources : s \notin held ~> (s \in held \/ Over(s))

(* A release is taken as long as a source may still take it (unblock:      *)
(* "release the source waiting on this handle, and wake it").              *)
ReleaseTaken == released ~> (~released \/ \A s \in HeldSources : Over(s))

(* Once a sink asked for the end of the run every source ends.             *)
RunEndStops ==
    ending.requested ~> \A s \in Sources : Over(s)
=============================================================================
