-------------------------- MODULE StateController --------------------------
(***************************************************************************)
(* The lifecycle spine (runtime/state.rs) with the actors that share it:   *)
(* application tasks that move the pipeline along Null, Ready, Paused,     *)
(* Playing and seek while paused, the runner that arms it at startup, and  *)
(* the sink arms (graph_runner.rs, sink_arm_loop) that park at its gate.   *)
(*                                                                         *)
(* The controller is a set of atomics and two waker lists.  Each atomic    *)
(* access, and each section under a waker lock, is an action of its own.   *)
(* When the actors share one executor thread (Threaded = FALSE) an actor   *)
(* runs from one await to the next without another's step in between.      *)
(*                                                                         *)
(* A sink's input is known by how many Flushes it has seen: frames after   *)
(* the n-th Flush belong to the n-th seek the source served.               *)
(***************************************************************************)
EXTENDS Integers, FiniteSets

CONSTANTS Sinks,        \* the sink arms of the graph
          Drivers,      \* application tasks holding a clone of the controller
          Targets,      \* the states the application may ask for
          Threaded,     \* TRUE: the actors run on several threads
          Patient,      \* TRUE: it awaits preroll before playing or seeking
          LinkCapacity, \* stale frames a link may hold when a seek is served
          Ending,       \* TRUE: the stream may end
          MaxSeeks,     \* bound on the seeks, 0 for none
          MaxOps        \* bound on the calls of one driver

ASSUME ControllerAssumption ==
    /\ IsFiniteSet(Sinks) /\ Sinks # {}
    /\ Sinks \cap Drivers = {}
    /\ {"runner", "source"} \cap (Sinks \cup Drivers) = {}
    /\ Targets \subseteq {"Null", "Ready", "Paused", "Playing"}
    /\ Threaded \in BOOLEAN
    /\ Patient \in BOOLEAN
    /\ LinkCapacity \in Nat
    /\ Ending \in BOOLEAN
    /\ MaxSeeks \in Nat
    /\ MaxOps \in Nat

VARIABLES
    ctl,           \* the controller's atomics: state, live, prerolled, pending
                   \* (pending_preroll), target (preroll_target), gen
                   \* (preroll_gen), armed and anchor (play_anchor)
    gateWakers,    \* Inner::wakers: sinks parked in FlowGate
    prerollWakers, \* Inner::preroll_wakers: drivers parked in PrerollGate
    arm,           \* each sink arm: pc, rolled (prerolled_self), gen, flushing,
                   \* seen (Flushes taken), stale (frames ahead of the next
                   \* Flush), eos (the end of stream was taken)
    drv,           \* each driver: pc, new (the state asked for), count (the
                   \* preroll_target it read), resolved (its await came back),
                   \* ops
    runner,        \* where the runner's startup stands
    src,           \* the source: pending (a seek waits), flushes (Flushes
                   \* sent), ended (end of stream sent)
    owes,          \* history: sinks owing a preroll since preroll was re-armed
    visible,       \* history: the seek each sink's last shown frame belongs to
    aim            \* history: the seek preroll was last re-armed for

vars == <<ctl, gateWakers, prerollWakers, arm, drv, runner, src, owes, visible,
          aim>>

States == {"Null", "Ready", "Paused", "Playing"}
ArmStates == {"off", "gate", "parked", "admitted", "pull", "process", "notify",
              "latch", "announce", "stopped"}
DrvStates == {"idle", "wake", "anchor", "settle", "store", "latch",
              "announce", "unlatch", "request", "bump", "drop", "rearm", "rouse",
              "poll", "parked"}

Init ==
    /\ \E l \in BOOLEAN :
          ctl = [state |-> "Ready", live |-> l, prerolled |-> FALSE,
                 pending |-> 1, target |-> 1, gen |-> 0, armed |-> FALSE,
                 anchor |-> FALSE]
    /\ gateWakers = {}
    /\ prerollWakers = {}
    /\ arm = [s \in Sinks |-> [pc |-> "off", rolled |-> FALSE, gen |-> 0,
                               flushing |-> FALSE, seen |-> 0, stale |-> 0,
                               eos |-> FALSE]]
    /\ drv = [d \in Drivers |-> [pc |-> "idle", new |-> "Ready", count |-> 0,
                                 resolved |-> FALSE, ops |-> 0]]
    /\ runner = "target"
    /\ src = [pending |-> FALSE, flushes |-> 0, ended |-> FALSE]
    /\ owes = Sinks
    /\ visible = [s \in Sinks |-> -1]
    /\ aim = 0

-----------------------------------------------------------------------------
(* The actors between two awaits.  On one executor thread the others wait. *)

Busy ==
    {d \in Drivers : drv[d].pc \notin {"idle", "poll", "parked"}}
    \cup {s \in Sinks : arm[s].pc \in {"admitted", "notify", "latch", "announce"}}
    \cup (IF runner \in {"pending", "stamped", "unstamped"}
          THEN {"runner"} ELSE {})

MayRun(actor) == Threaded \/ Busy \subseteq {actor}

-----------------------------------------------------------------------------
(* Waking what is parked.                                                  *)

WakeGates ==
    /\ gateWakers' = {}
    /\ arm' = [s \in Sinks |-> IF s \in gateWakers /\ arm[s].pc = "parked"
                               THEN [arm[s] EXCEPT !.pc = "gate"] ELSE arm[s]]

(* Drivers parked in PrerollGate, as they are after being woken.           *)
Woken == [d \in Drivers |-> IF d \in prerollWakers /\ drv[d].pc = "parked"
                            THEN [drv[d] EXCEPT !.pc = "poll"] ELSE drv[d]]

-----------------------------------------------------------------------------
(* The runner's startup: expect_prerolls, then arm_play_anchor, whose test *)
(* of the state and whose store are apart.                                 *)

ExpectTarget ==
    /\ runner = "target"
    /\ runner' = "pending"
    /\ ctl' = [ctl EXCEPT !.target = Cardinality(Sinks)]
    /\ UNCHANGED <<gateWakers, prerollWakers, arm, drv, src, owes, visible, aim>>

ExpectPending ==
    /\ runner = "pending"
    /\ runner' = "arm"
    /\ ctl' = [ctl EXCEPT !.pending = Cardinality(Sinks)]
    /\ UNCHANGED <<gateWakers, prerollWakers, arm, drv, src, owes, visible, aim>>

ArmCheck ==
    /\ runner = "arm"
    /\ runner' = IF ctl.state = "Playing" THEN "stamped" ELSE "unstamped"
    /\ UNCHANGED <<ctl, gateWakers, prerollWakers, arm, drv, src, owes, visible,
                   aim>>

(* The anchor is stored and the sink arms start.                           *)
ArmStore ==
    /\ runner \in {"stamped", "unstamped"}
    /\ runner' = "running"
    /\ ctl' = [ctl EXCEPT !.armed = TRUE, !.anchor = (runner = "stamped")]
    /\ arm' = [s \in Sinks |-> [arm[s] EXCEPT !.pc = "gate", !.gen = ctl.gen]]
    /\ UNCHANGED <<gateWakers, prerollWakers, drv, src, owes, visible, aim>>

-----------------------------------------------------------------------------
(* set_state, one action per atomic it touches.  Null ends the run, so     *)
(* nothing is asked of the controller after it.                            *)

(* A patient application plays, and seeks, only from a Paused it awaited.  *)
MayGoOn(d) ==
    Patient => ctl.state = "Paused" /\ (drv[d].resolved \/ ctl.live)

SetState(d, new) ==
    /\ drv[d].pc = "idle"
    /\ drv[d].ops < MaxOps
    /\ ctl.state # "Null"
    /\ new = "Playing" => MayGoOn(d)
    /\ drv' = [drv EXCEPT ![d].pc = IF ctl.state = new THEN "idle" ELSE "wake",
                          ![d].new = new, ![d].ops = @ + 1,
                          ![d].resolved = FALSE]
    /\ ctl' = [ctl EXCEPT !.state = new]
    /\ UNCHANGED <<gateWakers, prerollWakers, arm, runner, src, owes, visible,
                   aim>>

(* Drain the parked gates, then post StateChanged.                         *)
SetStateWake(d) ==
    /\ drv[d].pc = "wake"
    /\ WakeGates
    /\ drv' = [drv EXCEPT ![d].pc = IF drv[d].new = "Paused"
                                    THEN "idle" ELSE "anchor"]
    /\ UNCHANGED <<ctl, prerollWakers, runner, src, owes, visible, aim>>

(* Stamp the play anchor, or clear it on the way down.                     *)
SetStateAnchor(d) ==
    /\ drv[d].pc = "anchor"
    /\ ctl' = [ctl EXCEPT !.anchor = IF ctl.armed
                                     THEN drv[d].new = "Playing" ELSE @]
    /\ drv' = [drv EXCEPT ![d].pc = "settle"]
    /\ UNCHANGED <<gateWakers, prerollWakers, arm, runner, src, owes, visible,
                   aim>>

(* Playing owes no preroll.                                                *)
SetStateSettle(d) ==
    /\ drv[d].pc = "settle"
    /\ drv[d].new = "Playing"
    /\ ctl' = [ctl EXCEPT !.pending = 0]
    /\ drv' = [drv EXCEPT ![d].pc = "latch"]
    /\ owes' = {}
    /\ UNCHANGED <<gateWakers, prerollWakers, arm, runner, src, visible, aim>>

(* Ready and Null re-arm the count: preroll_target is read, then stored.   *)
SetStateLoad(d) ==
    /\ drv[d].pc = "settle"
    /\ drv[d].new # "Playing"
    /\ drv' = [drv EXCEPT ![d].pc = "store", ![d].count = ctl.target]
    /\ UNCHANGED <<ctl, gateWakers, prerollWakers, arm, runner, src, owes,
                   visible, aim>>

SetStateStore(d) ==
    /\ drv[d].pc = "store"
    /\ ctl' = [ctl EXCEPT !.pending = drv[d].count]
    /\ drv' = [drv EXCEPT ![d].pc = "unlatch"]
    /\ UNCHANGED <<gateWakers, prerollWakers, arm, runner, src, owes, visible,
                   aim>>

SetStateUnlatch(d) ==
    /\ drv[d].pc = "unlatch"
    /\ ctl' = [ctl EXCEPT !.prerolled = FALSE]
    /\ drv' = [drv EXCEPT ![d].pc = "idle"]
    /\ owes' = Sinks
    /\ UNCHANGED <<gateWakers, prerollWakers, arm, runner, src, visible, aim>>

(* complete_preroll as a driver runs it: latch, then wake and post.        *)
DriverLatch(d) ==
    /\ drv[d].pc = "latch"
    /\ ctl' = [ctl EXCEPT !.prerolled = TRUE]
    /\ drv' = [drv EXCEPT ![d].pc = IF ctl.prerolled THEN "idle" ELSE "announce"]
    /\ UNCHANGED <<gateWakers, prerollWakers, arm, runner, src, owes, visible,
                   aim>>

DriverAnnounce(d) ==
    /\ drv[d].pc = "announce"
    /\ prerollWakers' = {}
    /\ drv' = [Woken EXCEPT ![d].pc = "idle"]
    /\ UNCHANGED <<ctl, gateWakers, arm, runner, src, owes, visible, aim>>

-----------------------------------------------------------------------------
(* A flushing seek while paused: the seek is handed to the source, then    *)
(* request_repreroll re-arms preroll one atomic at a time.                 *)

PausedSeek(d) ==
    /\ drv[d].pc = "idle"
    /\ drv[d].ops < MaxOps
    /\ src.flushes < MaxSeeks
    /\ ctl.state = "Paused"
    /\ runner = "running"
    /\ ~ctl.live
    /\ MayGoOn(d)
    /\ src' = [src EXCEPT !.pending = TRUE]
    /\ drv' = [drv EXCEPT ![d].pc = "request", ![d].ops = @ + 1,
                          ![d].resolved = FALSE]
    /\ UNCHANGED <<ctl, gateWakers, prerollWakers, arm, runner, owes, visible,
                   aim>>

RequestCheck(d) ==
    /\ drv[d].pc = "request"
    /\ drv' = [drv EXCEPT ![d].pc = IF ctl.state = "Playing"
                                    THEN "idle" ELSE "bump"]
    /\ UNCHANGED <<ctl, gateWakers, prerollWakers, arm, runner, src, owes,
                   visible, aim>>

RequestBump(d) ==
    /\ drv[d].pc = "bump"
    /\ ctl' = [ctl EXCEPT !.gen = @ + 1]
    /\ drv' = [drv EXCEPT ![d].pc = "drop"]
    /\ UNCHANGED <<gateWakers, prerollWakers, arm, runner, src, owes, visible,
                   aim>>

RequestDrop(d) ==
    /\ drv[d].pc = "drop"
    /\ ctl' = [ctl EXCEPT !.prerolled = FALSE]
    /\ drv' = [drv EXCEPT ![d].pc = "rearm"]
    /\ UNCHANGED <<gateWakers, prerollWakers, arm, runner, src, owes, visible,
                   aim>>

RequestNoRearm(d) ==
    /\ drv[d].pc = "rearm"
    /\ drv' = [drv EXCEPT ![d].pc = "rouse"]
    /\ owes' = Sinks
    /\ aim' = src.flushes + (IF src.pending THEN 1 ELSE 0)
    /\ UNCHANGED <<ctl, gateWakers, prerollWakers, arm, runner, src, visible>>

(* The seek this preroll is for is the latest one asked for.  The read of  *)
(* preroll_target and the store are one step: a seek comes after the       *)
(* startup, and only expect_prerolls writes the target.                    *)
RequestRearm(d) ==
    /\ drv[d].pc = "rearm"
    /\ ctl' = [ctl EXCEPT !.pending = ctl.target]
    /\ drv' = [drv EXCEPT ![d].pc = "rouse"]
    /\ owes' = Sinks
    /\ aim' = src.flushes + (IF src.pending THEN 1 ELSE 0)
    /\ UNCHANGED <<gateWakers, prerollWakers, arm, runner, src, visible>>

RequestRouse(d) ==
    /\ drv[d].pc = "rouse"
    /\ WakeGates
    /\ drv' = [drv EXCEPT ![d].pc = "idle"]
    /\ UNCHANGED <<ctl, prerollWakers, runner, src, owes, visible, aim>>

(* await_prerolled: the latch is read under the lock its waker goes under. *)
AwaitPrerolled(d) ==
    /\ drv[d].pc = "idle"
    /\ ~drv[d].resolved
    /\ ctl.state \in {"Paused", "Playing"}
    /\ ~ctl.live
    /\ drv' = [drv EXCEPT ![d].pc = "poll"]
    /\ UNCHANGED <<ctl, gateWakers, prerollWakers, arm, runner, src, owes,
                   visible, aim>>

PollPreroll(d) ==
    /\ drv[d].pc = "poll"
    /\ IF ctl.prerolled
         THEN /\ drv' = [drv EXCEPT ![d].pc = "idle", ![d].resolved = TRUE]
              /\ UNCHANGED prerollWakers
         ELSE /\ drv' = [drv EXCEPT ![d].pc = "parked"]
              /\ prerollWakers' = prerollWakers \cup {d}
    /\ UNCHANGED <<ctl, gateWakers, arm, runner, src, owes, visible, aim>>

-----------------------------------------------------------------------------
(* The source: it takes the pending seek, sends one Flush to every sink,   *)
(* behind whatever frames the links still hold, and carries on; or it ends.*)

ServeSeek ==
    /\ src.pending
    /\ src' = [src EXCEPT !.pending = FALSE, !.flushes = @ + 1, !.ended = FALSE]
    /\ \E held \in [Sinks -> 0 .. LinkCapacity] :
          arm' = [s \in Sinks |-> [arm[s] EXCEPT
                     !.stale = IF arm[s].seen = src.flushes /\ ~src.ended
                               THEN held[s] ELSE @]]
    /\ UNCHANGED <<ctl, gateWakers, prerollWakers, drv, runner, owes, visible,
                   aim>>

SourceEnds ==
    /\ Ending
    /\ ~src.pending
    /\ ~src.ended
    /\ src' = [src EXCEPT !.ended = TRUE]
    /\ UNCHANGED <<ctl, gateWakers, prerollWakers, arm, drv, runner, owes,
                   visible, aim>>

-----------------------------------------------------------------------------
(* A sink arm.                                                             *)

GateOpen(s) ==
    \/ ctl.state = "Playing"
    \/ /\ ctl.state = "Paused"
       /\ ~ctl.live
       /\ ~arm[s].rolled \/ arm[s].gen # ctl.gen

(* FlowGate::poll: the state is read under the lock the waker goes under.  *)
PollGate(s) ==
    /\ arm[s].pc = "gate"
    /\ \/ /\ ctl.state = "Null"
          /\ arm' = [arm EXCEPT ![s].pc = "stopped"]
          /\ UNCHANGED gateWakers
       \/ /\ GateOpen(s)
          /\ arm' = [arm EXCEPT ![s].pc = "admitted"]
          /\ UNCHANGED gateWakers
       \/ /\ ctl.state # "Null"
          /\ ~GateOpen(s)
          /\ arm' = [arm EXCEPT ![s].pc = "parked"]
          /\ gateWakers' = gateWakers \cup {s}
    /\ UNCHANGED <<ctl, prerollWakers, drv, runner, src, owes, visible, aim>>

ReadGenerationNoDrain(s) ==
    /\ arm[s].pc = "admitted"
    /\ arm' = [arm EXCEPT ![s].pc = "pull", ![s].gen = ctl.gen,
                          ![s].rolled = @ /\ arm[s].gen = ctl.gen]
    /\ UNCHANGED <<ctl, gateWakers, prerollWakers, drv, runner, src, owes,
                   visible, aim>>

(* Past the gate the arm compares generations.                             *)
ReadGeneration(s) ==
    /\ arm[s].pc = "admitted"
    /\ arm' = [arm EXCEPT
          ![s].pc = "pull",
          ![s].gen = ctl.gen,
          ![s].rolled = @ /\ arm[s].gen = ctl.gen,
          ![s].flushing = @ \/ arm[s].gen # ctl.gen]
    /\ UNCHANGED <<ctl, gateWakers, prerollWakers, drv, runner, src, owes,
                   visible, aim>>

(* A frame: drained if a Flush is awaited, shown otherwise.                *)
TakeFrame(s) ==
    /\ arm[s].pc = "pull"
    /\ IF arm[s].seen < src.flushes THEN arm[s].stale > 0 ELSE ~src.ended
    /\ arm' = [arm EXCEPT ![s].pc = IF arm[s].flushing THEN "gate" ELSE "process",
                          ![s].stale = IF @ > 0 THEN @ - 1 ELSE 0]
    /\ UNCHANGED <<ctl, gateWakers, prerollWakers, drv, runner, src, owes,
                   visible, aim>>

TakeFlush(s) ==
    /\ arm[s].pc = "pull"
    /\ arm[s].seen < src.flushes
    /\ arm[s].stale = 0
    /\ arm' = [arm EXCEPT ![s].pc = "gate", ![s].flushing = FALSE,
                          ![s].seen = @ + 1, ![s].eos = FALSE]
    /\ UNCHANGED <<ctl, gateWakers, prerollWakers, drv, runner, src, owes,
                   visible, aim>>

(* The end of stream counts as preroll for a sink that showed nothing.     *)
TakeEos(s) ==
    /\ arm[s].pc = "pull"
    /\ arm[s].seen = src.flushes
    /\ src.ended
    /\ ~arm[s].eos
    /\ arm' = [arm EXCEPT ![s].pc = IF arm[s].rolled THEN "gate" ELSE "notify",
                          ![s].rolled = TRUE, ![s].eos = TRUE]
    /\ UNCHANGED <<ctl, gateWakers, prerollWakers, drv, runner, src, owes,
                   visible, aim>>

(* The element has shown the frame; the first one since re-arming counts.  *)
Processed(s) ==
    /\ arm[s].pc = "process"
    /\ arm' = [arm EXCEPT ![s].pc = IF arm[s].rolled THEN "gate" ELSE "notify",
                          ![s].rolled = TRUE]
    /\ visible' = [visible EXCEPT ![s] = arm[s].seen]
    /\ UNCHANGED <<ctl, gateWakers, prerollWakers, drv, runner, src, owes, aim>>

NotifyFirstCompletes(s) ==
    /\ arm[s].pc = "notify"
    /\ ctl' = [ctl EXCEPT !.pending = 0]
    /\ arm' = [arm EXCEPT ![s].pc = IF ctl.pending > 0 THEN "latch" ELSE "gate"]
    /\ owes' = owes \ {s}
    /\ UNCHANGED <<gateWakers, prerollWakers, drv, runner, src, visible, aim>>

(* notify_prerolled: the 1 -> 0 edge completes preroll.                    *)
Notify(s) ==
    /\ arm[s].pc = "notify"
    /\ ctl' = [ctl EXCEPT !.pending = IF @ = 0 THEN 0 ELSE @ - 1]
    /\ arm' = [arm EXCEPT ![s].pc = IF ctl.pending = 1 THEN "latch" ELSE "gate"]
    /\ owes' = owes \ {s}
    /\ UNCHANGED <<gateWakers, prerollWakers, drv, runner, src, visible, aim>>

(* complete_preroll as a sink arm runs it.                                 *)
SinkLatch(s) ==
    /\ arm[s].pc = "latch"
    /\ ctl' = [ctl EXCEPT !.prerolled = TRUE]
    /\ arm' = [arm EXCEPT ![s].pc = IF ctl.prerolled THEN "gate" ELSE "announce"]
    /\ UNCHANGED <<gateWakers, prerollWakers, drv, runner, src, owes, visible,
                   aim>>

SinkAnnouncesNothing(s) ==
    /\ arm[s].pc = "announce"
    /\ arm' = [arm EXCEPT ![s].pc = "gate"]
    /\ UNCHANGED <<ctl, gateWakers, prerollWakers, drv, runner, src, owes,
                   visible, aim>>

SinkAnnounce(s) ==
    /\ arm[s].pc = "announce"
    /\ prerollWakers' = {}
    /\ drv' = Woken
    /\ arm' = [arm EXCEPT ![s].pc = "gate"]
    /\ UNCHANGED <<ctl, gateWakers, runner, src, owes, visible, aim>>

-----------------------------------------------------------------------------
RunnerStep ==
    /\ MayRun("runner")
    /\ ExpectTarget \/ ExpectPending \/ ArmCheck \/ ArmStore

(* What a driver begins of its own accord.                                 *)
Call(d) ==
    /\ MayRun(d)
    /\ \/ \E new \in Targets : SetState(d, new)
       \/ PausedSeek(d)
       \/ AwaitPrerolled(d)

(* What it goes on with.                                                   *)
CallStep(d) ==
    /\ MayRun(d)
    /\ \/ SetStateWake(d) \/ SetStateAnchor(d) \/ SetStateSettle(d)
       \/ SetStateLoad(d) \/ SetStateStore(d) \/ SetStateUnlatch(d)
       \/ DriverLatch(d) \/ DriverAnnounce(d)
       \/ RequestCheck(d) \/ RequestBump(d) \/ RequestDrop(d)
       \/ RequestRearm(d) \/ RequestRouse(d) \/ PollPreroll(d)

SinkStep(s) ==
    /\ MayRun(s)
    /\ \/ PollGate(s) \/ ReadGeneration(s)
       \/ TakeFrame(s) \/ TakeFlush(s) \/ TakeEos(s)
       \/ Processed(s) \/ Notify(s) \/ SinkLatch(s) \/ SinkAnnounce(s)

SourceStep ==
    /\ MayRun("source")
    /\ ServeSeek \/ SourceEnds

Next ==
    \/ RunnerStep
    \/ \E d \in Drivers : Call(d) \/ CallStep(d)
    \/ \E s \in Sinks : SinkStep(s)
    \/ SourceStep

(* Started calls return, runnable arms are polled and the source takes its *)
(* seeks.  On one thread an actor is runnable only between the others'     *)
(* segments, and the executor's queue still comes round to it: hence       *)
(* strong fairness.  Nothing makes the application call or the stream end. *)
Fairness ==
    /\ SF_vars(RunnerStep)
    /\ \A d \in Drivers : SF_vars(CallStep(d))
    /\ \A s \in Sinks : SF_vars(SinkStep(s))
    /\ SF_vars(MayRun("source") /\ ServeSeek)

Spec == Init /\ [][Next]_vars /\ Fairness
-----------------------------------------------------------------------------
(* Properties.                                                             *)

(* Every variable holds a value of its kind.                               *)
TypeOK ==
    /\ ctl \in [state : States, live : BOOLEAN, prerolled : BOOLEAN,
                pending : Nat, target : Nat, gen : Nat, armed : BOOLEAN,
                anchor : BOOLEAN]
    /\ gateWakers \subseteq Sinks
    /\ prerollWakers \subseteq Drivers
    /\ arm \in [Sinks -> [pc : ArmStates, rolled : BOOLEAN, gen : Nat,
                          flushing : BOOLEAN, seen : Nat, stale : Nat,
                          eos : BOOLEAN]]
    /\ drv \in [Drivers -> [pc : DrvStates, new : States, count : Nat,
                            resolved : BOOLEAN, ops : Nat]]
    /\ runner \in {"target", "pending", "arm", "stamped", "unstamped", "running"}
    /\ src \in [pending : BOOLEAN, flushes : Nat, ended : BOOLEAN]
    /\ owes \subseteq Sinks
    /\ visible \in [Sinks -> Int]
    /\ aim \in Nat

(* Preroll is reported complete only when every sink has prerolled since   *)
(* it was last re-armed, or Playing made it moot: no sink is counted twice *)
(* for another.                                                            *)
PrerolledMeansAll ==
    ctl.state = "Paused" /\ ctl.prerolled => owes = {}

(* Once a paused seek's preroll completes, what every sink shows is the    *)
(* frame sought, never a frame from before the Flush.                      *)
ShowsTheTarget ==
    /\ ctl.prerolled /\ ctl.state = "Paused" /\ aim > 0
    /\ \A d \in Drivers : drv[d].pc \in {"idle", "poll", "parked"}
    => \A s \in Sinks : visible[s] = aim \/ (arm[s].eos /\ arm[s].seen = aim)

(* While the pipeline is Playing, with no call in progress, the anchor the *)
(* sinks present against is stamped.                                       *)
AnchoredWhilePlaying ==
    /\ ctl.state = "Playing" /\ ctl.armed
    /\ \A d \in Drivers : drv[d].pc = "idle"
    => ctl.anchor

(* Preroll completes: a driver that awaits it gets its answer, unless the  *)
(* pipeline leaves Paused and Playing.                                     *)
AwaitResolves ==
    \A d \in Drivers :
        drv[d].pc \in {"poll", "parked"} ~>
            drv[d].pc = "idle" \/ ctl.state \in {"Null", "Ready"}

=============================================================================
