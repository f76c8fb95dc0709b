----------------------- MODULE StateControllerProofs -----------------------
(***************************************************************************)
(* Proofs about preroll and paused seeks, for every number of sinks, seeks *)
(* and calls and every link capacity.                                      *)
(***************************************************************************)
EXTENDS StateController, FiniteSetTheorems, TLAPS

CtlRec == [state : States, live : BOOLEAN, prerolled : BOOLEAN, pending : Nat,
           target : Nat, gen : Nat, armed : BOOLEAN, anchor : BOOLEAN]
ArmRec == [pc : ArmStates, rolled : BOOLEAN, gen : Nat, flushing : BOOLEAN,
           seen : Nat, stale : Nat, eos : BOOLEAN]
DrvRec == [pc : DrvStates, new : States, count : Nat, resolved : BOOLEAN, ops : Nat]
SrcRec == [pending : BOOLEAN, flushes : Nat, ended : BOOLEAN]

(* The types apart from the arms and the drivers.                          *)
RestTyped ==
    /\ ctl \in CtlRec
    /\ gateWakers \subseteq Sinks
    /\ prerollWakers \subseteq Drivers
    /\ runner \in {"target", "pending", "arm", "stamped", "unstamped", "running"}
    /\ src \in SrcRec
    /\ owes \subseteq Sinks
    /\ visible \in [Sinks -> Int]
    /\ aim \in Nat

(* TypeOK in parts.                                                        *)
LEMMA TypeParts ==
  /\ TypeOK <=> RestTyped /\ arm \in [Sinks -> ArmRec] /\ drv \in [Drivers -> DrvRec]
  /\ TypeOK' <=> RestTyped' /\ arm' \in [Sinks -> ArmRec] /\ drv' \in [Drivers -> DrvRec]
  BY DEF TypeOK, RestTyped, CtlRec, ArmRec, DrvRec, SrcRec

-----------------------------------------------------------------------------
(* What each step does to the arms, field by field.                        *)

Kept(s) ==
    /\ arm'[s].rolled = arm[s].rolled
    /\ arm'[s].gen = arm[s].gen
    /\ arm'[s].flushing = arm[s].flushing
    /\ arm'[s].seen = arm[s].seen

OthersKept(s) == \A t \in Sinks \ {s} : arm'[t] = arm[t]

(* One arm replaced.                                                       *)
LEMMA ArmReplaced ==
  ASSUME arm \in [Sinks -> ArmRec], NEW s \in Sinks, NEW r \in ArmRec,
         arm' = [arm EXCEPT ![s] = r]
  PROVE  arm' \in [Sinks -> ArmRec] /\ OthersKept(s) /\ arm'[s] = r
  BY DEF OthersKept

(* Only its place in the loop changes.                                     *)
LEMMA ArmMoved ==
  ASSUME arm \in [Sinks -> ArmRec], NEW s \in Sinks, NEW to \in ArmStates,
         arm' = [arm EXCEPT ![s].pc = to]
  PROVE  /\ arm' \in [Sinks -> ArmRec] /\ OthersKept(s) /\ Kept(s)
         /\ arm'[s].pc = to
<1>1. PICK r : r = [arm[s] EXCEPT !.pc = to] /\ arm' = [arm EXCEPT ![s] = r]
  OBVIOUS
<1>2. r \in ArmRec /\ r.pc = to /\ r.rolled = arm[s].rolled /\ r.gen = arm[s].gen
      /\ r.flushing = arm[s].flushing /\ r.seen = arm[s].seen
  BY <1>1 DEF ArmRec
<1> QED  BY <1>1, <1>2, ArmReplaced DEF Kept

(* The parked arms are let go.                                             *)
LEMMA GatesWoken ==
  ASSUME arm \in [Sinks -> ArmRec], WakeGates
  PROVE  /\ arm' \in [Sinks -> ArmRec] /\ gateWakers' = {}
         /\ \A s \in Sinks : /\ Kept(s)
                             /\ \/ arm'[s].pc = arm[s].pc
                                \/ arm[s].pc = "parked" /\ arm'[s].pc = "gate"
<1>1. ASSUME NEW s \in Sinks
      PROVE  /\ arm'[s] \in ArmRec /\ Kept(s)
             /\ \/ arm'[s].pc = arm[s].pc
                \/ arm[s].pc = "parked" /\ arm'[s].pc = "gate"
  <2>1. arm[s] \in ArmRec
    OBVIOUS
  <2>2. PICK r : r = [arm[s] EXCEPT !.pc = "gate"]
    OBVIOUS
  <2>3. r \in ArmRec /\ r.pc = "gate" /\ r.rolled = arm[s].rolled /\ r.gen = arm[s].gen
        /\ r.flushing = arm[s].flushing /\ r.seen = arm[s].seen
    BY <2>1, <2>2 DEF ArmRec, ArmStates
  <2>4. arm'[s] = arm[s] \/ (arm[s].pc = "parked" /\ arm'[s] = r)
    BY <2>2 DEF WakeGates
  <2> QED  BY <2>1, <2>3, <2>4 DEF Kept
<1>2. arm' \in [Sinks -> ArmRec] /\ gateWakers' = {}
  BY <1>1 DEF WakeGates
<1> QED  BY <1>1, <1>2

(* Past the gate.                                                          *)
LEMMA GenerationRead ==
  ASSUME TypeOK, NEW s \in Sinks, ReadGeneration(s)
  PROVE  /\ arm[s].pc = "admitted"
         /\ arm' \in [Sinks -> ArmRec] /\ OthersKept(s)
         /\ arm'[s].pc = "pull" /\ arm'[s].gen = ctl.gen
         /\ arm'[s].seen = arm[s].seen
         /\ arm'[s].rolled <=> arm[s].rolled /\ arm[s].gen = ctl.gen
         /\ arm'[s].flushing <=> arm[s].flushing \/ arm[s].gen # ctl.gen
         /\ UNCHANGED <<ctl, gateWakers, prerollWakers, drv, runner, src, owes,
                        visible, aim>>
<1> DEFINE r == [pc |-> "pull", rolled |-> arm[s].rolled /\ arm[s].gen = ctl.gen,
                 gen |-> ctl.gen, flushing |-> arm[s].flushing \/ arm[s].gen # ctl.gen,
                 seen |-> arm[s].seen, stale |-> arm[s].stale, eos |-> arm[s].eos]
<1>1. arm \in [Sinks -> ArmRec] /\ ctl \in CtlRec
  BY TypeParts DEF RestTyped
<1>2. r \in ArmRec
  BY <1>1 DEF ArmRec, ArmStates, CtlRec
<1>3. arm' = [arm EXCEPT ![s] = r]
  <2>1. PICK q : /\ arm' = [arm EXCEPT ![s] = q]
                 /\ q = [arm[s] EXCEPT !.pc = "pull", !.gen = ctl.gen,
                           !.rolled = @ /\ arm[s].gen = ctl.gen,
                           !.flushing = @ \/ arm[s].gen # ctl.gen]
    BY <1>1 DEF ReadGeneration
  <2>2. q = r
    BY <1>1, <2>1 DEF ArmRec
  <2> QED  BY <2>1, <2>2
<1>4. arm' \in [Sinks -> ArmRec] /\ OthersKept(s) /\ arm'[s] = r
  BY <1>1, <1>2, <1>3, ArmReplaced
<1>5. /\ r.pc = "pull" /\ r.gen = ctl.gen /\ r.seen = arm[s].seen
      /\ r.rolled = (arm[s].rolled /\ arm[s].gen = ctl.gen)
      /\ r.flushing = (arm[s].flushing \/ arm[s].gen # ctl.gen)
  OBVIOUS
<1> HIDE DEF r
<1>6. /\ arm[s].pc = "admitted"
      /\ UNCHANGED <<ctl, gateWakers, prerollWakers, drv, runner, src, owes,
                     visible, aim>>
  BY DEF ReadGeneration
<1> QED  BY <1>4, <1>5, <1>6

(* A frame, drained or on its way to the element.                          *)
LEMMA FrameTaken ==
  ASSUME TypeOK, NEW s \in Sinks, TakeFrame(s)
  PROVE  /\ arm[s].pc = "pull"
         /\ arm' \in [Sinks -> ArmRec] /\ OthersKept(s) /\ Kept(s)
         /\ arm'[s].pc = IF arm[s].flushing THEN "gate" ELSE "process"
         /\ UNCHANGED <<ctl, gateWakers, prerollWakers, drv, runner, src, owes,
                        visible, aim>>
<1> DEFINE to == IF arm[s].flushing THEN "gate" ELSE "process"
           rest == IF arm[s].stale > 0 THEN arm[s].stale - 1 ELSE 0
           r == [arm[s] EXCEPT !.pc = to, !.stale = rest]
<1>1. arm \in [Sinks -> ArmRec] /\ arm[s] \in ArmRec
  BY TypeParts
<1>2. to \in ArmStates /\ rest \in Nat
  BY <1>1 DEF ArmRec, ArmStates
<1>3. /\ arm[s].pc = "pull"
      /\ arm' = [arm EXCEPT ![s].pc = to, ![s].stale = IF @ > 0 THEN @ - 1 ELSE 0]
      /\ UNCHANGED <<ctl, gateWakers, prerollWakers, drv, runner, src, owes,
                     visible, aim>>
  BY DEF TakeFrame
<1> HIDE DEF to
<1>4. arm' = [arm EXCEPT ![s] = r]
  <2>1. PICK q : /\ arm' = [arm EXCEPT ![s] = q]
                 /\ q = [arm[s] EXCEPT !.pc = to, !.stale = IF @ > 0 THEN @ - 1 ELSE 0]
    BY <1>1, <1>3
  <2>2. q = r
    BY <1>1, <2>1 DEF ArmRec
  <2> QED  BY <2>1, <2>2
<1> HIDE DEF rest
<1>5. /\ r \in ArmRec /\ r.pc = to /\ r.rolled = arm[s].rolled /\ r.gen = arm[s].gen
      /\ r.flushing = arm[s].flushing /\ r.seen = arm[s].seen
  BY <1>1, <1>2 DEF ArmRec
<1> HIDE DEF r
<1>6. arm' \in [Sinks -> ArmRec] /\ OthersKept(s) /\ arm'[s] = r
  BY <1>1, <1>4, <1>5, ArmReplaced
<1>7. Kept(s) /\ arm'[s].pc = to
  BY <1>5, <1>6 DEF Kept
<1> QED  BY <1>3, <1>6, <1>7 DEF to

(* The Flush of a seek.                                                    *)
LEMMA FlushTaken ==
  ASSUME TypeOK, NEW s \in Sinks, TakeFlush(s)
  PROVE  /\ arm[s].pc = "pull" /\ arm[s].seen < src.flushes
         /\ arm' \in [Sinks -> ArmRec] /\ OthersKept(s)
         /\ arm'[s].pc = "gate" /\ arm'[s].rolled = arm[s].rolled
         /\ arm'[s].gen = arm[s].gen /\ arm'[s].flushing = FALSE
         /\ arm'[s].seen = arm[s].seen + 1
         /\ UNCHANGED <<ctl, gateWakers, prerollWakers, drv, runner, src, owes,
                        visible, aim>>
<1> DEFINE r == [pc |-> "gate", rolled |-> arm[s].rolled, gen |-> arm[s].gen,
                 flushing |-> FALSE, seen |-> arm[s].seen + 1,
                 stale |-> arm[s].stale, eos |-> FALSE]
<1>1. arm \in [Sinks -> ArmRec] /\ arm[s] \in ArmRec
  BY TypeParts
<1>2. r \in ArmRec
  BY <1>1 DEF ArmRec, ArmStates
<1>3. arm' = [arm EXCEPT ![s] = r]
  <2>1. PICK q : /\ arm' = [arm EXCEPT ![s] = q]
                 /\ q = [arm[s] EXCEPT !.pc = "gate", !.flushing = FALSE,
                           !.seen = @ + 1, !.eos = FALSE]
    BY <1>1 DEF TakeFlush
  <2>2. q = r
    BY <1>1, <2>1 DEF ArmRec
  <2> QED  BY <2>1, <2>2
<1>4. arm' \in [Sinks -> ArmRec] /\ OthersKept(s) /\ arm'[s] = r
  BY <1>1, <1>2, <1>3, ArmReplaced
<1>5. /\ r.pc = "gate" /\ r.rolled = arm[s].rolled /\ r.gen = arm[s].gen
      /\ r.flushing = FALSE /\ r.seen = arm[s].seen + 1
  OBVIOUS
<1> HIDE DEF r
<1>6. /\ arm[s].pc = "pull" /\ arm[s].seen < src.flushes
      /\ UNCHANGED <<ctl, gateWakers, prerollWakers, drv, runner, src, owes,
                     visible, aim>>
  BY DEF TakeFlush
<1> QED  BY <1>4, <1>5, <1>6

(* The end of the stream, which counts as a preroll.                       *)
LEMMA EosTaken ==
  ASSUME TypeOK, NEW s \in Sinks, TakeEos(s)
  PROVE  /\ arm[s].pc = "pull" /\ src.ended
         /\ arm' \in [Sinks -> ArmRec] /\ OthersKept(s)
         /\ arm'[s].pc = IF arm[s].rolled THEN "gate" ELSE "notify"
         /\ arm'[s].rolled = TRUE
         /\ arm'[s].gen = arm[s].gen /\ arm'[s].flushing = arm[s].flushing
         /\ arm'[s].seen = arm[s].seen
         /\ UNCHANGED <<ctl, gateWakers, prerollWakers, drv, runner, src, owes,
                        visible, aim>>
<1> DEFINE to == IF arm[s].rolled THEN "gate" ELSE "notify"
           r == [pc |-> to, rolled |-> TRUE, gen |-> arm[s].gen,
                 flushing |-> arm[s].flushing, seen |-> arm[s].seen,
                 stale |-> arm[s].stale, eos |-> TRUE]
<1>1. arm \in [Sinks -> ArmRec] /\ arm[s] \in ArmRec
  BY TypeParts
<1>2. to \in ArmStates
  BY <1>1 DEF ArmStates
<1>3. /\ arm[s].pc = "pull" /\ src.ended
      /\ arm' = [arm EXCEPT ![s].pc = to, ![s].rolled = TRUE, ![s].eos = TRUE]
      /\ UNCHANGED <<ctl, gateWakers, prerollWakers, drv, runner, src, owes,
                     visible, aim>>
  BY DEF TakeEos
<1> HIDE DEF to
<1>4. arm' = [arm EXCEPT ![s] = r]
  <2>1. PICK q : /\ arm' = [arm EXCEPT ![s] = q]
                 /\ q = [arm[s] EXCEPT !.pc = to, !.rolled = TRUE, !.eos = TRUE]
    BY <1>1, <1>3
  <2>2. q = r
    BY <1>1, <2>1 DEF ArmRec
  <2> QED  BY <2>1, <2>2
<1>5. r \in ArmRec
  BY <1>1, <1>2 DEF ArmRec
<1>6. arm' \in [Sinks -> ArmRec] /\ OthersKept(s) /\ arm'[s] = r
  BY <1>1, <1>4, <1>5, ArmReplaced
<1>7. /\ r.pc = to /\ r.rolled = TRUE /\ r.gen = arm[s].gen
      /\ r.flushing = arm[s].flushing /\ r.seen = arm[s].seen
  OBVIOUS
<1> HIDE DEF r
<1> QED  BY <1>3, <1>6, <1>7 DEF to

(* A frame shown.                                                          *)
LEMMA FrameShown ==
  ASSUME TypeOK, NEW s \in Sinks, Processed(s)
  PROVE  /\ arm[s].pc = "process"
         /\ arm' \in [Sinks -> ArmRec] /\ OthersKept(s)
         /\ arm'[s].pc = IF arm[s].rolled THEN "gate" ELSE "notify"
         /\ arm'[s].rolled = TRUE
         /\ arm'[s].gen = arm[s].gen /\ arm'[s].flushing = arm[s].flushing
         /\ arm'[s].seen = arm[s].seen
         /\ visible' \in [Sinks -> Int]
         /\ visible'[s] = arm[s].seen
         /\ \A t \in Sinks \ {s} : visible'[t] = visible[t]
         /\ UNCHANGED <<ctl, gateWakers, prerollWakers, drv, runner, src, owes, aim>>
<1> DEFINE to == IF arm[s].rolled THEN "gate" ELSE "notify"
           r == [pc |-> to, rolled |-> TRUE, gen |-> arm[s].gen,
                 flushing |-> arm[s].flushing, seen |-> arm[s].seen,
                 stale |-> arm[s].stale, eos |-> arm[s].eos]
<1>1. arm \in [Sinks -> ArmRec] /\ arm[s] \in ArmRec /\ visible \in [Sinks -> Int]
  BY TypeParts DEF RestTyped
<1>2. to \in ArmStates
  BY <1>1 DEF ArmStates
<1>3. /\ arm[s].pc = "process"
      /\ arm' = [arm EXCEPT ![s].pc = to, ![s].rolled = TRUE]
      /\ visible' = [visible EXCEPT ![s] = arm[s].seen]
      /\ UNCHANGED <<ctl, gateWakers, prerollWakers, drv, runner, src, owes, aim>>
  BY DEF Processed
<1>4. /\ visible' \in [Sinks -> Int]
      /\ visible'[s] = arm[s].seen
      /\ \A t \in Sinks \ {s} : visible'[t] = visible[t]
  BY <1>1, <1>3 DEF ArmRec
<1> HIDE DEF to
<1>5. arm' = [arm EXCEPT ![s] = r]
  <2>1. PICK q : /\ arm' = [arm EXCEPT ![s] = q]
                 /\ q = [arm[s] EXCEPT !.pc = to, !.rolled = TRUE]
    BY <1>1, <1>3
  <2>2. q = r
    BY <1>1, <2>1 DEF ArmRec
  <2> QED  BY <2>1, <2>2
<1>6. r \in ArmRec
  BY <1>1, <1>2 DEF ArmRec
<1>7. arm' \in [Sinks -> ArmRec] /\ OthersKept(s) /\ arm'[s] = r
  BY <1>1, <1>5, <1>6, ArmReplaced
<1>8. /\ r.pc = to /\ r.rolled = TRUE /\ r.gen = arm[s].gen
      /\ r.flushing = arm[s].flushing /\ r.seen = arm[s].seen
  OBVIOUS
<1> HIDE DEF r
<1> QED  BY <1>3, <1>4, <1>7, <1>8 DEF to

(* The arms start.                                                         *)
LEMMA ArmsStarted ==
  ASSUME TypeOK, ArmStore
  PROVE  /\ arm' \in [Sinks -> ArmRec]
         /\ \A s \in Sinks : /\ arm'[s].pc = "gate" /\ arm'[s].gen = ctl.gen
                             /\ arm'[s].rolled = arm[s].rolled
                             /\ arm'[s].flushing = arm[s].flushing
                             /\ arm'[s].seen = arm[s].seen
<1>1. ASSUME NEW s \in Sinks
      PROVE  /\ arm'[s] \in ArmRec
             /\ arm'[s].pc = "gate" /\ arm'[s].gen = ctl.gen
             /\ arm'[s].rolled = arm[s].rolled
             /\ arm'[s].flushing = arm[s].flushing
             /\ arm'[s].seen = arm[s].seen
  <2>1. arm[s] \in ArmRec /\ ctl.gen \in Nat
    BY TypeParts DEF RestTyped, CtlRec
  <2>2. arm'[s] = [arm[s] EXCEPT !.pc = "gate", !.gen = ctl.gen]
    BY DEF ArmStore
  <2> QED  BY <2>1, <2>2 DEF ArmRec, ArmStates
<1> QED  BY <1>1 DEF ArmStore

(* The frames ahead of a Flush, whatever their number.                     *)
LEMMA SeekServed ==
  ASSUME TypeOK, ServeSeek
  PROVE  /\ arm' \in [Sinks -> ArmRec]
         /\ \A s \in Sinks : Kept(s) /\ arm'[s].pc = arm[s].pc
<1>1. PICK held \in [Sinks -> 0 .. LinkCapacity] :
        arm' = [s \in Sinks |-> [arm[s] EXCEPT
                   !.stale = IF arm[s].seen = src.flushes /\ ~src.ended
                             THEN held[s] ELSE @]]
  BY DEF ServeSeek
<1>2. ASSUME NEW s \in Sinks
      PROVE  arm'[s] \in ArmRec /\ Kept(s) /\ arm'[s].pc = arm[s].pc
  <2>1. arm[s] \in ArmRec /\ held[s] \in Nat
    BY TypeParts, ControllerAssumption
  <2>2. PICK n \in Nat : arm'[s] = [arm[s] EXCEPT !.stale = n]
    <3>1. CASE arm[s].seen = src.flushes /\ ~src.ended
      BY <1>1, <2>1, <3>1
    <3>2. CASE ~(arm[s].seen = src.flushes /\ ~src.ended)
      <4>1. arm'[s] = [arm[s] EXCEPT !.stale = arm[s].stale]
        BY <1>1, <3>2
      <4> QED  BY <2>1, <4>1 DEF ArmRec
    <3> QED  BY <3>1, <3>2
  <2> QED  BY <2>1, <2>2 DEF ArmRec, Kept
<1> QED  BY <1>1, <1>2

-----------------------------------------------------------------------------
(* What each step does to the drivers.                                     *)

(* A driver's call moves on.                                               *)
LEMMA DriverMoved ==
  ASSUME drv \in [Drivers -> DrvRec], NEW d \in Drivers, NEW to \in DrvStates,
         drv' = [drv EXCEPT ![d].pc = to]
  PROVE  /\ drv' \in [Drivers -> DrvRec]
         /\ \A e \in Drivers \ {d} : drv'[e] = drv[e]
         /\ drv'[d].pc = to /\ drv'[d].new = drv[d].new
         /\ drv'[d].resolved = drv[d].resolved
<1>1. PICK r : r = [drv[d] EXCEPT !.pc = to] /\ drv' = [drv EXCEPT ![d] = r]
  OBVIOUS
<1>2. r \in DrvRec /\ r.pc = to /\ r.new = drv[d].new /\ r.resolved = drv[d].resolved
  BY <1>1 DEF DrvRec
<1> QED  BY <1>1, <1>2

(* The drivers parked in the preroll gate are let go.                      *)
LEMMA DriversWoken ==
  ASSUME drv \in [Drivers -> DrvRec]
  PROVE  /\ Woken \in [Drivers -> DrvRec]
         /\ \A e \in Drivers :
               /\ Woken[e].new = drv[e].new /\ Woken[e].resolved = drv[e].resolved
               /\ \/ Woken[e].pc = drv[e].pc
                  \/ drv[e].pc = "parked" /\ Woken[e].pc = "poll"
<1>1. ASSUME NEW e \in Drivers
      PROVE  /\ Woken[e] \in DrvRec
             /\ Woken[e].new = drv[e].new /\ Woken[e].resolved = drv[e].resolved
             /\ \/ Woken[e].pc = drv[e].pc
                \/ drv[e].pc = "parked" /\ Woken[e].pc = "poll"
  <2>1. PICK r : r = [drv[e] EXCEPT !.pc = "poll"]
    OBVIOUS
  <2>2. r \in DrvRec /\ r.pc = "poll" /\ r.new = drv[e].new
        /\ r.resolved = drv[e].resolved
    BY <2>1 DEF DrvRec, DrvStates
  <2>3. Woken[e] = drv[e] \/ (drv[e].pc = "parked" /\ Woken[e] = r)
    BY <2>1 DEF Woken
  <2> QED  BY <2>2, <2>3
<1> QED  BY <1>1 DEF Woken

(* The announcement, which lets the others go.                             *)
LEMMA DriverAnnounced ==
  ASSUME drv \in [Drivers -> DrvRec], NEW d \in Drivers, DriverAnnounce(d)
  PROVE  /\ drv' \in [Drivers -> DrvRec]
         /\ drv'[d].pc = "idle" /\ drv'[d].resolved = drv[d].resolved
<1>1. PICK r : r = [Woken[d] EXCEPT !.pc = "idle"] /\ drv' = [Woken EXCEPT ![d] = r]
  BY DEF DriverAnnounce
<1>2. r \in DrvRec /\ r.pc = "idle" /\ r.resolved = drv[d].resolved
  BY <1>1, DriversWoken DEF DrvRec, DrvStates
<1> QED  BY <1>1, <1>2, DriversWoken

(* How a call and a seek begin.                                            *)
Begins(d, to, new) ==
    drv' = [drv EXCEPT ![d].pc = to, ![d].new = new, ![d].ops = @ + 1,
                       ![d].resolved = FALSE]

(* The driver after set_state was called.                                  *)
LEMMA StateAsked ==
  ASSUME drv \in [Drivers -> DrvRec], NEW d \in Drivers, NEW new \in States,
         NEW to \in DrvStates, Begins(d, to, new)
  PROVE  /\ drv' \in [Drivers -> DrvRec]
         /\ drv'[d].pc = to /\ drv'[d].new = new /\ drv'[d].resolved = FALSE
<1> DEFINE r == [pc |-> to, new |-> new, count |-> drv[d].count, resolved |-> FALSE,
                 ops |-> drv[d].ops + 1]
<1>1. PICK q : /\ drv' = [drv EXCEPT ![d] = q]
               /\ q = [drv[d] EXCEPT !.pc = to, !.new = new, !.ops = @ + 1,
                                     !.resolved = FALSE]
  BY DEF Begins
<1>2. drv[d] \in DrvRec
  OBVIOUS
<1>3. q = r
  BY <1>1, <1>2 DEF DrvRec
<1>4. r \in DrvRec /\ r.pc = to /\ r.new = new /\ r.resolved = FALSE
  BY <1>2 DEF DrvRec
<1> HIDE DEF r
<1>5. drv' = [drv EXCEPT ![d] = r]
  BY <1>1, <1>3
<1> QED  BY <1>4, <1>5

BeginsSeek(d) ==
    drv' = [drv EXCEPT ![d].pc = "request", ![d].ops = @ + 1,
                       ![d].resolved = FALSE]

(* The driver after a seek was asked for.                                  *)
LEMMA SeekAsked ==
  ASSUME drv \in [Drivers -> DrvRec], NEW d \in Drivers, BeginsSeek(d)
  PROVE  /\ drv' \in [Drivers -> DrvRec]
         /\ drv'[d].pc = "request" /\ drv'[d].resolved = FALSE
<1> DEFINE r == [pc |-> "request", new |-> drv[d].new, count |-> drv[d].count,
                 resolved |-> FALSE, ops |-> drv[d].ops + 1]
<1>1. PICK q : /\ drv' = [drv EXCEPT ![d] = q]
               /\ q = [drv[d] EXCEPT !.pc = "request", !.ops = @ + 1,
                                     !.resolved = FALSE]
  BY DEF BeginsSeek
<1>2. drv[d] \in DrvRec
  OBVIOUS
<1>3. q = r
  BY <1>1, <1>2 DEF DrvRec
<1>4. r \in DrvRec /\ r.pc = "request" /\ r.resolved = FALSE
  BY <1>2 DEF DrvRec, DrvStates
<1> HIDE DEF r
<1>5. drv' = [drv EXCEPT ![d] = r]
  BY <1>1, <1>3
<1> QED  BY <1>4, <1>5

(* The driver after it read preroll_target on the way down.                *)
LEMMA TargetLoaded ==
  ASSUME drv \in [Drivers -> DrvRec], ctl \in CtlRec, NEW d \in Drivers, SetStateLoad(d)
  PROVE  /\ drv' \in [Drivers -> DrvRec]
         /\ \A e \in Drivers \ {d} : drv'[e] = drv[e]
         /\ drv'[d].pc = "store" /\ drv'[d].count = ctl.target
         /\ drv'[d].new = drv[d].new /\ drv'[d].resolved = drv[d].resolved
<1>1. PICK r : /\ drv' = [drv EXCEPT ![d] = r]
               /\ r = [drv[d] EXCEPT !.pc = "store", !.count = ctl.target]
  BY DEF SetStateLoad
<1>2. drv[d] \in DrvRec /\ ctl.target \in Nat
  BY DEF CtlRec
<1>3. /\ r \in DrvRec /\ r.pc = "store" /\ r.count = ctl.target
      /\ r.new = drv[d].new /\ r.resolved = drv[d].resolved
  BY <1>1, <1>2 DEF DrvRec, DrvStates
<1> QED  BY <1>1, <1>3

(* A poll of the preroll gate.                                             *)
LEMMA PrerollPolled ==
  ASSUME drv \in [Drivers -> DrvRec], NEW d \in Drivers, PollPreroll(d)
  PROVE  /\ drv' \in [Drivers -> DrvRec]
         /\ \/ ctl.prerolled /\ drv'[d].pc = "idle" /\ drv'[d].resolved = TRUE
            \/ drv'[d].pc = "parked" /\ drv'[d].resolved = drv[d].resolved
<1>1. CASE ctl.prerolled
  <2> DEFINE r == [pc |-> "idle", new |-> drv[d].new, count |-> drv[d].count,
                   resolved |-> TRUE, ops |-> drv[d].ops]
  <2>1. PICK q : /\ drv' = [drv EXCEPT ![d] = q]
                 /\ q = [drv[d] EXCEPT !.pc = "idle", !.resolved = TRUE]
    BY <1>1 DEF PollPreroll
  <2>2. q = r
    BY <2>1 DEF DrvRec
  <2>3. r \in DrvRec
    BY DEF DrvRec, DrvStates
  <2> QED  BY <1>1, <2>1, <2>2, <2>3
<1>2. CASE ~ctl.prerolled
  <2>1. drv' = [drv EXCEPT ![d].pc = "parked"] /\ "parked" \in DrvStates
    BY <1>2 DEF PollPreroll, DrvStates
  <2> QED  BY <2>1, DriverMoved
<1> QED  BY <1>1, <1>2

-----------------------------------------------------------------------------
(* Types.                                                                  *)

(* The startup and the source.                                             *)
LEMMA RunnerTyped ==
  ASSUME TypeOK, RunnerStep \/ SourceStep
  PROVE  TypeOK'
<1> USE TypeParts
<1>1. CASE ExpectTarget
  <2>1. Cardinality(Sinks) \in Nat
    BY ControllerAssumption, FS_CardinalityType
  <2> QED  BY <1>1, <2>1 DEF ExpectTarget, RestTyped, CtlRec
<1>2. CASE ExpectPending
  <2>1. Cardinality(Sinks) \in Nat
    BY ControllerAssumption, FS_CardinalityType
  <2> QED  BY <1>2, <2>1 DEF ExpectPending, RestTyped, CtlRec
<1>3. CASE ArmCheck
  BY <1>3 DEF ArmCheck, RestTyped
<1>4. CASE ArmStore
  <2>1. ctl' \in CtlRec
    BY <1>4 DEF ArmStore, RestTyped, CtlRec
  <2> QED  BY <1>4, <2>1, ArmsStarted DEF ArmStore, RestTyped
<1>5. CASE ServeSeek
  <2>1. src' \in SrcRec
    <3>1. src \in SrcRec
      BY DEF RestTyped
    <3>2. src' = [src EXCEPT !.pending = FALSE, !.flushes = @ + 1, !.ended = FALSE]
      BY <1>5 DEF ServeSeek
    <3>3. src' = [pending |-> FALSE, flushes |-> src.flushes + 1, ended |-> FALSE]
      BY <3>1, <3>2 DEF SrcRec
    <3> QED  BY <3>1, <3>3 DEF SrcRec
  <2> QED  BY <1>5, <2>1, SeekServed DEF ServeSeek, RestTyped
<1>6. CASE SourceEnds
  BY <1>6 DEF SourceEnds, RestTyped, SrcRec
<1> QED  BY <1>1, <1>2, <1>3, <1>4, <1>5, <1>6 DEF RunnerStep, SourceStep

(* What a driver calls.                                                    *)
LEMMA CallTyped ==
  ASSUME TypeOK, NEW d \in Drivers, Call(d)
  PROVE  TypeOK'
<1> USE TypeParts
<1>1. ASSUME NEW new \in Targets, SetState(d, new) PROVE TypeOK'
  <2>1. new \in States
    BY ControllerAssumption DEF States
  <2>2. ctl' \in CtlRec
    BY <1>1, <2>1 DEF SetState, RestTyped, CtlRec
  <2>3. PICK to \in DrvStates : Begins(d, to, new)
    BY <1>1 DEF SetState, Begins, DrvStates
  <2>4. drv' \in [Drivers -> DrvRec]
    BY <2>1, <2>3, StateAsked
  <2> QED  BY <1>1, <2>2, <2>4 DEF SetState, RestTyped
<1>2. CASE PausedSeek(d)
  <2>1. BeginsSeek(d)
    BY <1>2 DEF PausedSeek, BeginsSeek
  <2>2. src' \in SrcRec
    BY <1>2 DEF PausedSeek, RestTyped, SrcRec
  <2> QED  BY <1>2, <2>1, <2>2, SeekAsked DEF PausedSeek, RestTyped
<1>3. CASE AwaitPrerolled(d)
  <2>1. "poll" \in DrvStates /\ drv' = [drv EXCEPT ![d].pc = "poll"]
    BY <1>3 DEF DrvStates, AwaitPrerolled
  <2> QED  BY <1>3, <2>1, DriverMoved DEF AwaitPrerolled, RestTyped
<1> QED  BY <1>1, <1>2, <1>3 DEF Call

(* What it goes on with.                                                   *)
LEMMA CallStepTyped ==
  ASSUME TypeOK, NEW d \in Drivers, CallStep(d)
  PROVE  TypeOK'
<1> USE TypeParts
<1>0. /\ drv \in [Drivers -> DrvRec] /\ RestTyped /\ ctl.target \in Nat
      /\ arm \in [Sinks -> ArmRec]
  BY DEF RestTyped, CtlRec
<1>1. CASE SetStateWake(d)
  <2>1. PICK to \in DrvStates : drv' = [drv EXCEPT ![d].pc = to]
    BY <1>1 DEF DrvStates, SetStateWake
  <2> QED  BY <1>0, <1>1, <2>1, DriverMoved, GatesWoken DEF SetStateWake, RestTyped
<1>2. CASE SetStateAnchor(d)
  <2>1. "settle" \in DrvStates /\ drv' = [drv EXCEPT ![d].pc = "settle"]
    BY <1>2 DEF DrvStates, SetStateAnchor
  <2>2. ctl' \in CtlRec
    BY <1>0, <1>2 DEF SetStateAnchor, RestTyped, CtlRec
  <2> QED  BY <1>0, <1>2, <2>1, <2>2, DriverMoved DEF SetStateAnchor, RestTyped
<1>3. CASE SetStateSettle(d)
  <2>1. "latch" \in DrvStates /\ drv' = [drv EXCEPT ![d].pc = "latch"]
    BY <1>3 DEF DrvStates, SetStateSettle
  <2>2. ctl' \in CtlRec /\ owes' \subseteq Sinks
    BY <1>0, <1>3 DEF SetStateSettle, RestTyped, CtlRec
  <2> QED  BY <1>0, <1>3, <2>1, <2>2, DriverMoved DEF SetStateSettle, RestTyped
<1>3a. CASE SetStateLoad(d)
  BY <1>0, <1>3a, TargetLoaded DEF SetStateLoad, RestTyped
<1>3b. CASE SetStateStore(d)
  <2>1. "unlatch" \in DrvStates /\ drv' = [drv EXCEPT ![d].pc = "unlatch"]
    BY <1>3b DEF DrvStates, SetStateStore
  <2>2. drv[d].count \in Nat
    BY <1>0 DEF DrvRec
  <2>3. ctl' \in CtlRec
    BY <1>0, <1>3b, <2>2 DEF SetStateStore, RestTyped, CtlRec
  <2> QED  BY <1>0, <1>3b, <2>1, <2>3, DriverMoved DEF SetStateStore, RestTyped
<1>4. CASE SetStateUnlatch(d)
  <2>1. "idle" \in DrvStates /\ drv' = [drv EXCEPT ![d].pc = "idle"]
    BY <1>4 DEF DrvStates, SetStateUnlatch
  <2>2. ctl' \in CtlRec
    BY <1>0, <1>4 DEF SetStateUnlatch, RestTyped, CtlRec
  <2> QED  BY <1>0, <1>4, <2>1, <2>2, DriverMoved DEF SetStateUnlatch, RestTyped
<1>5. CASE DriverLatch(d)
  <2>1. PICK to \in DrvStates : drv' = [drv EXCEPT ![d].pc = to]
    BY <1>5 DEF DrvStates, DriverLatch
  <2>2. ctl' \in CtlRec
    BY <1>0, <1>5 DEF DriverLatch, RestTyped, CtlRec
  <2> QED  BY <1>0, <1>5, <2>1, <2>2, DriverMoved DEF DriverLatch, RestTyped
<1>6. CASE DriverAnnounce(d)
  BY <1>0, <1>6, DriverAnnounced DEF DriverAnnounce, RestTyped
<1>7. CASE RequestCheck(d)
  <2>1. PICK to \in DrvStates : drv' = [drv EXCEPT ![d].pc = to]
    BY <1>7 DEF DrvStates, RequestCheck
  <2> QED  BY <1>0, <1>7, <2>1, DriverMoved DEF RequestCheck, RestTyped
<1>8. CASE RequestBump(d)
  <2>1. "drop" \in DrvStates /\ drv' = [drv EXCEPT ![d].pc = "drop"]
    BY <1>8 DEF DrvStates, RequestBump
  <2>2. ctl' \in CtlRec
    BY <1>0, <1>8 DEF RequestBump, RestTyped, CtlRec
  <2> QED  BY <1>0, <1>8, <2>1, <2>2, DriverMoved DEF RequestBump, RestTyped
<1>9. CASE RequestDrop(d)
  <2>1. "rearm" \in DrvStates /\ drv' = [drv EXCEPT ![d].pc = "rearm"]
    BY <1>9 DEF DrvStates, RequestDrop
  <2>2. ctl' \in CtlRec
    BY <1>0, <1>9 DEF RequestDrop, RestTyped, CtlRec
  <2> QED  BY <1>0, <1>9, <2>1, <2>2, DriverMoved DEF RequestDrop, RestTyped
<1>10. CASE RequestRearm(d)
  <2>1. "rouse" \in DrvStates /\ drv' = [drv EXCEPT ![d].pc = "rouse"]
    BY <1>10 DEF DrvStates, RequestRearm
  <2>2. ctl' \in CtlRec
    BY <1>0, <1>10 DEF RequestRearm, RestTyped, CtlRec
  <2>3. aim' \in Nat
    BY <1>0, <1>10 DEF RequestRearm, RestTyped, SrcRec
  <2> QED  BY <1>0, <1>10, <2>1, <2>2, <2>3, DriverMoved DEF RequestRearm, RestTyped
<1>11. CASE RequestRouse(d)
  <2>1. "idle" \in DrvStates /\ drv' = [drv EXCEPT ![d].pc = "idle"]
    BY <1>11 DEF DrvStates, RequestRouse
  <2> QED  BY <1>0, <1>11, <2>1, DriverMoved, GatesWoken DEF RequestRouse, RestTyped
<1>12. CASE PollPreroll(d)
  <2>1. prerollWakers' \subseteq Drivers
    BY <1>0, <1>12 DEF PollPreroll, RestTyped
  <2> QED  BY <1>0, <1>12, <2>1, PrerollPolled DEF PollPreroll, RestTyped
<1> QED  BY <1>1, <1>2, <1>3, <1>4, <1>5, <1>6, <1>7, <1>8, <1>9, <1>10, <1>11, <1>12,
            <1>3a, <1>3b DEF CallStep

(* A sink arm's steps.                                                     *)
LEMMA SinkTyped ==
  ASSUME TypeOK, NEW s \in Sinks, SinkStep(s)
  PROVE  TypeOK'
<1> USE TypeParts
<1>0. /\ drv \in [Drivers -> DrvRec] /\ RestTyped
      /\ arm \in [Sinks -> ArmRec]
  OBVIOUS
<1>1. CASE PollGate(s)
  <2>1. PICK to \in ArmStates : arm' = [arm EXCEPT ![s].pc = to]
    BY <1>1 DEF ArmStates, PollGate
  <2>2. gateWakers' \subseteq Sinks
    BY <1>0, <1>1 DEF PollGate, RestTyped
  <2> QED  BY <1>0, <1>1, <2>1, <2>2, ArmMoved DEF PollGate, RestTyped
<1>2. CASE ReadGeneration(s)
  BY <1>0, <1>2, GenerationRead DEF RestTyped
<1>3. CASE TakeFrame(s)
  BY <1>0, <1>3, FrameTaken DEF RestTyped
<1>4. CASE TakeFlush(s)
  BY <1>0, <1>4, FlushTaken DEF RestTyped
<1>5. CASE TakeEos(s)
  BY <1>0, <1>5, EosTaken DEF RestTyped
<1>6. CASE Processed(s)
  BY <1>0, <1>6, FrameShown DEF RestTyped
<1>7. CASE Notify(s)
  <2>1. PICK to \in ArmStates : arm' = [arm EXCEPT ![s].pc = to]
    BY <1>7 DEF ArmStates, Notify
  <2>2. ctl' \in CtlRec
    BY <1>0, <1>7 DEF Notify, RestTyped, CtlRec
  <2>3. owes' \subseteq Sinks
    BY <1>0, <1>7 DEF Notify, RestTyped
  <2> QED  BY <1>0, <1>7, <2>1, <2>2, <2>3, ArmMoved DEF Notify, RestTyped
<1>8. CASE SinkLatch(s)
  <2>1. PICK to \in ArmStates : arm' = [arm EXCEPT ![s].pc = to]
    BY <1>8 DEF ArmStates, SinkLatch
  <2>2. ctl' \in CtlRec
    BY <1>0, <1>8 DEF SinkLatch, RestTyped, CtlRec
  <2> QED  BY <1>0, <1>8, <2>1, <2>2, ArmMoved DEF SinkLatch, RestTyped
<1>9. CASE SinkAnnounce(s)
  <2>1. "gate" \in ArmStates /\ arm' = [arm EXCEPT ![s].pc = "gate"]
    BY <1>9 DEF ArmStates, SinkAnnounce
  <2> QED  BY <1>0, <1>9, <2>1, ArmMoved, DriversWoken DEF SinkAnnounce, RestTyped
<1> QED  BY <1>1, <1>2, <1>3, <1>4, <1>5, <1>6, <1>7, <1>8, <1>9 DEF SinkStep

(* The first state.                                                        *)
LEMMA InitTyped == Init => TypeOK
<1> SUFFICES ASSUME Init PROVE TypeOK
  OBVIOUS
<1>1. ctl \in CtlRec
  BY DEF Init, CtlRec, States
<1>2. arm \in [Sinks -> ArmRec]
  BY DEF Init, ArmRec, ArmStates
<1>3. drv \in [Drivers -> DrvRec]
  BY DEF Init, DrvRec, DrvStates, States
<1>4. RestTyped
  BY <1>1 DEF Init, RestTyped, SrcRec
<1> QED  BY <1>2, <1>3, <1>4, TypeParts

(* Every step.                                                             *)
LEMMA StepTyped == TypeOK /\ [Next]_vars => TypeOK'
<1> SUFFICES ASSUME TypeOK, [Next]_vars PROVE TypeOK'
  OBVIOUS
<1>1. CASE UNCHANGED vars
  BY <1>1, TypeParts DEF vars, RestTyped
<1> QED  BY <1>1, RunnerTyped, CallTyped, CallStepTyped, SinkTyped DEF Next

(* The controller's atomics, the arms, the drivers and the source hold     *)
(* values of their kind whatever runs on however many threads.             *)
THEOREM TypeCorrect == Spec => []TypeOK
<1> QED  BY InitTyped, StepTyped, PTL DEF Spec

-----------------------------------------------------------------------------
(* Preroll.                                                                *)

(* The setting of the theorems: one application task that awaits each      *)
(* preroll, on the executor thread the arms run on.                        *)
OneDriver == \A d, e \in Drivers : d = e
Awaited == OneDriver /\ ~Threaded /\ Patient

DriverIn(S) == \E d \in Drivers : drv[d].pc \in S

(* A sink that has prerolled since preroll was last re-armed.              *)
Settled(s) ==
    arm[s].rolled /\ arm[s].gen = ctl.gen /\ arm[s].pc # "notify"

(* The runner's startup: the arms are off until it is over.                *)
StartInv ==
    /\ runner # "running" =>
          /\ \A s \in Sinks : arm[s].pc = "off" /\ ~arm[s].rolled
          /\ owes = Sinks \/ (owes = {} /\ ctl.live)
    /\ runner # "target" => ctl.target = Cardinality(Sinks)

(* The count of prerolls owed is the number of sinks that owe one.         *)
CountInv ==
    /\ runner \notin {"target", "pending"} /\ ~DriverIn({"unlatch"}) =>
          owes = {} \/ ctl.pending = Cardinality(owes)
    /\ DriverIn({"unlatch"}) => ctl.pending = ctl.target

(* Whoever owes none has prerolled, unless the pipeline is live and was    *)
(* set to Playing without any preroll.                                     *)
OwesInv ==
    /\ ~DriverIn({"drop", "rearm"}) =>
          \/ owes = {} /\ ctl.live
          \/ \A s \in Sinks \ owes : Settled(s)
    /\ ctl.prerolled => owes = {}
    /\ \A s \in Sinks : arm[s].pc = "latch" => owes = {}

(* An arm that has yet to preroll has seen the present generation.         *)
ArmFresh(s) ==
    /\ ~arm[s].rolled => arm[s].gen = ctl.gen
    /\ arm[s].pc = "notify" => arm[s].rolled /\ arm[s].gen = ctl.gen
ArmInv == runner = "running" => \A s \in Sinks : ArmFresh(s)

(* Where the application stands.                                           *)
DriverInv ==
    \A d \in Drivers :
        /\ drv[d].pc \in {"wake", "anchor", "settle"} /\ drv[d].new = "Playing" =>
              owes = {} \/ ctl.live
        /\ drv[d].pc = "store" => drv[d].count = ctl.target
        /\ drv[d].pc = "latch" => owes = {}
        /\ drv[d].pc \in {"request", "bump", "drop", "rearm", "rouse"} => ~ctl.live
        /\ drv[d].pc \in {"request", "bump"} => owes = {}
        /\ drv[d].pc = "rearm" => ~ctl.prerolled
        /\ drv[d].resolved => ctl.prerolled /\ drv[d].pc = "idle"

PrerollInv ==
    TypeOK /\ StartInv /\ CountInv /\ OwesInv /\ ArmInv /\ DriverInv
(* On one thread nobody else is between two awaits.                        *)
LEMMA NobodyElse ==
  ASSUME ~Threaded
  PROVE  /\ \A s \in Sinks : MayRun(s) =>
                /\ \A d \in Drivers : drv[d].pc \in {"idle", "poll", "parked"}
                /\ runner \notin {"pending", "stamped", "unstamped"}
         /\ \A d \in Drivers : MayRun(d) =>
                /\ \A s \in Sinks : arm[s].pc \notin {"admitted", "notify", "latch",
                                                      "announce"}
                /\ runner \notin {"pending", "stamped", "unstamped"}
         /\ MayRun("runner") \/ MayRun("source") =>
                \A d \in Drivers : drv[d].pc \in {"idle", "poll", "parked"}
<1>1. ASSUME NEW x, MayRun(x) PROVE Busy \subseteq {x}
  BY <1>1 DEF MayRun
<1>2. \A d \in Drivers : drv[d].pc \notin {"idle", "poll", "parked"} => d \in Busy
  BY DEF Busy
<1>3. \A s \in Sinks : arm[s].pc \in {"admitted", "notify", "latch", "announce"}
                       => s \in Busy
  BY DEF Busy
<1>4. runner \in {"pending", "stamped", "unstamped"} => "runner" \in Busy
  BY DEF Busy
<1>5. \A s \in Sinks, d \in Drivers : s # d
  BY ControllerAssumption
<1>6. \A x \in Sinks \cup Drivers : x # "runner" /\ x # "source"
  BY ControllerAssumption
<1>7. ASSUME NEW s \in Sinks, MayRun(s)
      PROVE  /\ \A d \in Drivers : drv[d].pc \in {"idle", "poll", "parked"}
             /\ runner \notin {"pending", "stamped", "unstamped"}
  BY <1>1, <1>2, <1>4, <1>5, <1>6, <1>7
<1>8. ASSUME NEW d \in Drivers, MayRun(d)
      PROVE  /\ \A s \in Sinks : arm[s].pc \notin {"admitted", "notify", "latch",
                                                   "announce"}
             /\ runner \notin {"pending", "stamped", "unstamped"}
  BY <1>1, <1>3, <1>4, <1>5, <1>6, <1>8
<1>9. ASSUME MayRun("runner") \/ MayRun("source")
      PROVE  \A d \in Drivers : drv[d].pc \in {"idle", "poll", "parked"}
  BY <1>1, <1>2, <1>6, <1>9
<1> QED  BY <1>7, <1>8, <1>9

(* The startup keeps the preroll invariant.                                *)
LEMMA RunnerPreroll ==
  ASSUME Awaited, PrerollInv, RunnerStep
  PROVE  PrerollInv'
<1>0. /\ \A d \in Drivers : drv[d].pc \in {"idle", "poll", "parked"}
      /\ drv' = drv /\ owes' = owes /\ TypeOK'
  BY NobodyElse, RunnerTyped DEF RunnerStep, Awaited, PrerollInv, ExpectTarget,
     ExpectPending, ArmCheck, ArmStore
<1>1. ASSUME ExpectTarget \/ ExpectPending \/ ArmCheck
      PROVE  /\ arm' = arm /\ runner # "running" /\ runner' # "running"
             /\ ctl'.live = ctl.live /\ ctl'.prerolled = ctl.prerolled
             /\ ctl'.gen = ctl.gen
             /\ runner' # "target" => ctl'.target = Cardinality(Sinks)
             /\ runner' \notin {"target", "pending"} =>
                   \/ ctl'.pending = Cardinality(Sinks)
                   \/ runner = "arm" /\ ctl'.pending = ctl.pending
  BY <1>1 DEF PrerollInv, TypeOK, StartInv, ExpectTarget, ExpectPending, ArmCheck
<1>2. CASE ExpectTarget \/ ExpectPending \/ ArmCheck
  <2>1. StartInv' /\ ArmInv' /\ DriverInv'
    BY <1>0, <1>1, <1>2 DEF PrerollInv, StartInv, ArmInv, DriverInv
  <2>2. CountInv'
    BY <1>0, <1>1, <1>2 DEF PrerollInv, StartInv, CountInv, DriverIn
  <2>3. OwesInv'
    BY <1>0, <1>1, <1>2 DEF PrerollInv, StartInv, OwesInv, DriverIn, Settled
  <2> QED  BY <1>0, <2>1, <2>2, <2>3 DEF PrerollInv
<1>3. CASE ArmStore
  <2>1. /\ \A s \in Sinks : /\ arm'[s].pc = "gate" /\ arm'[s].gen = ctl.gen
                            /\ arm'[s].rolled = arm[s].rolled
        /\ runner \in {"stamped", "unstamped"} /\ runner' = "running"
        /\ ctl'.live = ctl.live /\ ctl'.prerolled = ctl.prerolled
        /\ ctl'.gen = ctl.gen /\ ctl'.target = ctl.target
        /\ ctl'.pending = ctl.pending
    BY <1>3, ArmsStarted DEF ArmStore, PrerollInv, TypeOK
  <2>2. StartInv' /\ ArmInv' /\ DriverInv'
    BY <1>0, <2>1 DEF PrerollInv, StartInv, ArmInv, ArmFresh, DriverInv
  <2>3. CountInv'
    BY <1>0, <2>1 DEF PrerollInv, CountInv, DriverIn
  <2>4. OwesInv'
    BY <1>0, <2>1 DEF PrerollInv, StartInv, OwesInv, DriverIn, Settled
  <2> QED  BY <1>0, <2>2, <2>3, <2>4 DEF PrerollInv
<1> QED  BY <1>2, <1>3 DEF RunnerStep

(* So does the source.                                                     *)
LEMMA SourcePreroll ==
  ASSUME PrerollInv, SourceStep
  PROVE  PrerollInv'
<1>1. /\ \A s \in Sinks : Kept(s) /\ arm'[s].pc = arm[s].pc
      /\ ctl' = ctl /\ drv' = drv /\ owes' = owes /\ runner' = runner
  BY SeekServed DEF SourceStep, ServeSeek, SourceEnds, PrerollInv, Kept
<1>2. TypeOK'
  BY RunnerTyped DEF PrerollInv
<1> QED  BY <1>1, <1>2 DEF PrerollInv, StartInv, CountInv, OwesInv, ArmInv, ArmFresh,
           DriverInv, DriverIn, Settled, Kept

(* So does a sink step that leaves the count alone.                        *)
LEMMA QuietSink ==
  ASSUME PrerollInv, NEW s \in Sinks, TypeOK', arm[s].pc # "off", arm'[s].pc # "latch",
         drv' = drv, ctl' = ctl, owes' = owes, runner' = runner, OthersKept(s),
         Settled(s) => Settled(s)', ArmFresh(s)'
  PROVE  PrerollInv'
<1>1. runner = "running"
  BY DEF PrerollInv, StartInv
<1>2. StartInv' /\ CountInv' /\ DriverInv'
  BY <1>1 DEF PrerollInv, StartInv, CountInv, DriverInv, DriverIn
<1>3. OwesInv'
  BY DEF PrerollInv, OwesInv, OthersKept, Settled, DriverIn
<1>4. ArmInv'
  BY <1>1 DEF PrerollInv, ArmInv, ArmFresh, OthersKept
<1> QED  BY <1>2, <1>3, <1>4 DEF PrerollInv

(* A notification: it pays what its sink owes, and the last completes.     *)
LEMMA NotifyPreroll ==
  ASSUME Awaited, PrerollInv, NEW s \in Sinks, MayRun(s), Notify(s), TypeOK'
  PROVE  PrerollInv'
<1>1. /\ \A d \in Drivers : drv[d].pc \in {"idle", "poll", "parked"}
      /\ runner = "running" /\ ArmFresh(s)
  BY NobodyElse DEF Awaited, PrerollInv, StartInv, ArmInv, Notify
<1>2. /\ arm[s].pc = "notify" /\ arm[s].rolled /\ arm[s].gen = ctl.gen
      /\ drv' = drv /\ runner' = runner /\ owes' = owes \ {s}
      /\ ctl'.live = ctl.live /\ ctl'.prerolled = ctl.prerolled
      /\ ctl'.gen = ctl.gen /\ ctl'.target = ctl.target
      /\ ctl'.pending = IF ctl.pending = 0 THEN 0 ELSE ctl.pending - 1
  BY <1>1 DEF Notify, ArmFresh, PrerollInv, TypeOK
<1>3. /\ OthersKept(s) /\ Kept(s)
      /\ arm'[s].pc = IF ctl.pending = 1 THEN "latch" ELSE "gate"
  <2>1. PICK to \in ArmStates : /\ to = IF ctl.pending = 1 THEN "latch" ELSE "gate"
                                /\ arm' = [arm EXCEPT ![s].pc = to]
    BY DEF Notify, ArmStates
  <2>2. arm \in [Sinks -> ArmRec]
    BY TypeParts DEF PrerollInv
  <2> QED  BY <2>1, <2>2, ArmMoved
<1>4. ctl.pending \in Nat /\ IsFiniteSet(owes) /\ Cardinality(owes) \in Nat
  BY ControllerAssumption, FS_Subset, FS_CardinalityType DEF PrerollInv, TypeOK
<1>5. owes = {} \/ (s \in owes /\ ctl.pending = Cardinality(owes))
  BY <1>1, <1>2 DEF PrerollInv, CountInv, OwesInv, DriverIn, Settled
<1>6. s \in owes => Cardinality(owes \ {s}) = Cardinality(owes) - 1
  BY <1>4, FS_RemoveElement
<1>7. ctl.pending = 1 => owes' = {}
  <2>1. CASE owes = {}
    BY <1>2, <2>1
  <2>2. CASE s \in owes /\ ctl.pending = Cardinality(owes)
    BY <1>2, <1>4, <1>6, <2>2, FS_RemoveElement, FS_EmptySet
  <2> QED  BY <1>5, <2>1, <2>2
<1>8. owes' = {} \/ ctl'.pending = Cardinality(owes')
  <2>1. CASE owes = {}
    BY <1>2, <2>1
  <2>2. CASE s \in owes /\ ctl.pending = Cardinality(owes)
    <3>1. Cardinality(owes \ {s}) \in Nat
      BY <1>4, FS_RemoveElement, FS_CardinalityType
    <3>2. ctl'.pending = Cardinality(owes \ {s})
      BY <1>2, <1>4, <1>6, <2>2, <3>1
    <3> QED  BY <1>2, <3>2
  <2> QED  BY <1>5, <2>1, <2>2
<1>9. StartInv' /\ CountInv' /\ DriverInv'
  <2>1. StartInv' /\ CountInv'
    BY <1>1, <1>2, <1>8 DEF PrerollInv, StartInv, CountInv, DriverIn
  <2>2. DriverInv'
    BY <1>1, <1>2 DEF PrerollInv, DriverInv
  <2> QED  BY <2>1, <2>2
<1>10. OwesInv'
  <2>1. Settled(s)' /\ \A t \in Sinks \ {s} : Settled(t)' <=> Settled(t)
    BY <1>2, <1>3 DEF Settled, OthersKept, Kept
  <2>2. (owes' = {} /\ ctl'.live) \/ \A t \in Sinks \ owes' : Settled(t)'
    BY <1>1, <1>2, <2>1 DEF PrerollInv, OwesInv, DriverIn
  <2>3. ctl'.prerolled => owes' = {}
    BY <1>2 DEF PrerollInv, OwesInv
  <2>4. \A t \in Sinks : arm'[t].pc = "latch" => owes' = {}
    BY <1>2, <1>3, <1>7 DEF PrerollInv, OwesInv, OthersKept
  <2> QED  BY <2>2, <2>3, <2>4 DEF OwesInv
<1>11. ArmInv'
  BY <1>1, <1>2, <1>3 DEF PrerollInv, ArmInv, ArmFresh, OthersKept, Kept
<1> QED  BY <1>9, <1>10, <1>11 DEF PrerollInv

(* Every step of a sink arm keeps the preroll invariant.                   *)
LEMMA SinkPreroll ==
  ASSUME Awaited, PrerollInv, NEW s \in Sinks, SinkStep(s)
  PROVE  PrerollInv'
<1>1. /\ \A d \in Drivers : drv[d].pc \in {"idle", "poll", "parked"}
      /\ MayRun(s)
  BY NobodyElse DEF Awaited, SinkStep
<1>2. TypeOK /\ TypeOK' /\ arm \in [Sinks -> ArmRec]
  BY SinkTyped, TypeParts DEF PrerollInv
<1>3. arm[s].pc # "off" => ArmFresh(s)
  BY DEF PrerollInv, StartInv, ArmInv
<1>4. CASE PollGate(s)
  <2>1. PICK to \in ArmStates \ {"latch", "notify"} : arm' = [arm EXCEPT ![s].pc = to]
    BY <1>4 DEF PollGate, ArmStates
  <2>2. OthersKept(s) /\ Kept(s) /\ arm'[s].pc = to
    BY <1>2, <2>1, ArmMoved
  <2>3. /\ arm[s].pc = "gate" /\ drv' = drv /\ ctl' = ctl /\ owes' = owes
        /\ runner' = runner
    BY <1>4 DEF PollGate
  <2> HIDE DEF OthersKept
  <2>4. (Settled(s) => Settled(s)') /\ ArmFresh(s)'
    BY <1>3, <2>1, <2>2, <2>3 DEF Settled, ArmFresh, Kept
  <2> QED  BY <1>2, <2>1, <2>2, <2>3, <2>4, QuietSink
<1>5. CASE ReadGeneration(s)
  <2>1. (Settled(s) => Settled(s)') /\ ArmFresh(s)'
    BY <1>2, <1>3, <1>5, GenerationRead DEF Settled, ArmFresh
  <2> QED  BY <1>2, <1>5, <2>1, GenerationRead, QuietSink
<1>6. CASE TakeFrame(s)
  <2>1. (Settled(s) => Settled(s)') /\ ArmFresh(s)'
    BY <1>2, <1>3, <1>6, FrameTaken DEF Settled, ArmFresh, Kept
  <2> QED  BY <1>2, <1>6, <2>1, FrameTaken, QuietSink
<1>7. CASE TakeFlush(s)
  <2>1. (Settled(s) => Settled(s)') /\ ArmFresh(s)'
    BY <1>2, <1>3, <1>7, FlushTaken DEF Settled, ArmFresh
  <2> QED  BY <1>2, <1>7, <2>1, FlushTaken, QuietSink
<1>8. CASE TakeEos(s)
  <2>1. (Settled(s) => Settled(s)') /\ ArmFresh(s)'
    BY <1>2, <1>3, <1>8, EosTaken DEF Settled, ArmFresh
  <2> QED  BY <1>2, <1>8, <2>1, EosTaken, QuietSink
<1>9. CASE Processed(s)
  <2>1. (Settled(s) => Settled(s)') /\ ArmFresh(s)'
    BY <1>2, <1>3, <1>9, FrameShown DEF Settled, ArmFresh
  <2> QED  BY <1>2, <1>9, <2>1, FrameShown, QuietSink
<1>10. CASE Notify(s)
  BY <1>1, <1>2, <1>10, NotifyPreroll
<1>11. CASE SinkLatch(s)
  <2>1. PICK to \in {"gate", "announce"} : arm' = [arm EXCEPT ![s].pc = to]
    BY <1>11 DEF SinkLatch
  <2>2. OthersKept(s) /\ Kept(s) /\ arm'[s].pc = to
    BY <1>2, <2>1, ArmMoved DEF ArmStates
  <2>3. /\ arm[s].pc = "latch" /\ drv' = drv /\ owes' = owes
        /\ runner' = runner
        /\ ctl'.live = ctl.live /\ ctl'.gen = ctl.gen /\ ctl'.target = ctl.target
        /\ ctl'.pending = ctl.pending /\ ctl'.prerolled = TRUE
    BY <1>2, <1>11 DEF SinkLatch, TypeOK
  <2>4. owes = {} /\ runner = "running"
    BY <2>3 DEF PrerollInv, OwesInv, StartInv
  <2>5. StartInv' /\ CountInv' /\ DriverInv'
    BY <1>1, <2>3, <2>4 DEF PrerollInv, StartInv, CountInv, DriverInv, DriverIn
  <2>6. OwesInv'
    BY <1>1, <2>1, <2>2, <2>3, <2>4
       DEF PrerollInv, OwesInv, OthersKept, Kept, Settled, DriverIn
  <2>7. ArmInv'
    BY <2>1, <2>2, <2>3, <2>4 DEF PrerollInv, ArmInv, ArmFresh, OthersKept, Kept
  <2> QED  BY <1>2, <2>5, <2>6, <2>7 DEF PrerollInv
<1>12. CASE SinkAnnounce(s)
  <2>1. "gate" \in ArmStates /\ arm' = [arm EXCEPT ![s].pc = "gate"]
    BY <1>12 DEF SinkAnnounce, ArmStates
  <2>2. OthersKept(s) /\ Kept(s) /\ arm'[s].pc = "gate"
    BY <1>2, <2>1, ArmMoved
  <2>3. /\ arm[s].pc = "announce" /\ ctl' = ctl /\ owes' = owes /\ runner' = runner
        /\ drv' = Woken
    BY <1>12 DEF SinkAnnounce
  <2>4. \A d \in Drivers : /\ drv'[d].pc \in {"idle", "poll", "parked"}
                           /\ drv[d].pc = "idle" => drv'[d].pc = "idle"
                           /\ drv'[d].resolved = drv[d].resolved
    BY <1>1, <1>2, <2>3, TypeParts, DriversWoken
  <2>5. runner = "running"
    BY <2>3 DEF PrerollInv, StartInv
  <2>6. StartInv' /\ CountInv'
    BY <1>1, <2>3, <2>4, <2>5 DEF PrerollInv, StartInv, CountInv, DriverIn
  <2>7. DriverInv'
    BY <1>1, <2>3, <2>4 DEF PrerollInv, DriverInv
  <2>8. OwesInv'
    BY <1>1, <2>2, <2>3, <2>4
       DEF PrerollInv, OwesInv, OthersKept, Kept, Settled, DriverIn
  <2>9. ArmInv'
    BY <2>2, <2>3, <2>5 DEF PrerollInv, ArmInv, ArmFresh, OthersKept, Kept
  <2> QED  BY <1>2, <2>6, <2>7, <2>8, <2>9 DEF PrerollInv
<1> QED  BY <1>4, <1>5, <1>6, <1>7, <1>8, <1>9, <1>10, <1>11, <1>12 DEF SinkStep

(* The fields preroll is decided by.                                       *)
CountKept ==
    /\ ctl'.live = ctl.live /\ ctl'.prerolled = ctl.prerolled
    /\ ctl'.pending = ctl.pending /\ ctl'.target = ctl.target
    /\ ctl'.gen = ctl.gen

(* The arms stay where they are, or leave the gate's waker list.           *)
ArmsLeft ==
    \A s \in Sinks : /\ Kept(s)
                     /\ \/ arm'[s].pc = arm[s].pc
                        \/ arm[s].pc = "parked" /\ arm'[s].pc = "gate"

(* Arms as they were.                                                      *)
LEMMA ArmsAlone == arm' = arm => ArmsLeft
  BY DEF ArmsLeft, Kept

(* A driver step that neither re-arms preroll nor completes it.            *)
LEMMA QuietDriver ==
  ASSUME OneDriver, PrerollInv, TypeOK', NEW d \in Drivers, CountKept, ArmsLeft,
         owes' = owes, runner' = runner,
         drv[d].pc \notin {"drop", "rearm", "unlatch"},
         drv'[d].pc \notin {"drop", "rearm", "unlatch"},
         DriverInv'
  PROVE  PrerollInv'
<1>1. \A e \in Drivers : e = d
  BY DEF OneDriver
<1>2. StartInv'
  BY DEF PrerollInv, StartInv, CountKept, ArmsLeft, Kept
<1>3. CountInv'
  BY <1>1 DEF PrerollInv, CountInv, CountKept, DriverIn
<1>4. OwesInv'
  BY <1>1 DEF PrerollInv, OwesInv, CountKept, ArmsLeft, Kept, Settled, DriverIn
<1>5. ArmInv'
  BY DEF PrerollInv, ArmInv, ArmFresh, CountKept, ArmsLeft, Kept
<1> QED  BY <1>2, <1>3, <1>4, <1>5 DEF PrerollInv

(* A driver's calls keep the preroll invariant.                            *)
LEMMA CallPreroll ==
  ASSUME Awaited, PrerollInv, NEW d \in Drivers, Call(d)
  PROVE  PrerollInv'
<1>1. OneDriver /\ \A e \in Drivers : e = d
  BY DEF Awaited, OneDriver
<1>2. TypeOK /\ TypeOK' /\ drv \in [Drivers -> DrvRec]
  BY CallTyped, TypeParts DEF PrerollInv
<1>3. drv[d].resolved => owes = {}
  BY DEF PrerollInv, DriverInv, OwesInv
<1>4. ASSUME NEW new \in Targets, SetState(d, new) PROVE PrerollInv'
  <2>1. new \in States
    BY ControllerAssumption DEF States
  <2>2. PICK to \in {"idle", "wake"} : Begins(d, to, new)
    BY <1>4 DEF SetState, Begins
  <2>3. drv'[d].pc = to /\ drv'[d].new = new /\ drv'[d].resolved = FALSE
    <3>1. to \in DrvStates
      BY DEF DrvStates
    <3> QED  BY <1>2, <2>1, <2>2, <3>1, StateAsked
  <2>4. /\ CountKept /\ ArmsLeft /\ owes' = owes /\ runner' = runner
        /\ drv[d].pc = "idle"
    BY <1>2, <1>4, ArmsAlone DEF SetState, CountKept, TypeOK
  <2>5. new = "Playing" => owes = {} \/ ctl.live
    BY <1>3, <1>4 DEF SetState, MayGoOn, Awaited
  <2>6. DriverInv'
    BY <1>1, <2>2, <2>3, <2>4, <2>5 DEF DriverInv, CountKept
  <2> QED  BY <1>1, <1>2, <2>2, <2>3, <2>4, <2>6, QuietDriver
<1>5. CASE PausedSeek(d)
  <2>1. BeginsSeek(d)
    BY <1>5 DEF PausedSeek, BeginsSeek
  <2>2. drv'[d].pc = "request" /\ drv'[d].resolved = FALSE
    BY <1>2, <2>1, SeekAsked
  <2>3. /\ CountKept /\ ArmsLeft /\ owes' = owes /\ runner' = runner
        /\ drv[d].pc = "idle" /\ ~ctl.live
    BY <1>5, ArmsAlone DEF PausedSeek, CountKept
  <2>4. owes = {}
    BY <1>3, <1>5 DEF PausedSeek, MayGoOn, Awaited
  <2>5. DriverInv'
    BY <1>1, <2>2, <2>3, <2>4 DEF DriverInv, CountKept
  <2> QED  BY <1>1, <1>2, <2>2, <2>3, <2>5, QuietDriver
<1>6. CASE AwaitPrerolled(d)
  <2>1. drv' = [drv EXCEPT ![d].pc = "poll"] /\ "poll" \in DrvStates
    BY <1>6 DEF AwaitPrerolled, DrvStates
  <2>2. drv'[d].pc = "poll" /\ drv'[d].resolved = drv[d].resolved
    BY <1>2, <2>1, DriverMoved
  <2>3. /\ CountKept /\ ArmsLeft /\ owes' = owes /\ runner' = runner
        /\ drv[d].pc = "idle" /\ ~drv[d].resolved
    BY <1>6, ArmsAlone DEF AwaitPrerolled, CountKept
  <2>4. DriverInv'
    BY <1>1, <2>2, <2>3 DEF DriverInv, CountKept
  <2> QED  BY <1>1, <1>2, <2>2, <2>3, <2>4, QuietDriver
<1> QED  BY <1>4, <1>5, <1>6 DEF Call

(* A driver on its way keeps it too, re-arming included.                   *)
LEMMA CallStepPreroll ==
  ASSUME Awaited, PrerollInv, NEW d \in Drivers, CallStep(d)
  PROVE  PrerollInv'
<1>1. OneDriver /\ \A e \in Drivers : e = d
  BY DEF Awaited, OneDriver
<1>2. /\ TypeOK /\ TypeOK' /\ drv \in [Drivers -> DrvRec] /\ ctl \in CtlRec
      /\ arm \in [Sinks -> ArmRec]
  BY CallStepTyped, TypeParts DEF PrerollInv, RestTyped
<1>3. /\ \A s \in Sinks : arm[s].pc \notin {"admitted", "notify", "latch", "announce"}
      /\ runner \notin {"pending", "stamped", "unstamped"}
  BY NobodyElse DEF Awaited, CallStep
<1>4. drv[d].pc # "idle" => ~drv[d].resolved
  BY DEF PrerollInv, DriverInv
<1>5. ASSUME NEW to \in DrvStates, drv' = [drv EXCEPT ![d].pc = to]
      PROVE  /\ drv'[d].pc = to /\ drv'[d].new = drv[d].new
             /\ drv'[d].resolved = drv[d].resolved
  BY <1>2, <1>5, DriverMoved
<1>6. CASE SetStateWake(d)
  <2>1. PICK to \in {"idle", "anchor"} : drv' = [drv EXCEPT ![d].pc = to]
    BY <1>6 DEF SetStateWake
  <2>2. /\ drv'[d].pc = to /\ drv'[d].new = drv[d].new
        /\ drv'[d].resolved = drv[d].resolved
    BY <1>5, <2>1 DEF DrvStates
  <2>3. /\ drv[d].pc = "wake" /\ CountKept /\ ArmsLeft /\ owes' = owes
        /\ runner' = runner
    BY <1>2, <1>6, GatesWoken DEF SetStateWake, CountKept, ArmsLeft
  <2>4. DriverInv'
    BY <1>1, <1>4, <2>1, <2>2, <2>3 DEF PrerollInv, DriverInv, CountKept
  <2> QED  BY <1>1, <1>2, <2>1, <2>2, <2>3, <2>4, QuietDriver
<1>7. CASE SetStateAnchor(d)
  <2>1. drv' = [drv EXCEPT ![d].pc = "settle"] /\ "settle" \in DrvStates
    BY <1>7 DEF SetStateAnchor, DrvStates
  <2>2. /\ drv'[d].pc = "settle" /\ drv'[d].new = drv[d].new
        /\ drv'[d].resolved = drv[d].resolved
    BY <1>5, <2>1
  <2>3. /\ drv[d].pc = "anchor" /\ CountKept /\ ArmsLeft /\ owes' = owes
        /\ runner' = runner
    BY <1>2, <1>7, ArmsAlone DEF SetStateAnchor, CountKept, CtlRec
  <2>4. DriverInv'
    BY <1>1, <1>4, <2>1, <2>2, <2>3 DEF PrerollInv, DriverInv, CountKept
  <2> QED  BY <1>1, <1>2, <2>2, <2>3, <2>4, QuietDriver
<1>8. CASE DriverAnnounce(d)
  <2>1. drv'[d].pc = "idle" /\ drv'[d].resolved = drv[d].resolved
    BY <1>2, <1>8, DriverAnnounced
  <2>2. /\ drv[d].pc = "announce" /\ CountKept /\ ArmsLeft /\ owes' = owes
        /\ runner' = runner
    BY <1>8, ArmsAlone DEF DriverAnnounce, CountKept
  <2>3. DriverInv'
    BY <1>1, <1>4, <2>1, <2>2 DEF DriverInv, CountKept
  <2> QED  BY <1>1, <1>2, <2>1, <2>2, <2>3, QuietDriver
<1>9. CASE RequestCheck(d)
  <2>1. PICK to \in {"idle", "bump"} : drv' = [drv EXCEPT ![d].pc = to]
    BY <1>9 DEF RequestCheck
  <2>2. drv'[d].pc = to /\ drv'[d].resolved = drv[d].resolved
    BY <1>5, <2>1 DEF DrvStates
  <2>3. /\ drv[d].pc = "request" /\ CountKept /\ ArmsLeft /\ owes' = owes
        /\ runner' = runner
    BY <1>9, ArmsAlone DEF RequestCheck, CountKept
  <2>4. DriverInv'
    BY <1>1, <1>4, <2>1, <2>2, <2>3 DEF PrerollInv, DriverInv, CountKept
  <2> QED  BY <1>1, <1>2, <2>1, <2>2, <2>3, <2>4, QuietDriver
<1>10. CASE RequestRouse(d)
  <2>1. drv' = [drv EXCEPT ![d].pc = "idle"] /\ "idle" \in DrvStates
    BY <1>10 DEF RequestRouse, DrvStates
  <2>2. drv'[d].pc = "idle" /\ drv'[d].resolved = drv[d].resolved
    BY <1>5, <2>1
  <2>3. /\ drv[d].pc = "rouse" /\ CountKept /\ ArmsLeft /\ owes' = owes
        /\ runner' = runner
    BY <1>2, <1>10, GatesWoken DEF RequestRouse, CountKept, ArmsLeft
  <2>4. DriverInv'
    BY <1>1, <1>4, <2>2, <2>3 DEF DriverInv, CountKept
  <2> QED  BY <1>1, <1>2, <2>2, <2>3, <2>4, QuietDriver
<1>11. CASE PollPreroll(d)
  <2>1. \/ ctl.prerolled /\ drv'[d].pc = "idle" /\ drv'[d].resolved = TRUE
        \/ drv'[d].pc = "parked" /\ drv'[d].resolved = drv[d].resolved
    BY <1>2, <1>11, PrerollPolled
  <2>2. /\ drv[d].pc = "poll" /\ CountKept /\ ArmsLeft /\ owes' = owes
        /\ runner' = runner
    BY <1>11, ArmsAlone DEF PollPreroll, CountKept
  <2>3. DriverInv'
    BY <1>1, <1>4, <2>1, <2>2 DEF DriverInv, CountKept
  <2> QED  BY <1>1, <1>2, <2>1, <2>2, <2>3, QuietDriver
<1>12. CASE SetStateSettle(d)
  <2>1. /\ drv[d].pc = "settle" /\ arm' = arm /\ runner' = runner
        /\ ctl'.live = ctl.live /\ ctl'.prerolled = ctl.prerolled
        /\ ctl'.gen = ctl.gen /\ ctl'.target = ctl.target
        /\ drv' = [drv EXCEPT ![d].pc = "latch"] /\ "latch" \in DrvStates
        /\ owes' = {}
    BY <1>2, <1>12 DEF SetStateSettle, CtlRec, DrvStates
  <2>2. drv'[d].pc = "latch" /\ drv'[d].resolved = drv[d].resolved
    BY <1>5, <2>1
  <2>3. owes = {} \/ ctl.live
    BY <1>12, <2>1 DEF SetStateSettle, PrerollInv, DriverInv
  <2>4. StartInv'
    BY <2>1, <2>3, ControllerAssumption DEF PrerollInv, StartInv
  <2>5. CountInv' /\ DriverInv'
    BY <1>1, <1>4, <2>1, <2>2 DEF CountInv, DriverInv, DriverIn
  <2>6. OwesInv'
    BY <1>1, <2>1, <2>2, <2>3 DEF PrerollInv, OwesInv, Settled, DriverIn
  <2>7. ArmInv'
    BY <2>1 DEF PrerollInv, ArmInv, ArmFresh
  <2> QED  BY <1>2, <2>4, <2>5, <2>6, <2>7 DEF PrerollInv
<1>12a. CASE SetStateLoad(d)
  <2>1. /\ drv'[d].pc = "store" /\ drv'[d].count = ctl.target
        /\ drv'[d].resolved = drv[d].resolved
    BY <1>2, <1>12a, TargetLoaded
  <2>2. /\ drv[d].pc = "settle" /\ CountKept /\ ArmsLeft /\ owes' = owes
        /\ runner' = runner /\ ctl' = ctl
    BY <1>12a, ArmsAlone DEF SetStateLoad, CountKept
  <2>3. DriverInv'
    BY <1>1, <1>4, <2>1, <2>2 DEF DriverInv
  <2> QED  BY <1>1, <1>2, <2>1, <2>2, <2>3, QuietDriver
<1>12b. CASE SetStateStore(d)
  <2>1. /\ drv[d].pc = "store" /\ arm' = arm /\ runner' = runner /\ owes' = owes
        /\ ctl'.live = ctl.live /\ ctl'.prerolled = ctl.prerolled
        /\ ctl'.gen = ctl.gen /\ ctl'.target = ctl.target
        /\ ctl'.pending = drv[d].count
        /\ drv' = [drv EXCEPT ![d].pc = "unlatch"] /\ "unlatch" \in DrvStates
    BY <1>2, <1>12b DEF SetStateStore, DrvStates, CtlRec
  <2>2. drv'[d].pc = "unlatch" /\ drv'[d].resolved = drv[d].resolved
    BY <1>5, <2>1
  <2>3. drv[d].count = ctl.target
    BY <2>1 DEF PrerollInv, DriverInv
  <2>4. StartInv' /\ ArmInv'
    BY <2>1 DEF PrerollInv, StartInv, ArmInv, ArmFresh
  <2>5. CountInv' /\ DriverInv'
    BY <1>1, <1>4, <2>1, <2>2, <2>3 DEF CountInv, DriverInv, DriverIn
  <2>6. OwesInv'
    BY <1>1, <2>1, <2>2 DEF PrerollInv, OwesInv, Settled, DriverIn
  <2> QED  BY <1>2, <2>4, <2>5, <2>6 DEF PrerollInv
<1>13. CASE SetStateUnlatch(d)
  <2>1. /\ drv[d].pc = "unlatch" /\ arm' = arm /\ runner' = runner /\ owes' = Sinks
        /\ ctl'.live = ctl.live /\ ctl'.prerolled = FALSE
        /\ ctl'.gen = ctl.gen /\ ctl'.target = ctl.target
        /\ ctl'.pending = ctl.pending
        /\ drv' = [drv EXCEPT ![d].pc = "idle"] /\ "idle" \in DrvStates
    BY <1>2, <1>13 DEF SetStateUnlatch, CtlRec, DrvStates
  <2>2. drv'[d].pc = "idle" /\ drv'[d].resolved = drv[d].resolved
    BY <1>5, <2>1
  <2>3. StartInv' /\ ArmInv'
    BY <2>1 DEF PrerollInv, StartInv, ArmInv, ArmFresh
  <2>4. CountInv'
    BY <1>1, <2>1, <2>2 DEF PrerollInv, StartInv, CountInv, DriverIn
  <2>5. DriverInv'
    BY <1>1, <1>4, <2>1, <2>2 DEF DriverInv
  <2>6. OwesInv'
    BY <1>3, <2>1 DEF OwesInv
  <2> QED  BY <1>2, <2>3, <2>4, <2>5, <2>6 DEF PrerollInv
<1>14. CASE DriverLatch(d)
  <2>1. PICK to \in {"idle", "announce"} : drv' = [drv EXCEPT ![d].pc = to]
    BY <1>14 DEF DriverLatch
  <2>2. drv'[d].pc = to /\ drv'[d].resolved = drv[d].resolved
    BY <1>5, <2>1 DEF DrvStates
  <2>3. /\ drv[d].pc = "latch" /\ arm' = arm /\ runner' = runner /\ owes' = owes
        /\ ctl'.live = ctl.live /\ ctl'.prerolled = TRUE
        /\ ctl'.gen = ctl.gen /\ ctl'.target = ctl.target
        /\ ctl'.pending = ctl.pending
    BY <1>2, <1>14 DEF DriverLatch, CtlRec
  <2>4. owes = {}
    BY <2>3 DEF PrerollInv, DriverInv
  <2>5. StartInv' /\ ArmInv'
    BY <2>3 DEF PrerollInv, StartInv, ArmInv, ArmFresh
  <2>6. CountInv' /\ DriverInv'
    BY <1>1, <1>4, <2>1, <2>2, <2>3, <2>4 DEF CountInv, DriverInv, DriverIn
  <2>7. OwesInv'
    BY <1>1, <2>1, <2>2, <2>3, <2>4 DEF PrerollInv, OwesInv, Settled, DriverIn
  <2> QED  BY <1>2, <2>5, <2>6, <2>7 DEF PrerollInv
<1>15. CASE RequestBump(d)
  <2>1. /\ drv[d].pc = "bump" /\ arm' = arm /\ runner' = runner /\ owes' = owes
        /\ ctl'.live = ctl.live /\ ctl'.prerolled = ctl.prerolled
        /\ ctl'.gen = ctl.gen + 1 /\ ctl'.target = ctl.target
        /\ ctl'.pending = ctl.pending
        /\ drv' = [drv EXCEPT ![d].pc = "drop"] /\ "drop" \in DrvStates
    BY <1>2, <1>15 DEF RequestBump, CtlRec, DrvStates
  <2>2. drv'[d].pc = "drop" /\ drv'[d].resolved = drv[d].resolved
    BY <1>5, <2>1
  <2>3. owes = {} /\ ~ctl.live
    BY <2>1 DEF PrerollInv, DriverInv
  <2>4. \A s \in Sinks : Settled(s)
    BY <1>1, <2>1, <2>3 DEF PrerollInv, OwesInv, DriverIn
  <2>5. StartInv' /\ ArmInv'
    BY <2>1, <2>4 DEF PrerollInv, StartInv, ArmInv, ArmFresh, Settled
  <2>6. CountInv' /\ DriverInv'
    BY <1>1, <1>4, <2>1, <2>2, <2>3 DEF CountInv, DriverInv, DriverIn
  <2>7. OwesInv'
    BY <1>1, <2>1, <2>2, <2>3 DEF PrerollInv, OwesInv, DriverIn
  <2> QED  BY <1>2, <2>5, <2>6, <2>7 DEF PrerollInv
<1>16. CASE RequestDrop(d)
  <2>1. /\ drv[d].pc = "drop" /\ arm' = arm /\ runner' = runner /\ owes' = owes
        /\ ctl'.live = ctl.live /\ ctl'.prerolled = FALSE
        /\ ctl'.gen = ctl.gen /\ ctl'.target = ctl.target
        /\ ctl'.pending = ctl.pending
        /\ drv' = [drv EXCEPT ![d].pc = "rearm"] /\ "rearm" \in DrvStates
    BY <1>2, <1>16 DEF RequestDrop, CtlRec, DrvStates
  <2>2. drv'[d].pc = "rearm" /\ drv'[d].resolved = drv[d].resolved
    BY <1>5, <2>1
  <2>3. ~ctl.live
    BY <2>1 DEF PrerollInv, DriverInv
  <2>4. StartInv' /\ ArmInv'
    BY <2>1 DEF PrerollInv, StartInv, ArmInv, ArmFresh
  <2>5. CountInv'
    BY <1>1, <2>1, <2>2 DEF PrerollInv, CountInv, DriverIn
  <2>6. DriverInv'
    BY <1>1, <1>4, <2>1, <2>2, <2>3 DEF DriverInv
  <2>7. OwesInv'
    BY <1>1, <2>1, <2>2 DEF PrerollInv, OwesInv, DriverIn
  <2> QED  BY <1>2, <2>4, <2>5, <2>6, <2>7 DEF PrerollInv
<1>17. CASE RequestRearm(d)
  <2>1. /\ drv[d].pc = "rearm" /\ arm' = arm /\ runner' = runner /\ owes' = Sinks
        /\ ctl'.live = ctl.live /\ ctl'.prerolled = ctl.prerolled
        /\ ctl'.gen = ctl.gen /\ ctl'.target = ctl.target
        /\ ctl'.pending = ctl.target
        /\ drv' = [drv EXCEPT ![d].pc = "rouse"] /\ "rouse" \in DrvStates
    BY <1>2, <1>17 DEF RequestRearm, CtlRec, DrvStates
  <2>2. drv'[d].pc = "rouse" /\ drv'[d].resolved = drv[d].resolved
    BY <1>5, <2>1
  <2>3. ~ctl.live /\ ~ctl.prerolled
    BY <2>1 DEF PrerollInv, DriverInv
  <2>4. StartInv' /\ ArmInv'
    BY <2>1 DEF PrerollInv, StartInv, ArmInv, ArmFresh
  <2>5. CountInv'
    BY <1>1, <2>1, <2>2 DEF PrerollInv, StartInv, CountInv, DriverIn
  <2>6. DriverInv'
    BY <1>1, <1>4, <2>1, <2>2, <2>3 DEF DriverInv
  <2>7. OwesInv'
    BY <1>3, <2>1, <2>3 DEF OwesInv
  <2> QED  BY <1>2, <2>4, <2>5, <2>6, <2>7 DEF PrerollInv
<1> QED  BY <1>6, <1>7, <1>8, <1>9, <1>10, <1>11, <1>12, <1>13, <1>14, <1>15, <1>16,
            <1>12a, <1>12b, <1>17 DEF CallStep

(* One application task that awaits each preroll, on the executor thread   *)
(* of the arms: the count of prerolls owed, the sinks that owe one and     *)
(* where the task stands agree at every step of set_state,                 *)
(* request_repreroll and notify_prerolled.                                 *)
THEOREM PrerollInductive == ASSUME Awaited PROVE Spec => []PrerollInv
<1>1. Init => PrerollInv
  <2> SUFFICES ASSUME Init PROVE PrerollInv
    OBVIOUS
  <2>1. /\ runner = "target" /\ owes = Sinks /\ ~ctl.prerolled
        /\ \A s \in Sinks : arm[s].pc = "off" /\ ~arm[s].rolled
        /\ \A d \in Drivers : drv[d].pc = "idle" /\ ~drv[d].resolved
    BY DEF Init
  <2> QED  BY <2>1, InitTyped DEF PrerollInv, StartInv, CountInv, OwesInv, ArmInv,
              DriverInv, DriverIn
<1>2. PrerollInv /\ [Next]_vars => PrerollInv'
  <2> SUFFICES ASSUME PrerollInv, [Next]_vars PROVE PrerollInv'
    OBVIOUS
  <2>1. CASE UNCHANGED vars
    <3>1. TypeOK'
      BY StepTyped DEF PrerollInv
    <3> QED  BY <2>1, <3>1 DEF vars, PrerollInv, StartInv, CountInv, OwesInv, ArmInv,
                ArmFresh, DriverInv, DriverIn, Settled
  <2> QED  BY <2>1, RunnerPreroll, CallPreroll, CallStepPreroll, SinkPreroll,
              SourcePreroll DEF Next
<1> QED  BY <1>1, <1>2, PTL DEF Spec

(* Preroll is reported complete only when every sink has prerolled since   *)
(* it was last re-armed, for any number of sinks, seeks and calls: with    *)
(* one application task that awaits, no sink is counted for another.       *)
THEOREM PrerollComplete == ASSUME Awaited PROVE Spec => []PrerolledMeansAll
<1>1. PrerollInv => PrerolledMeansAll
  BY DEF PrerollInv, OwesInv, PrerolledMeansAll
<1> QED  BY <1>1, PrerollInductive, PTL

-----------------------------------------------------------------------------
(* Seeking while paused.                                                   *)

(* The setting: nor does the stream end.  An Eos in a link when the        *)
(* pipeline is sought counts as a preroll although nothing was shown.      *)
Unending == Awaited /\ ~Ending

Asked == {"request", "bump", "drop", "rearm"}

(* How far the Flushes of a seek have come.                                *)
SeekInv ==
    /\ ~src.ended
    /\ ctl.live => aim = 0
    /\ DriverIn(Asked) => ctl.state = "Paused" /\ src.pending /\ src.flushes = aim
    /\ ~DriverIn(Asked) => src.flushes + (IF src.pending THEN 1 ELSE 0) = aim
    /\ \A s \in Sinks : arm[s].seen <= src.flushes

(* A sink that has prerolled for the present generation shows a frame of   *)
(* the present seek.                                                       *)
Showing(s) ==
    arm[s].rolled /\ arm[s].gen = ctl.gen => visible[s] = aim /\ arm[s].seen = aim

(* One that has yet to see it is at most a Flush behind; it has taken the  *)
(* seek's Flush already only if it waited in recv for it.                  *)
Behind(s) ==
    arm[s].rolled /\ arm[s].gen # ctl.gen =>
        IF DriverIn({"drop", "rearm"})
          THEN arm[s].seen = aim
          ELSE arm[s].seen \in {aim - 1, aim}

(* One that has seen it shows nothing until a Flush, and then what it was  *)
(* sought for.                                                             *)
Draining(s) ==
    ~arm[s].rolled =>
        /\ arm[s].gen = ctl.gen
        /\ \/ arm[s].flushing /\ arm[s].seen \in {aim - 1, aim} /\ arm[s].pc # "process"
           \/ ~arm[s].flushing /\ arm[s].seen = aim

(* Between the bump and the re-arming no arm has seen the generation.      *)
ShownInv ==
    /\ \A s \in Sinks : Showing(s) /\ Behind(s) /\ Draining(s)
    /\ DriverIn({"drop", "rearm"}) =>
          \A s \in Sinks : arm[s].rolled /\ arm[s].gen # ctl.gen

ScrubInv == SeekInv /\ ShownInv
(* The startup and the source keep the seek invariant.                     *)
LEMMA RunnerScrub ==
  ASSUME Unending, PrerollInv, ScrubInv, RunnerStep \/ SourceStep
  PROVE  ScrubInv'
<1>1. /\ \A d \in Drivers : drv[d].pc \in {"idle", "poll", "parked"}
      /\ TypeOK /\ src \in SrcRec /\ aim \in Nat
  BY NobodyElse, TypeParts DEF RunnerStep, SourceStep, Unending, Awaited, PrerollInv,
     RestTyped
<1>2. drv' = drv /\ visible' = visible /\ aim' = aim
  BY DEF RunnerStep, SourceStep, ExpectTarget, ExpectPending, ArmCheck, ArmStore,
     ServeSeek, SourceEnds
<1>3. CASE ExpectTarget \/ ExpectPending \/ ArmCheck
  <2>1. /\ arm' = arm /\ src' = src /\ ctl'.state = ctl.state
        /\ ctl'.live = ctl.live /\ ctl'.gen = ctl.gen
    BY <1>1, <1>3 DEF ExpectTarget, ExpectPending, ArmCheck, TypeOK
  <2>2. SeekInv'
    BY <1>2, <2>1 DEF ScrubInv, SeekInv, DriverIn
  <2> QED  BY <1>2, <2>1, <2>2 DEF ScrubInv, ShownInv, Showing, Behind, Draining, DriverIn
<1>4. CASE ArmStore
  <2>1. /\ src' = src /\ ctl'.state = ctl.state /\ ctl'.live = ctl.live
        /\ ctl'.gen = ctl.gen /\ \A s \in Sinks : ~arm[s].rolled
    BY <1>1, <1>4 DEF ArmStore, TypeOK, PrerollInv, StartInv
  <2>2. \A s \in Sinks : /\ arm'[s].pc = "gate" /\ arm'[s].gen = ctl.gen
                         /\ arm'[s].rolled = arm[s].rolled
                         /\ arm'[s].flushing = arm[s].flushing
                         /\ arm'[s].seen = arm[s].seen
    BY <1>1, <1>4, ArmsStarted
  <2>3. SeekInv'
    BY <1>2, <2>1, <2>2 DEF ScrubInv, SeekInv, DriverIn
  <2>4. \A s \in Sinks : Showing(s)' /\ Behind(s)' /\ Draining(s)'
    BY <1>2, <2>1, <2>2 DEF ScrubInv, ShownInv, Showing, Behind, Draining
  <2> QED  BY <1>1, <1>2, <2>3, <2>4 DEF ScrubInv, ShownInv, DriverIn
<1>5. CASE ServeSeek
  <2>1. /\ ctl' = ctl /\ src.pending
        /\ src'.pending = FALSE /\ src'.flushes = src.flushes + 1
        /\ src'.ended = FALSE
    <3>1. src' = [src EXCEPT !.pending = FALSE, !.flushes = @ + 1, !.ended = FALSE]
          /\ ctl' = ctl /\ src.pending
      BY <1>5 DEF ServeSeek
    <3> QED  BY <1>1, <3>1 DEF SrcRec
  <2>2. \A s \in Sinks : Kept(s) /\ arm'[s].pc = arm[s].pc
    BY <1>1, <1>5, SeekServed
  <2>3. ~DriverIn(Asked) /\ ~DriverIn(Asked)' /\ ~DriverIn({"drop", "rearm"})
        /\ ~DriverIn({"drop", "rearm"})'
    BY <1>1, <1>2 DEF DriverIn, Asked
  <2>4. src'.flushes + (IF src'.pending THEN 1 ELSE 0) = aim'
    BY <1>1, <1>2, <2>1, <2>3 DEF ScrubInv, SeekInv, SrcRec
  <2>5. \A s \in Sinks : arm'[s].seen <= src'.flushes
    BY <1>1, <2>1, <2>2 DEF ScrubInv, SeekInv, Kept, TypeOK, SrcRec
  <2>6. SeekInv'
    BY <1>2, <2>1, <2>3, <2>4, <2>5 DEF ScrubInv, SeekInv
  <2>7. \A s \in Sinks : Showing(s)' /\ Behind(s)' /\ Draining(s)'
    BY <1>2, <2>1, <2>2, <2>3
       DEF ScrubInv, ShownInv, Showing, Behind, Draining, Kept
  <2> QED  BY <2>3, <2>6, <2>7 DEF ScrubInv, ShownInv
<1>6. ~SourceEnds
  BY DEF SourceEnds, Unending
<1> QED  BY <1>3, <1>4, <1>5, <1>6 DEF RunnerStep, SourceStep

(* A sink step, if it keeps what is said of its own arm.                   *)
LEMMA QuietShown ==
  ASSUME ScrubInv, NEW s \in Sinks, OthersKept(s),
         \A d \in Drivers : drv[d].pc \in {"idle", "poll", "parked"},
         \A d \in Drivers : drv'[d].pc \in {"idle", "poll", "parked"},
         src' = src, aim' = aim,
         ctl'.state = ctl.state, ctl'.live = ctl.live, ctl'.gen = ctl.gen,
         \A t \in Sinks \ {s} : visible'[t] = visible[t],
         arm'[s].seen <= src.flushes,
         Showing(s)', Behind(s)', Draining(s)'
  PROVE  ScrubInv'
<1>1. ~DriverIn(Asked) /\ ~DriverIn(Asked)' /\ ~DriverIn({"drop", "rearm"})
      /\ ~DriverIn({"drop", "rearm"})'
  BY DEF DriverIn, Asked
<1>2. SeekInv'
  BY <1>1 DEF ScrubInv, SeekInv, OthersKept
<1>3. \A t \in Sinks \ {s} : Showing(t)' /\ Behind(t)' /\ Draining(t)'
  BY <1>1 DEF ScrubInv, ShownInv, Showing, Behind, Draining, OthersKept
<1> QED  BY <1>1, <1>2, <1>3 DEF ScrubInv, ShownInv

(* Every step of a sink arm keeps it.                                      *)
LEMMA SinkScrub ==
  ASSUME Unending, PrerollInv, ScrubInv, NEW s \in Sinks, SinkStep(s)
  PROVE  ScrubInv'
<1>1. /\ \A d \in Drivers : drv[d].pc \in {"idle", "poll", "parked"}
      /\ TypeOK /\ arm \in [Sinks -> ArmRec] /\ drv \in [Drivers -> DrvRec]
      /\ arm[s] \in ArmRec /\ src \in SrcRec /\ ctl \in CtlRec /\ aim \in Nat
  BY NobodyElse, TypeParts DEF SinkStep, Unending, Awaited, PrerollInv, RestTyped
<1>2. /\ ~DriverIn(Asked) /\ ~DriverIn({"drop", "rearm"})
  BY <1>1 DEF DriverIn, Asked
<1>3. /\ Showing(s) /\ Behind(s) /\ Draining(s) /\ arm[s].seen <= src.flushes
      /\ ~src.ended /\ src.flushes <= aim
  BY <1>1, <1>2 DEF ScrubInv, ShownInv, SeekInv, SrcRec
<1>4. drv' = drv => ~DriverIn({"drop", "rearm"})'
  BY <1>1 DEF DriverIn
<1>5. CASE PollGate(s)
  <2>1. PICK to \in {"stopped", "admitted", "parked"} : arm' = [arm EXCEPT ![s].pc = to]
    BY <1>5 DEF PollGate
  <2>2. OthersKept(s) /\ Kept(s) /\ arm'[s].pc = to
    BY <1>1, <2>1, ArmMoved DEF ArmStates
  <2>3. /\ drv' = drv /\ ctl' = ctl /\ src' = src /\ visible' = visible /\ aim' = aim
        /\ arm[s].pc = "gate"
    BY <1>5 DEF PollGate
  <2>4. Showing(s)' /\ Behind(s)' /\ Draining(s)'
    BY <1>2, <1>3, <1>4, <2>1, <2>2, <2>3 DEF Showing, Behind, Draining, Kept
  <2>5. arm'[s].seen <= src.flushes
    BY <1>3, <2>2 DEF Kept
  <2> QED  BY <1>1, <2>2, <2>3, <2>4, <2>5, QuietShown
<1>6. CASE ReadGeneration(s)
  <2>1. /\ drv' = drv /\ ctl' = ctl /\ src' = src /\ visible' = visible /\ aim' = aim
        /\ OthersKept(s) /\ arm'[s].seen = arm[s].seen
        /\ arm'[s].gen = ctl.gen /\ arm'[s].pc = "pull"
        /\ arm'[s].rolled <=> arm[s].rolled /\ arm[s].gen = ctl.gen
        /\ arm'[s].flushing <=> arm[s].flushing \/ arm[s].gen # ctl.gen
    BY <1>1, <1>6, GenerationRead
  <2>2. Showing(s)' /\ Behind(s)'
    BY <1>3, <2>1 DEF Showing, Behind
  <2>3. Draining(s)'
    <3>1. CASE arm[s].rolled
      BY <1>2, <1>3, <2>1, <3>1 DEF Behind, Draining
    <3>2. CASE ~arm[s].rolled
      BY <1>3, <2>1, <3>2 DEF Draining
    <3> QED  BY <3>1, <3>2
  <2> QED  BY <1>1, <1>3, <2>1, <2>2, <2>3, QuietShown
<1>7. CASE TakeFrame(s)
  <2>1. /\ drv' = drv /\ ctl' = ctl /\ src' = src /\ visible' = visible /\ aim' = aim
        /\ OthersKept(s) /\ Kept(s)
        /\ arm'[s].pc = IF arm[s].flushing THEN "gate" ELSE "process"
    BY <1>1, <1>7, FrameTaken
  <2>2. Showing(s)' /\ Behind(s)' /\ Draining(s)'
    BY <1>2, <1>3, <1>4, <2>1 DEF Showing, Behind, Draining, Kept
  <2>3. arm'[s].seen <= src.flushes
    BY <1>3, <2>1 DEF Kept
  <2> QED  BY <1>1, <2>1, <2>2, <2>3, QuietShown
<1>8. CASE TakeFlush(s)
  <2>1. /\ drv' = drv /\ ctl' = ctl /\ src' = src /\ visible' = visible /\ aim' = aim
        /\ OthersKept(s) /\ arm[s].seen < src.flushes
        /\ arm'[s].rolled = arm[s].rolled /\ arm'[s].gen = arm[s].gen
        /\ arm'[s].flushing = FALSE /\ arm'[s].seen = arm[s].seen + 1
    BY <1>1, <1>8, FlushTaken
  <2>2. arm[s].seen \in Nat /\ src.flushes \in Nat
    BY <1>1 DEF ArmRec, SrcRec
  <2>3. arm[s].seen < aim
    BY <1>1, <1>3, <2>1, <2>2
  <2>4. /\ arm[s].rolled => arm[s].gen # ctl.gen
        /\ ~arm[s].rolled => arm[s].gen = ctl.gen
        /\ arm'[s].seen = aim
    BY <1>1, <1>2, <1>3, <2>1, <2>2, <2>3 DEF Showing, Behind, Draining
  <2>5. Showing(s)' /\ Behind(s)' /\ Draining(s)'
    BY <1>4, <2>1, <2>4 DEF Showing, Behind, Draining
  <2>6. arm'[s].seen <= src.flushes
    BY <2>1, <2>2
  <2> QED  BY <1>1, <2>1, <2>5, <2>6, QuietShown
<1>9. ~TakeEos(s)
  BY <1>3 DEF TakeEos
<1>10. CASE Processed(s)
  <2>1. /\ drv' = drv /\ ctl' = ctl /\ src' = src /\ aim' = aim
        /\ OthersKept(s) /\ arm[s].pc = "process"
        /\ \A t \in Sinks \ {s} : visible'[t] = visible[t]
        /\ visible'[s] = arm[s].seen
        /\ arm'[s].rolled = TRUE /\ arm'[s].gen = arm[s].gen
        /\ arm'[s].seen = arm[s].seen
    BY <1>1, <1>10, FrameShown
  <2>2. Draining(s)'
    BY <2>1 DEF Draining
  <2>3. Showing(s)' /\ Behind(s)'
    <3>1. CASE arm[s].rolled
      BY <1>2, <1>3, <1>4, <2>1, <3>1 DEF Showing, Behind
    <3>2. CASE ~arm[s].rolled
      BY <1>3, <2>1, <3>2 DEF Showing, Behind, Draining
    <3> QED  BY <3>1, <3>2
  <2> QED  BY <1>1, <1>3, <2>1, <2>2, <2>3, QuietShown
<1>11. CASE Notify(s) \/ SinkLatch(s) \/ SinkAnnounce(s)
  <2>1. PICK to \in {"latch", "announce", "gate"} : arm' = [arm EXCEPT ![s].pc = to]
    BY <1>11 DEF Notify, SinkLatch, SinkAnnounce
  <2>2. OthersKept(s) /\ Kept(s) /\ arm'[s].pc = to
    BY <1>1, <2>1, ArmMoved DEF ArmStates
  <2>3. /\ src' = src /\ visible' = visible /\ aim' = aim
        /\ arm[s].pc \in {"notify", "latch", "announce"}
        /\ ctl'.state = ctl.state /\ ctl'.live = ctl.live /\ ctl'.gen = ctl.gen
        /\ drv' = drv \/ drv' = Woken
    BY <1>1, <1>11 DEF Notify, SinkLatch, SinkAnnounce, CtlRec
  <2>4. \A d \in Drivers : drv'[d].pc \in {"idle", "poll", "parked"}
    BY <1>1, <2>3, DriversWoken
  <2>5. ~DriverIn({"drop", "rearm"})'
    BY <2>4 DEF DriverIn
  <2>6. Showing(s)' /\ Behind(s)' /\ Draining(s)'
    BY <1>2, <1>3, <2>1, <2>2, <2>3, <2>5 DEF Showing, Behind, Draining, Kept
  <2>7. arm'[s].seen <= src.flushes
    BY <1>3, <2>2 DEF Kept
  <2> QED  BY <1>1, <2>2, <2>3, <2>4, <2>6, <2>7, QuietShown
<1> QED  BY <1>5, <1>6, <1>7, <1>8, <1>9, <1>10, <1>11 DEF SinkStep

(* A driver step that has nothing to do with a seek.                       *)
LEMMA QuietSeek ==
  ASSUME OneDriver, ScrubInv, NEW d \in Drivers, ArmsLeft,
         src' = src, aim' = aim, visible' = visible,
         ctl'.live = ctl.live, ctl'.gen = ctl.gen,
         drv[d].pc \notin Asked, drv'[d].pc \notin Asked
  PROVE  ScrubInv'
<1>1. ~DriverIn(Asked) /\ ~DriverIn(Asked)' /\ ~DriverIn({"drop", "rearm"})
      /\ ~DriverIn({"drop", "rearm"})'
  BY DEF DriverIn, Asked, OneDriver
<1>2. SeekInv'
  BY <1>1 DEF ScrubInv, SeekInv, ArmsLeft, Kept
<1>3. \A s \in Sinks : Showing(s)' /\ Behind(s)' /\ Draining(s)'
  BY <1>1 DEF ScrubInv, ShownInv, Showing, Behind, Draining, ArmsLeft, Kept
<1> QED  BY <1>1, <1>2, <1>3 DEF ScrubInv, ShownInv

(* A driver's calls keep the seek invariant.  When a seek is asked for     *)
(* every sink has prerolled, so the one before has been flushed through.   *)
LEMMA CallScrub ==
  ASSUME Unending, PrerollInv, ScrubInv, NEW d \in Drivers, Call(d)
  PROVE  ScrubInv'
<1>1. OneDriver /\ Awaited /\ \A e \in Drivers : e = d
  BY DEF Unending, Awaited, OneDriver
<1>2. /\ TypeOK /\ drv \in [Drivers -> DrvRec] /\ ctl \in CtlRec /\ src \in SrcRec
      /\ arm \in [Sinks -> ArmRec] /\ aim \in Nat
  BY TypeParts DEF PrerollInv, RestTyped
<1>3. ASSUME NEW new \in Targets, SetState(d, new) PROVE ScrubInv'
  <2>1. new \in States
    BY ControllerAssumption DEF States
  <2>2. PICK to \in {"idle", "wake"} : Begins(d, to, new)
    BY <1>3 DEF SetState, Begins
  <2>3. drv'[d].pc = to
    <3>1. to \in DrvStates
      BY DEF DrvStates
    <3> QED  BY <1>2, <2>1, <2>2, <3>1, StateAsked
  <2>4. /\ ArmsLeft /\ src' = src /\ aim' = aim /\ visible' = visible
        /\ ctl'.live = ctl.live /\ ctl'.gen = ctl.gen
        /\ drv[d].pc = "idle"
    BY <1>2, <1>3, ArmsAlone DEF SetState, CtlRec
  <2> QED  BY <1>1, <2>2, <2>3, <2>4, QuietSeek DEF Asked
<1>4. CASE PausedSeek(d)
  <2>1. BeginsSeek(d)
    BY <1>4 DEF PausedSeek, BeginsSeek
  <2>2. drv'[d].pc = "request"
    BY <1>2, <2>1, SeekAsked
  <2>3. /\ arm' = arm /\ ctl' = ctl /\ aim' = aim /\ visible' = visible
        /\ drv[d].pc = "idle" /\ ctl.state = "Paused" /\ ~ctl.live /\ drv[d].resolved
        /\ src'.pending = TRUE /\ src'.flushes = src.flushes /\ src'.ended = src.ended
    BY <1>1, <1>2, <1>4 DEF PausedSeek, SrcRec, MayGoOn, Awaited
  <2>4. owes = {}
    BY <2>3 DEF PrerollInv, DriverInv, OwesInv
  <2>5. ~DriverIn(Asked) /\ ~DriverIn({"drop", "rearm"})
    BY <1>1, <2>3 DEF DriverIn, Asked
  <2>6. \A s \in Sinks : Settled(s)
    BY <2>3, <2>4, <2>5 DEF PrerollInv, OwesInv
  <2>7. PICK s \in Sinks : TRUE
    BY ControllerAssumption
  <2>8. arm[s].seen = aim /\ arm[s].seen <= src.flushes
    BY <2>6, <2>7 DEF Settled, ScrubInv, ShownInv, Showing, SeekInv
  <2>9. src.flushes = aim
    BY <1>2, <2>5, <2>8 DEF ScrubInv, SeekInv, SrcRec
  <2>10. DriverIn(Asked)' /\ ~DriverIn({"drop", "rearm"})'
    BY <1>1, <2>2 DEF DriverIn, Asked
  <2>11. SeekInv'
    BY <2>3, <2>9, <2>10 DEF ScrubInv, SeekInv
  <2>12. \A t \in Sinks : Showing(t)' /\ Behind(t)' /\ Draining(t)'
    BY <2>3, <2>5, <2>10 DEF ScrubInv, ShownInv, Showing, Behind, Draining
  <2> QED  BY <2>10, <2>11, <2>12 DEF ScrubInv, ShownInv
<1>5. CASE AwaitPrerolled(d)
  <2>1. drv' = [drv EXCEPT ![d].pc = "poll"] /\ "poll" \in DrvStates
    BY <1>5 DEF AwaitPrerolled, DrvStates
  <2>2. drv'[d].pc = "poll"
    BY <1>2, <2>1, DriverMoved
  <2>3. /\ ArmsLeft /\ src' = src /\ aim' = aim /\ visible' = visible
        /\ ctl' = ctl /\ drv[d].pc = "idle"
    BY <1>5, ArmsAlone DEF AwaitPrerolled
  <2> QED  BY <1>1, <2>2, <2>3, QuietSeek DEF Asked
<1> QED  BY <1>3, <1>4, <1>5 DEF Call

(* So does a driver on its way.  The bump finds every sink settled, so that*)
(* none has seen the new generation before preroll is re-armed.            *)
LEMMA CallStepScrub ==
  ASSUME Unending, PrerollInv, ScrubInv, NEW d \in Drivers, CallStep(d)
  PROVE  ScrubInv'
<1>1. OneDriver /\ Awaited /\ \A e \in Drivers : e = d
  BY DEF Unending, Awaited, OneDriver
<1>2. /\ TypeOK /\ drv \in [Drivers -> DrvRec] /\ ctl \in CtlRec /\ src \in SrcRec
      /\ arm \in [Sinks -> ArmRec] /\ aim \in Nat
  BY TypeParts DEF PrerollInv, RestTyped
<1>3. ASSUME NEW to \in DrvStates, drv' = [drv EXCEPT ![d].pc = to]
      PROVE  drv'[d].pc = to
  BY <1>2, <1>3, DriverMoved
<1>4. drv[d].pc = "request" => ctl.state = "Paused"
  BY DEF ScrubInv, SeekInv, DriverIn, Asked
<1>5. CASE SetStateWake(d) \/ SetStateAnchor(d) \/ SetStateSettle(d)
           \/ SetStateStore(d) \/ SetStateUnlatch(d) \/ DriverLatch(d) \/ RequestRouse(d)
  <2>1. PICK to \in {"idle", "anchor", "settle", "latch", "unlatch", "announce"} :
          drv' = [drv EXCEPT ![d].pc = to]
    BY <1>5 DEF SetStateWake, SetStateAnchor, SetStateSettle, SetStateStore,
       SetStateUnlatch, DriverLatch, RequestRouse
  <2>2. to \in DrvStates
    BY DEF DrvStates
  <2>3. drv'[d].pc = to
    BY <1>3, <2>1, <2>2
  <2>4. /\ src' = src /\ aim' = aim /\ visible' = visible
        /\ ctl'.state = ctl.state /\ ctl'.live = ctl.live /\ ctl'.gen = ctl.gen
        /\ drv[d].pc \in {"wake", "anchor", "settle", "store", "unlatch", "latch",
                          "rouse"}
    BY <1>2, <1>5 DEF SetStateWake, SetStateAnchor, SetStateSettle, SetStateStore,
       SetStateUnlatch, DriverLatch, RequestRouse, CtlRec
  <2>5. ArmsLeft
    <3>1. arm' = arm \/ WakeGates
      BY <1>5 DEF SetStateWake, SetStateAnchor, SetStateSettle, SetStateStore,
         SetStateUnlatch, DriverLatch, RequestRouse
    <3> QED  BY <1>2, <3>1, ArmsAlone, GatesWoken DEF ArmsLeft
  <2> QED  BY <1>1, <2>1, <2>3, <2>4, <2>5, QuietSeek DEF Asked
<1>5a. CASE SetStateLoad(d)
  <2>1. drv'[d].pc = "store"
    BY <1>2, <1>5a, TargetLoaded
  <2>2. /\ src' = src /\ aim' = aim /\ visible' = visible /\ ctl' = ctl
        /\ drv[d].pc = "settle" /\ ArmsLeft
    BY <1>5a, ArmsAlone DEF SetStateLoad
  <2> QED  BY <1>1, <2>1, <2>2, QuietSeek DEF Asked
<1>6. CASE DriverAnnounce(d)
  <2>1. drv'[d].pc = "idle"
    BY <1>2, <1>6, DriverAnnounced
  <2>2. /\ src' = src /\ aim' = aim /\ visible' = visible /\ ctl' = ctl
        /\ drv[d].pc = "announce" /\ ArmsLeft
    BY <1>6, ArmsAlone DEF DriverAnnounce
  <2> QED  BY <1>1, <2>1, <2>2, QuietSeek DEF Asked
<1>7. CASE PollPreroll(d)
  <2>1. drv'[d].pc \in {"idle", "parked"}
    BY <1>2, <1>7, PrerollPolled
  <2>2. /\ src' = src /\ aim' = aim /\ visible' = visible /\ ctl' = ctl
        /\ drv[d].pc = "poll" /\ ArmsLeft
    BY <1>7, ArmsAlone DEF PollPreroll
  <2> QED  BY <1>1, <2>1, <2>2, QuietSeek DEF Asked
<1>8. CASE RequestCheck(d)
  <2>1. drv' = [drv EXCEPT ![d].pc = "bump"] /\ "bump" \in DrvStates
    BY <1>4, <1>8 DEF RequestCheck, DrvStates
  <2>2. drv'[d].pc = "bump"
    BY <1>3, <2>1
  <2>3. /\ arm' = arm /\ src' = src /\ aim' = aim /\ visible' = visible /\ ctl' = ctl
        /\ drv[d].pc = "request"
    BY <1>8 DEF RequestCheck
  <2>4. DriverIn(Asked) /\ DriverIn(Asked)' /\ ~DriverIn({"drop", "rearm"})
        /\ ~DriverIn({"drop", "rearm"})'
    BY <1>1, <2>2, <2>3 DEF DriverIn, Asked
  <2>5. SeekInv'
    BY <2>3, <2>4 DEF ScrubInv, SeekInv
  <2> QED  BY <2>3, <2>4, <2>5 DEF ScrubInv, ShownInv, Showing, Behind, Draining
<1>9. CASE RequestBump(d)
  <2>1. /\ drv[d].pc = "bump" /\ arm' = arm /\ src' = src /\ aim' = aim
        /\ visible' = visible /\ ctl'.state = ctl.state /\ ctl'.live = ctl.live
        /\ ctl'.gen = ctl.gen + 1 /\ ctl.gen \in Nat
        /\ drv' = [drv EXCEPT ![d].pc = "drop"] /\ "drop" \in DrvStates
    BY <1>2, <1>9 DEF RequestBump, CtlRec, DrvStates
  <2>2. drv'[d].pc = "drop"
    BY <1>3, <2>1
  <2>3. DriverIn(Asked) /\ DriverIn(Asked)' /\ ~DriverIn({"drop", "rearm"})
        /\ DriverIn({"drop", "rearm"})'
    BY <1>1, <2>1, <2>2 DEF DriverIn, Asked
  <2>4. \A s \in Sinks : arm[s].rolled /\ arm[s].gen = ctl.gen
    BY <2>1, <2>3 DEF PrerollInv, OwesInv, DriverInv, Settled
  <2>5. \A s \in Sinks : arm'[s].rolled /\ arm'[s].gen # ctl'.gen
    BY <2>1, <2>4
  <2>6. SeekInv'
    BY <2>1, <2>3 DEF ScrubInv, SeekInv
  <2>7. \A s \in Sinks : Showing(s)' /\ Behind(s)' /\ Draining(s)'
    BY <2>1, <2>3, <2>4, <2>5 DEF ScrubInv, ShownInv, Showing, Behind, Draining
  <2> QED  BY <2>5, <2>6, <2>7 DEF ScrubInv, ShownInv
<1>10. CASE RequestDrop(d)
  <2>1. /\ drv[d].pc = "drop" /\ arm' = arm /\ src' = src /\ aim' = aim
        /\ visible' = visible /\ ctl'.state = ctl.state /\ ctl'.live = ctl.live
        /\ ctl'.gen = ctl.gen
        /\ drv' = [drv EXCEPT ![d].pc = "rearm"] /\ "rearm" \in DrvStates
    BY <1>2, <1>10 DEF RequestDrop, CtlRec, DrvStates
  <2>2. drv'[d].pc = "rearm"
    BY <1>3, <2>1
  <2>3. DriverIn(Asked) /\ DriverIn(Asked)' /\ DriverIn({"drop", "rearm"})
        /\ DriverIn({"drop", "rearm"})'
    BY <1>1, <2>1, <2>2 DEF DriverIn, Asked
  <2>4. SeekInv'
    BY <2>1, <2>3 DEF ScrubInv, SeekInv
  <2> QED  BY <2>1, <2>3, <2>4 DEF ScrubInv, ShownInv, Showing, Behind, Draining
<1>11. CASE RequestRearm(d)
  <2>1. /\ drv[d].pc = "rearm" /\ arm' = arm /\ src' = src
        /\ aim' = src.flushes + (IF src.pending THEN 1 ELSE 0)
        /\ visible' = visible /\ ctl'.state = ctl.state /\ ctl'.live = ctl.live
        /\ ctl'.gen = ctl.gen
        /\ drv' = [drv EXCEPT ![d].pc = "rouse"] /\ "rouse" \in DrvStates
    BY <1>2, <1>11 DEF RequestRearm, CtlRec, DrvStates
  <2>2. drv'[d].pc = "rouse"
    BY <1>3, <2>1
  <2>3. DriverIn(Asked) /\ ~DriverIn(Asked)' /\ DriverIn({"drop", "rearm"})
        /\ ~DriverIn({"drop", "rearm"})'
    BY <1>1, <2>1, <2>2 DEF DriverIn, Asked
  <2>4. ~ctl.live
    BY <2>1 DEF PrerollInv, DriverInv
  <2>5. src.pending /\ src.flushes = aim
    BY <2>3 DEF ScrubInv, SeekInv
  <2>6. aim' = aim + 1
    BY <2>1, <2>5
  <2>7. \A s \in Sinks : arm[s].rolled /\ arm[s].gen # ctl.gen /\ arm[s].seen = aim
    BY <2>3 DEF ScrubInv, ShownInv, Behind
  <2>8. SeekInv'
    BY <2>1, <2>3, <2>4 DEF ScrubInv, SeekInv
  <2>9. \A s \in Sinks : Showing(s)' /\ Behind(s)' /\ Draining(s)'
    BY <1>2, <2>1, <2>3, <2>6, <2>7 DEF ScrubInv, ShownInv, Showing, Behind, Draining
  <2> QED  BY <2>3, <2>8, <2>9 DEF ScrubInv, ShownInv
<1> QED  BY <1>5, <1>5a, <1>6, <1>7, <1>8, <1>9, <1>10, <1>11 DEF CallStep

(* Seeking a paused pipeline, played before or not: how far its Flushes    *)
(* have come, which generation each arm has seen and what it shows agree.  *)
THEOREM ScrubInductive == ASSUME Unending PROVE Spec => [](PrerollInv /\ ScrubInv)
<1> Awaited
  BY DEF Unending
<1>1. Init => ScrubInv
  <2> SUFFICES ASSUME Init PROVE ScrubInv
    OBVIOUS
  <2>1. /\ ctl.state = "Ready" /\ ctl.gen = 0
        /\ src.pending = FALSE /\ src.flushes = 0 /\ src.ended = FALSE /\ aim = 0
        /\ \A s \in Sinks : /\ arm[s].pc = "off" /\ arm[s].rolled = FALSE
                            /\ arm[s].gen = 0 /\ arm[s].flushing = FALSE
                            /\ arm[s].seen = 0
        /\ \A d \in Drivers : drv[d].pc = "idle"
    BY DEF Init
  <2>2. ~DriverIn(Asked) /\ ~DriverIn({"drop", "rearm"})
    BY <2>1 DEF DriverIn, Asked
  <2> QED  BY <2>1, <2>2 DEF ScrubInv, SeekInv, ShownInv, Showing, Behind, Draining
<1>2. PrerollInv /\ ScrubInv /\ [Next]_vars => ScrubInv'
  <2> SUFFICES ASSUME PrerollInv, ScrubInv, [Next]_vars PROVE ScrubInv'
    OBVIOUS
  <2>1. CASE UNCHANGED vars
    BY <2>1 DEF vars, ScrubInv, SeekInv, ShownInv, Showing, Behind, Draining, DriverIn
  <2> QED  BY <2>1, RunnerScrub, CallScrub, CallStepScrub, SinkScrub DEF Next
<1> QED  BY <1>1, <1>2, PrerollInductive, PTL DEF Spec

(* Once the preroll of a paused seek is reported, every sink shows the     *)
(* frame sought, never one from before the Flush: for any number of sinks  *)
(* and seeks, any number of stale frames in the links, and with playing in *)
(* between.                                                                *)
THEOREM TargetShown == ASSUME Unending PROVE Spec => []ShowsTheTarget
<1>1. PrerollInv /\ ScrubInv => ShowsTheTarget
  <2> SUFFICES ASSUME PrerollInv, ScrubInv, ctl.prerolled, aim > 0,
                      \A d \in Drivers : drv[d].pc \in {"idle", "poll", "parked"},
                      NEW s \in Sinks
               PROVE  visible[s] = aim
    BY DEF ShowsTheTarget
  <2>1. ~DriverIn({"drop", "rearm"}) /\ owes = {} /\ ~ctl.live
    BY DEF DriverIn, PrerollInv, TypeOK, OwesInv, ScrubInv, SeekInv
  <2>2. Settled(s)
    BY <2>1 DEF PrerollInv, OwesInv
  <2> QED  BY <2>2 DEF Settled, ScrubInv, ShownInv, Showing
<1> QED  BY <1>1, ScrubInductive, PTL

-----------------------------------------------------------------------------
(* The play anchor.                                                        *)

(* On one thread set_state and arm_play_anchor are each over before another*)
(* begins: a call on its way is for the state the pipeline is in, and the  *)
(* runner's test still holds at its store.                                 *)
AnchorInv ==
    /\ \A d \in Drivers : drv[d].pc \in {"wake", "anchor"} => drv[d].new = ctl.state
    /\ runner = "stamped" => ctl.state = "Playing"
    /\ runner = "unstamped" => ctl.state # "Playing"
    /\ ctl.state = "Playing" /\ ctl.armed =>
          ctl.anchor \/ DriverIn({"wake", "anchor"})

(* A step that touches neither the state nor the anchor.                   *)
LEMMA AnchorKept ==
  ASSUME AnchorInv, runner' = runner, ctl'.state = ctl.state, ctl'.armed = ctl.armed,
         ctl'.anchor = ctl.anchor,
         \A d \in Drivers : /\ drv'[d].pc \in {"wake", "anchor"} <=>
                                  drv[d].pc \in {"wake", "anchor"}
                            /\ drv'[d].new = drv[d].new
  PROVE  AnchorInv'
  BY DEF AnchorInv, DriverIn

(* The startup keeps the anchor, ...                                       *)
LEMMA RunnerAnchor ==
  ASSUME TypeOK, AnchorInv, RunnerStep \/ SourceStep
  PROVE  AnchorInv'
<1>1. drv' = drv /\ ctl \in CtlRec
  BY TypeParts DEF RunnerStep, SourceStep, ExpectTarget, ExpectPending, ArmCheck,
     ArmStore, ServeSeek, SourceEnds, RestTyped
<1>2. CASE ExpectTarget \/ ExpectPending \/ ArmCheck
  <2>1. /\ ctl'.state = ctl.state /\ ctl'.armed = ctl.armed /\ ctl'.anchor = ctl.anchor
        /\ runner' = "stamped" => ctl.state = "Playing"
        /\ runner' = "unstamped" => ctl.state # "Playing"
    BY <1>1, <1>2 DEF ExpectTarget, ExpectPending, ArmCheck, CtlRec
  <2> QED  BY <1>1, <2>1 DEF AnchorInv, DriverIn
<1>3. CASE ArmStore
  <2>1. /\ ctl'.state = ctl.state /\ ctl'.anchor = (runner = "stamped")
        /\ runner \in {"stamped", "unstamped"} /\ runner' = "running"
    BY <1>1, <1>3 DEF ArmStore, CtlRec
  <2> QED  BY <1>1, <2>1 DEF AnchorInv
<1>4. CASE ServeSeek \/ SourceEnds
  BY <1>1, <1>4, AnchorKept DEF ServeSeek, SourceEnds
<1> QED  BY <1>2, <1>3, <1>4 DEF RunnerStep, SourceStep

(* ... the sinks leave it alone, ...                                       *)
LEMMA SinkAnchor ==
  ASSUME TypeOK, AnchorInv, NEW s \in Sinks, SinkStep(s)
  PROVE  AnchorInv'
<1>1. drv \in [Drivers -> DrvRec] /\ ctl \in CtlRec
  BY TypeParts DEF RestTyped
<1>2. CASE PollGate(s) \/ ReadGeneration(s) \/ TakeFrame(s) \/ TakeFlush(s)
           \/ TakeEos(s) \/ Processed(s)
  BY <1>2, AnchorKept DEF PollGate, ReadGeneration, TakeFrame, TakeFlush, TakeEos,
     Processed
<1>3. CASE Notify(s) \/ SinkLatch(s)
  <2>1. /\ drv' = drv /\ runner' = runner /\ ctl'.state = ctl.state
        /\ ctl'.armed = ctl.armed /\ ctl'.anchor = ctl.anchor
    BY <1>1, <1>3 DEF Notify, SinkLatch, CtlRec
  <2> QED  BY <2>1, AnchorKept
<1>4. CASE SinkAnnounce(s)
  <2>1. runner' = runner /\ ctl' = ctl /\ drv' = Woken
    BY <1>4 DEF SinkAnnounce
  <2> QED  BY <1>1, <2>1, DriversWoken, AnchorKept
<1> QED  BY <1>2, <1>3, <1>4 DEF SinkStep

(* ... and a driver's calls stamp it.                                      *)
LEMMA DriverAnchor ==
  ASSUME ~Threaded, TypeOK, AnchorInv, NEW d \in Drivers, Call(d) \/ CallStep(d)
  PROVE  AnchorInv'
<1>1. drv \in [Drivers -> DrvRec] /\ ctl \in CtlRec
  BY TypeParts DEF RestTyped
<1>2. /\ \A e \in Drivers \ {d} : drv[e].pc \in {"idle", "poll", "parked"}
      /\ runner \notin {"stamped", "unstamped"}
  <2>1. Busy \subseteq {d}
    BY DEF Call, CallStep, MayRun
  <2>2. d # "runner"
    BY ControllerAssumption
  <2> QED  BY <2>1, <2>2 DEF Busy
<1>3. ASSUME NEW new \in Targets, SetState(d, new) PROVE AnchorInv'
  <2>1. new \in States
    BY ControllerAssumption DEF States
  <2>2. PICK to \in {"idle", "wake"} : /\ Begins(d, to, new)
                                       /\ to = "idle" <=> ctl.state = new
    BY <1>3 DEF SetState, Begins
  <2>3. to \in DrvStates
    BY DEF DrvStates
  <2>4. drv'[d].pc = to /\ drv'[d].new = new
    BY <1>1, <2>1, <2>2, <2>3, StateAsked
  <2>5. \A e \in Drivers \ {d} : drv'[e] = drv[e]
    BY <1>1, <2>2 DEF Begins
  <2>6. /\ drv[d].pc = "idle" /\ runner' = runner /\ ctl'.state = new
        /\ ctl'.armed = ctl.armed /\ ctl'.anchor = ctl.anchor
    BY <1>1, <1>3 DEF SetState, CtlRec
  <2>7. \A e \in Drivers : drv'[e].pc \in {"wake", "anchor"} => drv'[e].new = new
    BY <1>2, <2>4, <2>5
  <2>8. new = "Playing" /\ ctl.armed =>
           ctl.anchor \/ DriverIn({"wake", "anchor"})'
    BY <1>2, <2>2, <2>4, <2>6 DEF AnchorInv, DriverIn
  <2> QED  BY <1>2, <2>6, <2>7, <2>8 DEF AnchorInv
<1>4. CASE PausedSeek(d)
  <2>1. BeginsSeek(d) /\ drv[d].pc = "idle" /\ ctl' = ctl /\ runner' = runner
    BY <1>4 DEF PausedSeek, BeginsSeek
  <2>2. drv'[d].pc = "request"
    BY <1>1, <2>1, SeekAsked
  <2>3. \A e \in Drivers \ {d} : drv'[e] = drv[e]
    BY <1>1, <2>1 DEF BeginsSeek
  <2> QED  BY <2>1, <2>2, <2>3 DEF AnchorInv, DriverIn
<1>5. ASSUME NEW to \in DrvStates, drv' = [drv EXCEPT ![d].pc = to]
      PROVE  /\ drv'[d].pc = to /\ drv'[d].new = drv[d].new
             /\ \A e \in Drivers \ {d} : drv'[e] = drv[e]
  BY <1>1, <1>5, DriverMoved
<1>6. CASE AwaitPrerolled(d) \/ SetStateSettle(d) \/ SetStateStore(d)
           \/ SetStateUnlatch(d) \/ DriverLatch(d) \/ RequestCheck(d) \/ RequestBump(d)
           \/ RequestDrop(d) \/ RequestRearm(d) \/ RequestRouse(d)
  <2>1. PICK to \in {"poll", "latch", "unlatch", "idle", "announce", "bump", "drop",
                     "rearm", "rouse"} : drv' = [drv EXCEPT ![d].pc = to]
    BY <1>6 DEF AwaitPrerolled, SetStateSettle, SetStateStore, SetStateUnlatch, DriverLatch,
       RequestCheck, RequestBump, RequestDrop, RequestRearm, RequestRouse
  <2>2. to \in DrvStates
    BY DEF DrvStates
  <2>3. /\ drv'[d].pc = to /\ drv'[d].new = drv[d].new
        /\ \A e \in Drivers \ {d} : drv'[e] = drv[e]
    BY <1>5, <2>1, <2>2
  <2>4. /\ drv[d].pc \notin {"wake", "anchor"} /\ runner' = runner
        /\ ctl'.state = ctl.state /\ ctl'.armed = ctl.armed /\ ctl'.anchor = ctl.anchor
    BY <1>1, <1>6 DEF AwaitPrerolled, SetStateSettle, SetStateStore, SetStateUnlatch, DriverLatch,
       RequestCheck, RequestBump, RequestDrop, RequestRearm, RequestRouse, CtlRec
  <2>5. \A e \in Drivers : /\ drv'[e].pc \in {"wake", "anchor"} <=>
                                 drv[e].pc \in {"wake", "anchor"}
                           /\ drv'[e].new = drv[e].new
    BY <2>1, <2>3, <2>4
  <2> QED  BY <2>4, <2>5, AnchorKept
<1>6a. CASE SetStateLoad(d)
  <2>1. /\ drv'[d].pc = "store" /\ drv'[d].new = drv[d].new
        /\ \A e \in Drivers \ {d} : drv'[e] = drv[e]
    BY <1>1, <1>6a, TargetLoaded
  <2>2. drv[d].pc = "settle" /\ runner' = runner /\ ctl' = ctl
    BY <1>6a DEF SetStateLoad
  <2>3. \A e \in Drivers : /\ drv'[e].pc \in {"wake", "anchor"} <=>
                                 drv[e].pc \in {"wake", "anchor"}
                           /\ drv'[e].new = drv[e].new
    BY <2>1, <2>2
  <2> QED  BY <2>2, <2>3, AnchorKept
<1>7. CASE SetStateWake(d)
  <2>1. PICK to \in {"idle", "anchor"} : /\ drv' = [drv EXCEPT ![d].pc = to]
                                         /\ to = "idle" => drv[d].new = "Paused"
    BY <1>7 DEF SetStateWake
  <2>2. to \in DrvStates
    BY DEF DrvStates
  <2>3. /\ drv'[d].pc = to /\ drv'[d].new = drv[d].new
        /\ \A e \in Drivers \ {d} : drv'[e] = drv[e]
    BY <1>5, <2>1, <2>2
  <2>4. drv[d].pc = "wake" /\ ctl' = ctl /\ runner' = runner
    BY <1>7 DEF SetStateWake
  <2> QED  BY <2>1, <2>3, <2>4 DEF AnchorInv, DriverIn
<1>8. CASE SetStateAnchor(d)
  <2>1. drv' = [drv EXCEPT ![d].pc = "settle"] /\ "settle" \in DrvStates
    BY <1>8 DEF SetStateAnchor, DrvStates
  <2>2. drv'[d].pc = "settle" /\ \A e \in Drivers \ {d} : drv'[e] = drv[e]
    BY <1>5, <2>1
  <2>3. /\ drv[d].pc = "anchor" /\ runner' = runner /\ ctl'.state = ctl.state
        /\ ctl'.armed = ctl.armed
        /\ ctl.armed => ctl'.anchor = (drv[d].new = "Playing")
    BY <1>1, <1>8 DEF SetStateAnchor, CtlRec
  <2>4. ctl.state = "Playing" => drv[d].new = "Playing"
    BY <2>3 DEF AnchorInv
  <2> QED  BY <2>2, <2>3, <2>4 DEF AnchorInv
<1>9. CASE DriverAnnounce(d)
  <2>1. ctl' = ctl /\ runner' = runner /\ drv[d].pc = "announce"
        /\ drv' = [Woken EXCEPT ![d].pc = "idle"]
    BY <1>9 DEF DriverAnnounce
  <2>2. drv'[d].pc = "idle"
    BY <1>1, <1>9, DriverAnnounced
  <2>3. \A e \in Drivers \ {d} : drv'[e] = Woken[e]
    BY <1>1, <2>1, DriversWoken
  <2> QED  BY <1>1, <2>1, <2>2, <2>3, DriversWoken DEF AnchorInv, DriverIn
<1>10. CASE PollPreroll(d)
  <2>1. ctl' = ctl /\ runner' = runner /\ drv[d].pc = "poll"
    BY <1>10 DEF PollPreroll
  <2>2. drv'[d].pc \in {"idle", "parked"}
    BY <1>1, <1>10, PrerollPolled
  <2>3. \A e \in Drivers \ {d} : drv'[e] = drv[e]
    BY <1>1, <1>10 DEF PollPreroll
  <2> QED  BY <2>1, <2>2, <2>3 DEF AnchorInv, DriverIn
<1> QED  BY <1>3, <1>4, <1>6, <1>6a, <1>7, <1>8, <1>9, <1>10 DEF Call, CallStep

(* On one executor thread, while the pipeline is Playing and no call is in *)
(* progress, the anchor the sinks present against is stamped, whether the  *)
(* application played before the runner armed the controller or after, and *)
(* however many tasks hold the controller.                                 *)
THEOREM PlayAnchored == ASSUME ~Threaded PROVE Spec => []AnchoredWhilePlaying
<1>1. Init => AnchorInv
  BY DEF Init, AnchorInv
<1>2. TypeOK /\ AnchorInv /\ [Next]_vars => AnchorInv'
  <2> SUFFICES ASSUME TypeOK, AnchorInv, [Next]_vars PROVE AnchorInv'
    OBVIOUS
  <2>1. CASE UNCHANGED vars
    BY <2>1 DEF vars, AnchorInv, DriverIn
  <2> QED  BY <2>1, RunnerAnchor, SinkAnchor, DriverAnchor DEF Next
<1>3. AnchorInv => AnchoredWhilePlaying
  BY DEF AnchorInv, AnchoredWhilePlaying, DriverIn
<1> QED  BY <1>1, <1>2, <1>3, TypeCorrect, PTL DEF Spec
=============================================================================
