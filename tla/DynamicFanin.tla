---------------------------- MODULE DynamicFanin ----------------------------
(***************************************************************************)
(* A muxer with a trailing sink whose inputs are added while it runs       *)
(* (run_muxer_sink_dynamic, runtime/fanin.rs): the handle's add_input from *)
(* several threads, the muxer arm that negotiates each input and passes    *)
(* its run to the join as a new arm, the sources that push into the one    *)
(* tagged channel, and the sink arm on the merged link.                    *)
(*                                                                         *)
(* An atomic access of the handle, a channel operation and a stretch of an *)
(* arm between two of them is a step.  The join takes in new arms only     *)
(* between polls, so never while the muxer arm is between two awaits.  The *)
(* derived output caps are the set of the pads configured, and output_caps *)
(* knows them; the muxer emits each frame as it gets it, so the Eos of one *)
(* input lets nothing more out.                                            *)
(***************************************************************************)
EXTENDS Integers, Sequences, FiniteSets

CONSTANTS Callers,    \* threads with a clone of the handle
          MaxInputs,  \* pads the element declares
          Capacity,   \* link_capacity, of all four channels
          MaxFrames,  \* frames of an input
          MaxAdds,    \* bound on the add_input calls of a caller
          Faults      \* TRUE: the sink, the muxer and the sources may fail

ASSUME DynamicFaninAssumption ==
    /\ MaxInputs \in Nat
    /\ Capacity \in Nat \ {0}
    /\ MaxFrames \in Nat
    /\ MaxAdds \in Nat
    /\ Faults \in BOOLEAN

Adds == Callers \X (1..MaxAdds)
NoAdd == <<>>
Eos == 0                \* the number of a source's Eos

VARIABLES
    nextPad,     \* DynamicFaninHandle.next_pad
    call,        \* each caller's thread: at, n (calls made), pad
    pad,         \* history: the pad each call sent its request with, or -1
    answer,      \* what each call's PendingInput resolves to
    requests,    \* the new_input channel
    arm,         \* the muxer arm: at, add (the request or packet in hand),
                 \* nth (the packet's number) and accepting
    newArms,     \* the new_arm channel
    source,      \* each source arm: at and next (the frame it makes next)
    tagged,      \* the tagged channel: what each packet is of and its number
    configured,  \* pads configured
    output,      \* current_output
    merged,      \* the link to the sink
    sink         \* the sink arm: at, caps, and as history shown

vars == <<nextPad, call, pad, answer, requests, arm, newArms, source, tagged,
          configured, output, merged, sink>>
handle == <<nextPad, call, pad>>
muxer == <<arm, configured, output>>

Init ==
    /\ nextPad = 0
    /\ call = [c \in Callers |-> [at |-> "idle", n |-> 0, pad |-> 0]]
    /\ pad = [i \in Adds |-> -1]
    /\ answer = [i \in Adds |-> "none"]
    /\ requests = <<>>
    /\ arm = [at |-> "drain", add |-> NoAdd, nth |-> Eos, accepting |-> TRUE]
    /\ newArms = <<>>
    /\ source = [i \in Adds |-> [at |-> "none", next |-> 1]]
    /\ tagged = <<>>
    /\ configured = {}
    /\ output = {}
    /\ merged = <<>>
    /\ sink = [at |-> "recv", caps |-> {}, shown |-> {}]

ArmOver == arm.at \in {"ended", "failed"}
SinkOver == sink.at \in {"eos", "closed", "failed"}

-----------------------------------------------------------------------------
(* DynamicFaninHandle::add_input.                                          *)

(* fetch_add reserves a pad; past the last one the call returns Shutdown.  *)
Reserve(c) ==
    /\ call[c].at = "idle"
    /\ call[c].n < MaxAdds
    /\ nextPad' = nextPad + 1
    /\ call' = [call EXCEPT ![c] =
                   [at |-> IF nextPad < MaxInputs THEN "reserved" ELSE "idle",
                    n |-> @.n + 1, pad |-> nextPad]]
    /\ UNCHANGED <<pad, answer, requests, muxer, newArms, source, tagged, merged, sink>>

(* The request is sent: Shutdown on a closed channel, a roll back on a     *)
(* full one.                                                               *)
SendRequest(c) ==
    LET add == <<c, call[c].n>> IN
    /\ call[c].at = "reserved"
    /\ \/ /\ ArmOver
          /\ call' = [call EXCEPT ![c].at = "idle"]
          /\ UNCHANGED <<pad, answer, requests>>
       \/ /\ ~ArmOver
          /\ Len(requests) = Capacity
          /\ call' = [call EXCEPT ![c].at = "full"]
          /\ UNCHANGED <<pad, answer, requests>>
       \/ /\ ~ArmOver
          /\ Len(requests) < Capacity
          /\ requests' = Append(requests, add)
          /\ pad' = [pad EXCEPT ![add] = call[c].pad]
          /\ answer' = [answer EXCEPT ![add] = "pending"]
          /\ call' = [call EXCEPT ![c].at = "idle"]
    /\ UNCHANGED <<nextPad, muxer, newArms, source, tagged, merged, sink>>

(* Mutant: the pad is given back whoever reserved since.                   *)
RollBackAlways(c) ==
    /\ call[c].at = "full"
    /\ nextPad' = nextPad - 1
    /\ call' = [call EXCEPT ![c].at = "idle"]
    /\ UNCHANGED <<pad, answer, requests, muxer, newArms, source, tagged, merged, sink>>

(* compare_exchange(pad + 1, pad): the pad is given back only when no      *)
(* later call reserved one.  The call returns PoolExhausted.               *)
RollBack(c) ==
    /\ call[c].at = "full"
    /\ nextPad' = IF nextPad = call[c].pad + 1 THEN call[c].pad ELSE nextPad
    /\ call' = [call EXCEPT ![c].at = "idle"]
    /\ UNCHANGED <<pad, answer, requests, muxer, newArms, source, tagged, merged, sink>>

(* The last handle dropped closes the new_input channel.                   *)
DropHandle(c) ==
    /\ call[c].at = "idle"
    /\ call' = [call EXCEPT ![c].at = "gone"]
    /\ UNCHANGED <<nextPad, pad, answer, requests, muxer, newArms, source, tagged,
                   merged, sink>>

HandlesGone == \A c \in Callers : call[c].at = "gone"

-----------------------------------------------------------------------------
(* The muxer arm.                                                          *)

(* Mutant: what is queued outlives the receiver.                           *)
OrphanedKept(extra) == [i \in Adds |-> IF i \in extra THEN "shutdown" ELSE answer[i]]

(* Receiver::drop releases the requests still queued, and a PendingInput   *)
(* whose reply channel closed resolves to Shutdown.                        *)
Orphaned(extra) ==
    [i \in Adds |-> IF i \in extra \/ \E k \in DOMAIN requests : requests[k] = i
                    THEN "shutdown" ELSE answer[i]]

(* The arm returns: its ends of the four channels go with it.              *)
ArmReturns(how, extra) ==
    /\ arm' = [arm EXCEPT !.at = how, !.add = NoAdd]
    /\ answer' = Orphaned(extra)
    /\ requests' = <<>>
    /\ tagged' = <<>>

TakeRequest ==
    /\ requests # <<>>
    /\ arm' = [arm EXCEPT !.at = "negotiate", !.add = Head(requests)]
    /\ requests' = Tail(requests)
    /\ UNCHANGED tagged

(* Mutant: the caps are announced for the first frame only.                *)
TakePacketOnce ==
    LET packet == Head(tagged)
        frame == packet.nth # Eos IN
    /\ tagged # <<>>
    /\ tagged' = Tail(tagged)
    /\ arm' = IF frame
              THEN [arm EXCEPT !.at = IF output = {} THEN "announce" ELSE "emit",
                               !.add = packet.add, !.nth = packet.nth]
              ELSE [arm EXCEPT !.at = "drain"]
    /\ UNCHANGED requests

(* A frame is preceded by the output caps when they have changed; the Eos  *)
(* of an input goes to the muxer and no further.                           *)
TakePacket ==
    LET packet == Head(tagged)
        frame == packet.nth # Eos IN
    /\ tagged # <<>>
    /\ tagged' = Tail(tagged)
    /\ arm' = IF frame
              THEN [arm EXCEPT !.at = IF output # configured THEN "announce" ELSE "emit",
                               !.add = packet.add, !.nth = packet.nth]
              ELSE [arm EXCEPT !.at = "drain"]
    /\ UNCHANGED requests

(* Every queued request is attached before the next packet is waited for.  *)
Drain ==
    /\ arm.at = "drain"
    /\ IF requests # <<>>
       THEN TakeRequest
       ELSE /\ arm' = [arm EXCEPT !.at = "select"]
            /\ UNCHANGED <<requests, tagged>>
    /\ UNCHANGED <<handle, answer, newArms, source, configured, output, merged, sink>>

(* Mutant: the end of the handles is the end of the inputs.                *)
StopAcceptingAtOnce ==
    /\ arm.accepting
    /\ requests = <<>>
    /\ HandlesGone
    /\ arm' = [arm EXCEPT !.at = "close", !.accepting = FALSE]
    /\ UNCHANGED <<requests, tagged>>

(* Mutant: the arm keeps its tagged sender.                                *)
StopAcceptingKeepsSender ==
    /\ arm.accepting
    /\ requests = <<>>
    /\ HandlesGone
    /\ arm' = [arm EXCEPT !.at = "drain"]
    /\ UNCHANGED <<requests, tagged>>

(* The handles are gone: the arm drops the tagged sender it kept.          *)
StopAccepting ==
    /\ arm.accepting
    /\ requests = <<>>
    /\ HandlesGone
    /\ arm' = [arm EXCEPT !.at = "drain", !.accepting = FALSE]
    /\ UNCHANGED <<requests, tagged>>

(* The tagged channel is closed: nobody holds a sender of it.              *)
InputsEnded ==
    /\ ~arm.accepting
    /\ newArms = <<>>
    /\ \A i \in Adds : source[i].at # "running"
    /\ arm' = [arm EXCEPT !.at = "close"]
    /\ UNCHANGED <<requests, tagged>>

(* select2 looks at the tagged channel first.                              *)
Select ==
    /\ arm.at = "select"
    /\ \/ TakePacket
       \/ tagged = <<>> /\ arm.accepting /\ TakeRequest
       \/ tagged = <<>> /\ StopAccepting
       \/ tagged = <<>> /\ InputsEnded
    /\ UNCHANGED <<handle, answer, newArms, source, configured, output, merged, sink>>

(* negotiate_new_input failed, or the element refused: the caller is told. *)
(* The last thing to fail is the pad's own configure_pipeline, which may   *)
(* have configured the pad all the same.                                   *)
Refuse ==
    /\ arm.at = "negotiate"
    /\ answer' = [answer EXCEPT ![arm.add] = "refused"]
    /\ arm' = [arm EXCEPT !.at = "drain", !.add = NoAdd]
    /\ configured' \in {configured, configured \cup {pad[arm.add]}}
    /\ UNCHANGED <<handle, requests, newArms, source, tagged, output, merged, sink>>

(* The pad is configured and the source's run sent to the join.            *)
Attach ==
    /\ arm.at = "negotiate"
    /\ Len(newArms) < Capacity
    /\ configured' = configured \cup {pad[arm.add]}
    /\ newArms' = Append(newArms, arm.add)
    /\ answer' = [answer EXCEPT ![arm.add] = "accepted"]
    /\ arm' = [arm EXCEPT !.at = "drain", !.add = NoAdd]
    /\ UNCHANGED <<handle, requests, source, tagged, output, merged, sink>>

(* The arm channel is full: try_send fails and the arm with it.            *)
AttachFails ==
    /\ arm.at = "negotiate"
    /\ Len(newArms) = Capacity
    /\ configured' = configured \cup {pad[arm.add]}
    /\ ArmReturns("failed", {arm.add})
    /\ UNCHANGED <<handle, newArms, source, output, merged, sink>>

(* A push into the merged link waits for room.                             *)
Pushed(packet) ==
    /\ ~SinkOver
    /\ Len(merged) < Capacity
    /\ merged' = Append(merged, packet)

Announce ==
    /\ arm.at = "announce"
    /\ Pushed([what |-> "caps", caps |-> configured])
    /\ output' = configured
    /\ arm' = [arm EXCEPT !.at = "emit"]
    /\ UNCHANGED <<handle, answer, requests, newArms, source, tagged, configured, sink>>

Emit ==
    /\ arm.at = "emit"
    /\ Pushed([what |-> "frame", add |-> arm.add, nth |-> arm.nth])
    /\ arm' = [arm EXCEPT !.at = "drain", !.add = NoAdd, !.nth = Eos]
    /\ UNCHANGED <<handle, answer, requests, newArms, source, tagged, configured, output, sink>>

Close ==
    /\ arm.at = "close"
    /\ Pushed([what |-> "eos"])
    /\ ArmReturns("ended", {})
    /\ UNCHANGED <<handle, newArms, source, configured, output, sink>>

(* A push into a link the sink has left, or an error of the muxer at a     *)
(* frame or at the Eos of an input.                                        *)
ArmFails ==
    /\ \/ arm.at \in {"announce", "emit", "close"} /\ SinkOver
       \/ arm.at = "emit" /\ Faults
       \/ arm.at = "select" /\ Faults /\ tagged # <<>> /\ Head(tagged).nth = Eos
    /\ ArmReturns("failed", {})
    /\ UNCHANGED <<handle, newArms, source, configured, output, merged, sink>>

-----------------------------------------------------------------------------
(* The join and the other arms.                                            *)

(* fold_new_arms, at the start of a poll.                                  *)
Fold ==
    /\ newArms # <<>>
    /\ arm.at # "drain"
    /\ source' = [i \in Adds |-> IF \E k \in DOMAIN newArms : newArms[k] = i
                                 THEN [source[i] EXCEPT !.at = "running"] ELSE source[i]]
    /\ newArms' = <<>>
    /\ UNCHANGED <<handle, answer, requests, muxer, tagged, merged, sink>>

(* A source pushes its next frame, or its Eos and ends.  Once the muxer    *)
(* arm is over the push fails and the source winds down.                   *)
SourcePush(i) ==
    LET last == source[i].next > MaxFrames IN
    /\ source[i].at = "running"
    /\ \/ /\ ~ArmOver
          /\ Len(tagged) < Capacity
          /\ tagged' = Append(tagged, [add |-> i, nth |-> IF last THEN Eos ELSE source[i].next])
          /\ source' = IF last THEN [source EXCEPT ![i].at = "ended"]
                       ELSE [source EXCEPT ![i].next = @ + 1]
       \/ /\ ArmOver
          /\ source' = [source EXCEPT ![i].at = "ended"]
          /\ UNCHANGED tagged
    /\ UNCHANGED <<handle, answer, requests, muxer, newArms, merged, sink>>

SourceFails(i) ==
    /\ Faults
    /\ source[i].at = "running"
    /\ source' = [source EXCEPT ![i].at = "ended"]
    /\ UNCHANGED <<handle, answer, requests, muxer, newArms, tagged, merged, sink>>

SinkTakes ==
    LET packet == Head(merged) IN
    /\ sink.at = "recv"
    /\ merged # <<>>
    /\ \/ /\ packet.what = "caps"
          /\ sink' = [sink EXCEPT !.caps = packet.caps]
          /\ merged' = Tail(merged)
       \/ /\ packet.what = "frame"
          /\ sink' = [sink EXCEPT !.shown = @ \cup
                        {[add |-> packet.add, nth |-> packet.nth, caps |-> sink.caps]}]
          /\ merged' = Tail(merged)
       \/ /\ packet.what = "eos"
          /\ sink' = [sink EXCEPT !.at = "eos"]
          /\ merged' = <<>>
       \/ /\ Faults
          /\ sink' = [sink EXCEPT !.at = "failed"]
          /\ merged' = <<>>
    /\ UNCHANGED <<handle, answer, requests, muxer, newArms, source, tagged>>

SinkCloses ==
    /\ sink.at = "recv"
    /\ merged = <<>>
    /\ ArmOver
    /\ sink' = [sink EXCEPT !.at = "closed"]
    /\ UNCHANGED <<handle, answer, requests, muxer, newArms, source, tagged, merged>>

(* The join resolves once the control channel is closed and every arm done.*)
RunOver ==
    /\ ArmOver
    /\ SinkOver
    /\ newArms = <<>>
    /\ \A i \in Adds : source[i].at # "running"

-----------------------------------------------------------------------------
Muxer ==
    \/ Drain \/ Select \/ Refuse \/ Attach \/ AttachFails
    \/ Announce \/ Emit \/ Close \/ ArmFails

Next ==
    \/ \E c \in Callers : Reserve(c) \/ SendRequest(c) \/ RollBack(c) \/ DropHandle(c)
    \/ Muxer
    \/ Fold
    \/ \E i \in Adds : SourcePush(i) \/ SourceFails(i)
    \/ SinkTakes
    \/ SinkCloses

(* The run is polled and calls return; nobody has to call or to let go.    *)
Fairness ==
    /\ \A c \in Callers : WF_vars(SendRequest(c) \/ RollBack(c))
    /\ WF_vars(Muxer)
    /\ WF_vars(Fold)
    /\ \A i \in Adds : WF_vars(SourcePush(i))
    /\ WF_vars(SinkTakes \/ SinkCloses)

Spec == Init /\ [][Next]_vars /\ Fairness

-----------------------------------------------------------------------------
Pads == 0..(MaxInputs - 1)
Packets == [what : {"caps"}, caps : SUBSET Pads]
              \cup [what : {"frame"}, add : Adds, nth : 1..MaxFrames]
              \cup [what : {"eos"}]

TypeOK ==
    /\ nextPad \in Nat
    /\ call \in [Callers -> [at : {"idle", "reserved", "full", "gone"},
                             n : 0..MaxAdds, pad : Nat]]
    /\ pad \in [Adds -> Pads \cup {-1}]
    /\ answer \in [Adds -> {"none", "pending", "accepted", "refused", "shutdown"}]
    /\ requests \in Seq(Adds)
    /\ arm \in [at : {"drain", "select", "negotiate", "announce", "emit", "close",
                      "ended", "failed"},
                add : Adds \cup {NoAdd}, nth : 0..MaxFrames, accepting : BOOLEAN]
    /\ newArms \in Seq(Adds)
    /\ source \in [Adds -> [at : {"none", "running", "ended"}, next : 1..(MaxFrames + 1)]]
    /\ tagged \in Seq([add : Adds, nth : 0..MaxFrames])
    /\ configured \subseteq Pads
    /\ output \subseteq Pads
    /\ merged \in Seq(Packets)
    /\ sink \in [at : {"recv", "eos", "closed", "failed"}, caps : SUBSET Pads,
                 shown : SUBSET [add : Adds, nth : 1..MaxFrames, caps : SUBSET Pads]]

(* Nobody shares a pad: not two calls in flight, not an input attached and *)
(* one still queued, however reservations are taken and rolled back.       *)
Reserving(c) == call[c].at \in {"reserved", "full"}
PadsDistinct ==
    /\ \A i, j \in Adds : (pad[i] = pad[j] /\ pad[i] # -1) => i = j
    /\ \A c, d \in Callers :
          (Reserving(c) /\ Reserving(d) /\ call[c].pad = call[d].pad) => c = d
    /\ \A c \in Callers, i \in Adds : Reserving(c) => pad[i] # call[c].pad

(* A frame is shown under caps of an output that has its pad, however late *)
(* the input was added.                                                    *)
ShownAsAnnounced == \A frame \in sink.shown : pad[frame.add] \in frame.caps

(* The merged Eos stands for all inputs: when the sink has taken it every  *)
(* accepted source has ended and every frame one pushed has been shown.    *)
EosStandsForAll ==
    sink.at = "eos" =>
        \A i \in Adds : answer[i] = "accepted" =>
            /\ source[i].at = "ended"
            /\ \A n \in 1..(source[i].next - 1) :
                  \E frame \in sink.shown : frame.add = i /\ frame.nth = n

(* Every queued request is answered, also when the run fails first.        *)
AddAnswered == \A i \in Adds : answer[i] = "pending" ~> answer[i] # "pending"

(* Once the handles are gone the run ends.                                 *)
RunEnds == HandlesGone ~> RunOver

(* Adding inputs never ends the run: without a fault of an element the    *)
(* muxer arm does not fail ("a refused input fails alone while the run     *)
(* continues on the inputs it has").                                       *)
AddsLeaveTheRun == ~Faults => arm.at # "failed"
=============================================================================
