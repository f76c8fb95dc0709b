------------------------- MODULE DynamicFaninProofs -------------------------
(***************************************************************************)
(* Proofs about the dynamic fan-in, for every number of callers, pads,     *)
(* frames and calls and every link capacity.                               *)
(***************************************************************************)
EXTENDS DynamicFanin, TLAPS

(* The handle's part of the type invariant.                                *)
HandleType ==
    /\ nextPad \in Nat
    /\ call \in [Callers -> [at : {"idle", "reserved", "full", "gone"},
                             n : 0..MaxAdds, pad : Nat]]
    /\ pad \in [Adds -> Pads \cup {-1}]

(* A pad reserved or sent is below next_pad, and a call has sent nothing   *)
(* before it sends.                                                        *)
ReservedBelow ==
    \A c \in Callers : Reserving(c) =>
        /\ call[c].n >= 1
        /\ call[c].pad \in Pads
        /\ call[c].pad < nextPad
        /\ pad[<<c, call[c].n>>] = -1
Unsent == \A c \in Callers, k \in 1..MaxAdds : k > call[c].n => pad[<<c, k>>] = -1
SentBelow == \A i \in Adds : pad[i] < nextPad

HandleInv == HandleType /\ ReservedBelow /\ Unsent /\ SentBelow /\ PadsDistinct

-----------------------------------------------------------------------------
(* The call whose request a caller is about to send.                       *)
LEMMA AddFacts ==
  ASSUME HandleInv, NEW c \in Callers, Reserving(c)
  PROVE  /\ <<c, call[c].n>> \in Adds
         /\ pad[<<c, call[c].n>>] = -1
  BY DynamicFaninAssumption DEF HandleInv, HandleType, ReservedBelow, Adds

(* What a call does to the caller it belongs to and to no other.           *)
LEMMA ReserveStep ==
  ASSUME HandleInv, NEW c \in Callers, Reserve(c)
  PROVE  HandleInv'
<1>1. /\ nextPad \in Nat /\ nextPad' = nextPad + 1 /\ pad' = pad
      /\ call[c].n \in 0..MaxAdds /\ call[c].n < MaxAdds
  BY DEF Reserve, HandleInv, HandleType
<1>2. /\ call'[c] = [at |-> IF nextPad < MaxInputs THEN "reserved" ELSE "idle",
                     n |-> call[c].n + 1, pad |-> nextPad]
      /\ \A d \in Callers \ {c} : call'[d] = call[d]
  BY DEF Reserve, HandleInv, HandleType
<1>3. HandleType'
  BY <1>1, DynamicFaninAssumption DEF Reserve, HandleInv, HandleType
<1>4. pad[<<c, call[c].n + 1>>] = -1
  BY <1>1, DynamicFaninAssumption DEF HandleInv, Unsent
<1>5. ReservedBelow'
  <2> SUFFICES ASSUME NEW d \in Callers, Reserving(d)'
               PROVE  /\ call'[d].n >= 1
                      /\ call'[d].pad \in Pads
                      /\ call'[d].pad < nextPad'
                      /\ pad'[<<d, call'[d].n>>] = -1
    BY DEF ReservedBelow
  <2>1. CASE d = c
    BY <2>1, <1>1, <1>2, <1>4, DynamicFaninAssumption DEF Reserving, Pads
  <2>2. CASE d # c
    <3>1. call'[d] = call[d] /\ Reserving(d)
      BY <2>2, <1>2 DEF Reserving
    <3> QED BY <3>1, <1>1 DEF HandleInv, HandleType, ReservedBelow
  <2> QED BY <2>1, <2>2
<1>6. Unsent'
  <2> SUFFICES ASSUME NEW d \in Callers, NEW k \in 1..MaxAdds, k > call'[d].n
               PROVE  pad[<<d, k>>] = -1
    BY <1>1 DEF Unsent
  <2>1. k > call[d].n
    BY <1>1, <1>2, DynamicFaninAssumption DEF HandleInv, HandleType
  <2> QED BY <2>1 DEF HandleInv, Unsent
<1>7. SentBelow'
  BY <1>1 DEF HandleInv, HandleType, SentBelow, Pads
<1>8. PadsDistinct'
  <2>1. \A d \in Callers : Reserving(d)' => d = c \/ (Reserving(d) /\ call'[d] = call[d])
    BY <1>2 DEF Reserving
  <2>2. \A d \in Callers : Reserving(d) => call[d].pad # nextPad
    <3> SUFFICES ASSUME NEW d \in Callers, Reserving(d) PROVE call[d].pad # nextPad
      OBVIOUS
    <3>1. call[d].pad < nextPad /\ call[d].pad \in Nat
      BY DEF HandleInv, HandleType, ReservedBelow
    <3> QED BY <1>1, <3>1
  <2>3. \A i \in Adds : pad[i] # nextPad
    BY <1>1 DEF HandleInv, HandleType, SentBelow, Pads
  <2>4. call'[c].pad = nextPad
    BY <1>2
  <2>5. \A d, e \in Callers :
           (Reserving(d)' /\ Reserving(e)' /\ call'[d].pad = call'[e].pad) => d = e
    BY <2>1, <2>2, <2>4 DEF HandleInv, PadsDistinct
  <2>6. \A d \in Callers, i \in Adds : Reserving(d)' => pad'[i] # call'[d].pad
    BY <1>1, <2>1, <2>3, <2>4 DEF HandleInv, PadsDistinct
  <2> QED BY <1>1, <2>5, <2>6 DEF HandleInv, PadsDistinct
<1> QED BY <1>3, <1>5, <1>6, <1>7, <1>8 DEF HandleInv

(* A caller that leaves its call leaves nothing reserved.                  *)
LEMMA LeaveStep ==
  ASSUME HandleInv, NEW c \in Callers, NEW where \in {"idle", "full", "gone"},
         call' = [call EXCEPT ![c].at = where], where = "full" => Reserving(c),
         UNCHANGED <<nextPad, pad>>
  PROVE  HandleInv'
<1>1. /\ call'[c] = [call[c] EXCEPT !.at = where]
      /\ \A d \in Callers \ {c} : call'[d] = call[d]
      /\ \A d \in Callers : call'[d].n = call[d].n /\ call'[d].pad = call[d].pad
  BY DEF HandleInv, HandleType
<1>2. HandleType'
  BY DEF HandleInv, HandleType
<1>3. \A d \in Callers : Reserving(d)' => Reserving(d)
  BY <1>1 DEF Reserving, HandleInv, HandleType
<1>4. ReservedBelow'
  BY <1>1, <1>3 DEF HandleInv, ReservedBelow
<1>5. Unsent'
  BY <1>1 DEF HandleInv, Unsent
<1>6. SentBelow'
  BY DEF HandleInv, SentBelow
<1>7. PadsDistinct'
  BY <1>1, <1>3 DEF HandleInv, PadsDistinct
<1> QED BY <1>2, <1>4, <1>5, <1>6, <1>7 DEF HandleInv

(* A request sent carries the caller's pad with it.                        *)
LEMMA SendStep ==
  ASSUME HandleInv, NEW c \in Callers, call[c].at = "reserved",
         call' = [call EXCEPT ![c].at = "idle"],
         pad' = [pad EXCEPT ![<<c, call[c].n>>] = call[c].pad],
         UNCHANGED nextPad
  PROVE  HandleInv'
<1> DEFINE add == <<c, call[c].n>>
<1>0. Reserving(c)
  BY DEF Reserving
<1>1. add \in Adds /\ pad[add] = -1 /\ call[c].pad \in Pads /\ call[c].pad < nextPad
  BY <1>0, AddFacts DEF HandleInv, ReservedBelow
<1>2. /\ \A d \in Callers : call'[d].n = call[d].n /\ call'[d].pad = call[d].pad
      /\ \A d \in Callers : Reserving(d)' => Reserving(d) /\ d # c
  BY DEF HandleInv, HandleType, Reserving
<1>3. pad'[add] = call[c].pad /\ \A i \in Adds \ {add} : pad'[i] = pad[i]
  BY <1>1 DEF HandleInv, HandleType
<1>4. HandleType'
  BY <1>1 DEF HandleInv, HandleType
<1>5. ReservedBelow'
  <2> SUFFICES ASSUME NEW d \in Callers, Reserving(d)'
               PROVE  /\ call'[d].n >= 1
                      /\ call'[d].pad \in Pads
                      /\ call'[d].pad < nextPad'
                      /\ pad'[<<d, call'[d].n>>] = -1
    BY DEF ReservedBelow
  <2>1. Reserving(d) /\ d # c
    BY <1>2
  <2>2. <<d, call[d].n>> \in Adds \ {add}
    BY <2>1, AddFacts
  <2> QED BY <1>2, <1>3, <2>1, <2>2 DEF HandleInv, ReservedBelow
<1>6. Unsent'
  <2> SUFFICES ASSUME NEW d \in Callers, NEW k \in 1..MaxAdds, k > call[d].n
               PROVE  pad'[<<d, k>>] = -1
    BY <1>2 DEF Unsent
  <2>1. <<d, k>> \in Adds /\ <<d, k>> # add
    BY DEF Adds, HandleInv, HandleType
  <2> QED BY <1>3, <2>1 DEF HandleInv, Unsent
<1>7. SentBelow'
  BY <1>1, <1>3 DEF HandleInv, SentBelow
<1>8. PadsDistinct'
  <2>1. \A i \in Adds : pad[i] # call[c].pad
    BY <1>0 DEF HandleInv, PadsDistinct
  <2>2. \A i, j \in Adds : (pad'[i] = pad'[j] /\ pad'[i] # -1) => i = j
    BY <1>1, <1>3, <2>1 DEF HandleInv, PadsDistinct
  <2>3. \A d \in Callers, i \in Adds : Reserving(d)' => pad'[i] # call'[d].pad
    BY <1>0, <1>2, <1>3 DEF HandleInv, PadsDistinct
  <2> QED BY <1>2, <2>2, <2>3 DEF HandleInv, PadsDistinct
<1> QED BY <1>4, <1>5, <1>6, <1>7, <1>8 DEF HandleInv

(* The pad given back was the last one reserved, so every other is below.  *)
LEMMA RollBackStep ==
  ASSUME HandleInv, NEW c \in Callers, RollBack(c)
  PROVE  HandleInv'
<1>1. Reserving(c)
  BY DEF RollBack, Reserving
<1>2. CASE nextPad # call[c].pad + 1
  <2>1. UNCHANGED <<nextPad, pad>>
    BY <1>2 DEF RollBack
  <2> QED BY <2>1, LeaveStep DEF RollBack
<1>3. CASE nextPad = call[c].pad + 1
  <2>1. nextPad' = call[c].pad /\ pad' = pad /\ call[c].pad \in Nat
    BY <1>3 DEF RollBack, HandleInv, HandleType
  <2>2. /\ \A d \in Callers : call'[d].n = call[d].n /\ call'[d].pad = call[d].pad
        /\ \A d \in Callers : Reserving(d)' => Reserving(d) /\ d # c
    BY DEF RollBack, HandleInv, HandleType, Reserving
  <2>3. HandleType'
    BY <2>1 DEF RollBack, HandleInv, HandleType
  <2>4. \A d \in Callers : Reserving(d)' => call[d].pad < nextPad'
    <3> SUFFICES ASSUME NEW d \in Callers, Reserving(d)'
                 PROVE  call[d].pad < nextPad'
      OBVIOUS
    <3>1. call[d].pad # call[c].pad
      BY <1>1, <2>2 DEF HandleInv, PadsDistinct
    <3>2. call[d].pad < nextPad /\ call[d].pad \in Nat
      BY <2>2 DEF HandleInv, HandleType, ReservedBelow
    <3> QED BY <1>3, <2>1, <3>1, <3>2
  <2>5. ReservedBelow'
    BY <2>1, <2>2, <2>4 DEF HandleInv, ReservedBelow
  <2>6. Unsent'
    BY <2>1, <2>2 DEF HandleInv, Unsent
  <2>7. SentBelow'
    <3> SUFFICES ASSUME NEW i \in Adds PROVE pad[i] < call[c].pad
      BY <2>1 DEF SentBelow
    <3>1. pad[i] # call[c].pad
      BY <1>1 DEF HandleInv, PadsDistinct
    <3>2. pad[i] < nextPad /\ pad[i] \in Int
      BY DEF HandleInv, HandleType, SentBelow, Pads
    <3> QED BY <1>3, <2>1, <3>1, <3>2
  <2>8. PadsDistinct'
    BY <2>1, <2>2 DEF HandleInv, PadsDistinct
  <2> QED BY <2>3, <2>5, <2>6, <2>7, <2>8 DEF HandleInv
<1> QED BY <1>2, <1>3

(* Nothing but the four steps of a call touches the handle.                *)
LEMMA HandleStep ==
  ASSUME HandleInv, [Next]_vars
  PROVE  HandleInv'
<1>1. CASE UNCHANGED handle
  BY <1>1 DEF handle, HandleInv, HandleType, ReservedBelow, Unsent, SentBelow, PadsDistinct,
     Reserving
<1>2. ASSUME NEW c \in Callers, Reserve(c) \/ SendRequest(c) \/ RollBack(c) \/ DropHandle(c)
      PROVE  HandleInv'
  <2>1. CASE Reserve(c)
    BY <2>1, ReserveStep
  <2>2. CASE SendRequest(c)
    <3>1. CASE pad' = pad
      <4>1. \/ call' = [call EXCEPT ![c].at = "idle"]
            \/ call' = [call EXCEPT ![c].at = "full"]
        BY <2>2 DEF SendRequest
      <4> QED BY <2>2, <3>1, <4>1, LeaveStep DEF SendRequest, Reserving
    <3>2. CASE pad' # pad
      BY <2>2, <3>2, SendStep DEF SendRequest
    <3> QED BY <3>1, <3>2
  <2>3. CASE RollBack(c)
    BY <2>3, RollBackStep
  <2>4. CASE DropHandle(c)
    BY <2>4, LeaveStep DEF DropHandle
  <2> QED BY <1>2, <2>1, <2>2, <2>3, <2>4
<1>3. CASE UNCHANGED vars
  BY <1>1, <1>3 DEF vars, handle
<1>4. CASE Muxer
  BY <1>1, <1>4 DEF Muxer, Drain, Select, Refuse, Attach, AttachFails, Announce, Emit, Close,
     ArmFails
<1>5. ASSUME NEW i \in Adds, SourcePush(i) \/ SourceFails(i)
      PROVE  HandleInv'
  BY <1>1, <1>5 DEF SourcePush, SourceFails
<1>6. CASE Fold \/ SinkTakes \/ SinkCloses
  BY <1>1, <1>6 DEF Fold, SinkTakes, SinkCloses
<1> QED BY <1>2, <1>3, <1>4, <1>5, <1>6 DEF Next

-----------------------------------------------------------------------------
(* The handle's inductive invariant: every pad out is below next_pad, and  *)
(* no two are the same.                                                    *)
THEOREM HandleInductive == Spec => []HandleInv
<1>1. Init => HandleInv
  BY DynamicFaninAssumption
  DEF Init, HandleInv, HandleType, ReservedBelow, Unsent, SentBelow, PadsDistinct, Reserving,
      Adds, Pads
<1> QED BY <1>1, HandleStep, PTL DEF Spec

(* Nobody shares a pad, for any number of callers, calls and pads.         *)
THEOREM PadsKeptApart == Spec => []PadsDistinct
  BY HandleInductive, PTL DEF HandleInv

-----------------------------------------------------------------------------
TaggedPackets == [add : Adds, nth : Nat]
MergedPackets ==
    [what : {"caps"}, caps : SUBSET Pads]
       \cup [what : {"frame"}, add : Adds, nth : Nat]
       \cup [what : {"eos"}]

(* The rest of the state, as far as the argument about the caps needs it.  *)
FlowType ==
    /\ requests \in Seq(Adds)
    /\ newArms \in Seq(Adds)
    /\ tagged \in Seq(TaggedPackets)
    /\ merged \in Seq(MergedPackets)
    /\ source \in [Adds -> [at : {"none", "running", "ended"}, next : Nat]]
    /\ arm \in [at : {"drain", "select", "negotiate", "announce", "emit", "close",
                      "ended", "failed"},
                add : Adds \cup {NoAdd}, nth : Nat, accepting : BOOLEAN]
    /\ sink \in [at : {"recv", "eos", "closed", "failed"}, caps : SUBSET Pads,
                 shown : SUBSET [add : Adds, nth : Nat, caps : SUBSET Pads]]
    /\ configured \subseteq Pads
    /\ output \subseteq configured

(* What the muxer arm has in hand has a pad, configured once it flows and  *)
(* announced once it is emitted.                                           *)
ArmInv ==
    /\ arm.at = "negotiate" => arm.add \in Adds /\ pad[arm.add] \in Pads
    /\ arm.at \in {"announce", "emit"} => arm.add \in Adds /\ pad[arm.add] \in configured
    /\ arm.at = "emit" => pad[arm.add] \in output

(* A request has a pad, and whoever may push has a configured one.         *)
QueueInv ==
    /\ \A k \in 1..Len(requests) : pad[requests[k]] \in Pads
    /\ \A k \in 1..Len(newArms) : pad[newArms[k]] \in configured
    /\ \A i \in Adds : source[i].at # "none" => pad[i] \in configured
    /\ \A k \in 1..Len(tagged) : pad[tagged[k].add] \in configured

(* Announced caps only grow on their way to the sink; a frame is behind    *)
(* caps that have its pad; and what is announced last is the output.       *)
IsCaps(k) == merged[k].what = "caps"
IsFrame(k) == merged[k].what = "frame"
CapsGrow ==
    /\ sink.caps \subseteq output
    /\ \A k \in 1..Len(merged) :
          IsCaps(k) => sink.caps \subseteq merged[k].caps /\ merged[k].caps \subseteq output
    /\ \A j, k \in 1..Len(merged) :
          (j < k /\ IsCaps(j) /\ IsCaps(k)) => merged[j].caps \subseteq merged[k].caps
FramesBehindCaps ==
    \A k \in 1..Len(merged) : IsFrame(k) =>
        /\ pad[merged[k].add] \in Pads
        /\ \/ pad[merged[k].add] \in sink.caps
           \/ \E j \in 1..Len(merged) :
                 j < k /\ IsCaps(j) /\ pad[merged[k].add] \in merged[j].caps
OutputAnnounced ==
    sink.at = "recv" => \A p \in output :
        \/ p \in sink.caps
        \/ \E j \in 1..Len(merged) : IsCaps(j) /\ p \in merged[j].caps
MergedInv == CapsGrow /\ FramesBehindCaps /\ OutputAnnounced

Flowing == /\ FlowType /\ ArmInv /\ QueueInv /\ MergedInv /\ ShownAsAnnounced

(* Appending to and taking from a sequence.                                *)
LEMMA AppendFacts ==
  ASSUME NEW S, NEW s \in Seq(S), NEW x \in S
  PROVE  /\ Append(s, x) \in Seq(S)
         /\ Len(s) \in Nat
         /\ Len(Append(s, x)) = Len(s) + 1
         /\ \A k \in 1..Len(s) : Append(s, x)[k] = s[k]
         /\ Append(s, x)[Len(s) + 1] = x
  OBVIOUS

(* What taking the head of a channel leaves behind.                        *)
LEMMA TailFacts ==
  ASSUME NEW S, NEW s \in Seq(S), s # <<>>
  PROVE  /\ Tail(s) \in Seq(S)
         /\ Len(s) \in Nat
         /\ Len(s) >= 1
         /\ Head(s) \in S
         /\ Head(s) = s[1]
         /\ Len(Tail(s)) = Len(s) - 1
         /\ \A k \in 1..Len(Tail(s)) : Tail(s)[k] = s[k + 1] /\ k + 1 \in 1..Len(s)
  OBVIOUS

(* What a packet of the merged link has.                                   *)
LEMMA PacketFacts ==
  ASSUME NEW m \in MergedPackets
  PROVE  /\ m.what = "frame" => m.add \in Adds /\ m.nth \in Nat
         /\ m.what = "caps" => m.caps \subseteq Pads
<1>1. CASE m \in [what : {"caps"}, caps : SUBSET Pads]
  BY <1>1
<1>2. CASE m \in [what : {"frame"}, add : Adds, nth : Nat]
  BY <1>2
<1>3. CASE m \in [what : {"eos"}]
  BY <1>3
<1> QED BY <1>1, <1>2, <1>3 DEF MergedPackets

(* A pad once given to a call stays.                                       *)
LEMMA PadStable ==
  ASSUME HandleInv, [Next]_vars
  PROVE  \A i \in Adds : pad[i] \in Pads => pad'[i] = pad[i]
<1>1. CASE pad' = pad
  BY <1>1
<1>2. ASSUME NEW c \in Callers, SendRequest(c)
      PROVE  \A i \in Adds : pad[i] \in Pads => pad'[i] = pad[i]
  <2>1. <<c, call[c].n>> \in Adds /\ pad[<<c, call[c].n>>] = -1
    BY <1>2, AddFacts DEF SendRequest, Reserving
  <2>2. -1 \notin Pads
    BY DynamicFaninAssumption DEF Pads
  <2> QED BY <1>1, <1>2, <2>1, <2>2 DEF SendRequest, HandleInv, HandleType
<1>3. ASSUME NEW c \in Callers, Reserve(c) \/ RollBack(c) \/ DropHandle(c)
      PROVE  pad' = pad
  BY <1>3 DEF Reserve, RollBack, DropHandle
<1>4. CASE UNCHANGED vars
  BY <1>1, <1>4 DEF vars
<1>5. CASE Muxer
  BY <1>1, <1>5 DEF Muxer, Drain, Select, Refuse, Attach, AttachFails, Announce, Emit, Close,
     ArmFails, handle
<1>6. ASSUME NEW i \in Adds, SourcePush(i) \/ SourceFails(i)
      PROVE  pad' = pad
  BY <1>6 DEF SourcePush, SourceFails, handle
<1>7. CASE Fold \/ SinkTakes \/ SinkCloses
  BY <1>1, <1>7 DEF Fold, SinkTakes, SinkCloses, handle
<1> QED BY <1>1, <1>2, <1>3, <1>4, <1>5, <1>6, <1>7 DEF Next

(* The parts of the invariant about a part of the state that stands still. *)
LEMMA MergedStill ==
  ASSUME MergedInv, FlowType, FlowType', UNCHANGED <<merged, sink, output>>,
         \A i \in Adds : pad[i] \in Pads => pad'[i] = pad[i]
  PROVE  MergedInv'
<1>1. CapsGrow'
  BY DEF MergedInv, CapsGrow, IsCaps
<1>2. \A k \in 1..Len(merged) : IsFrame(k) => merged[k].add \in Adds
  BY PacketFacts DEF FlowType, IsFrame
<1>3. FramesBehindCaps'
  BY <1>2 DEF MergedInv, FramesBehindCaps, IsCaps, IsFrame
<1>4. OutputAnnounced'
  BY DEF MergedInv, OutputAnnounced, IsCaps
<1> QED BY <1>1, <1>3, <1>4 DEF MergedInv

(* A step that leaves the sink and the open pads alone shows nothing new.  *)
LEMMA ShownStill ==
  ASSUME ShownAsAnnounced, FlowType, UNCHANGED sink,
         \A i \in Adds : pad[i] \in Pads => pad'[i] = pad[i]
  PROVE  ShownAsAnnounced'
  BY DEF ShownAsAnnounced, FlowType

(* What the channels hold is of some call.                                 *)
LEMMA QueueElements ==
  ASSUME FlowType
  PROVE  /\ \A k \in 1..Len(requests) : requests[k] \in Adds
         /\ \A k \in 1..Len(newArms) : newArms[k] \in Adds
         /\ \A k \in 1..Len(tagged) : tagged[k].add \in Adds /\ tagged[k].nth \in Nat
         /\ configured \subseteq Pads
<1>1. \A k \in 1..Len(requests) : requests[k] \in Adds
  BY DEF FlowType
<1>2. \A k \in 1..Len(newArms) : newArms[k] \in Adds
  BY DEF FlowType
<1>3. \A k \in 1..Len(tagged) : tagged[k] \in TaggedPackets
  BY DEF FlowType
<1> QED BY <1>1, <1>2, <1>3 DEF FlowType, TaggedPackets

(* A call adds at most a request, which has its pad.                       *)
LEMMA CallFlow ==
  ASSUME HandleInv, Flowing, [Next]_vars, NEW c \in Callers,
         Reserve(c) \/ SendRequest(c) \/ RollBack(c) \/ DropHandle(c)
  PROVE  Flowing'
<1>1. UNCHANGED <<arm, newArms, source, tagged, configured, output, merged, sink>>
  BY DEF Reserve, SendRequest, RollBack, DropHandle, muxer
<1>2. \A i \in Adds : pad[i] \in Pads => pad'[i] = pad[i]
  BY PadStable
<1>3. /\ requests' \in Seq(Adds)
      /\ \A k \in 1..Len(requests') : pad'[requests'[k]] \in Pads
  <2>1. CASE requests' = requests
    <3>1. \A k \in 1..Len(requests) : requests[k] \in Adds /\ pad[requests[k]] \in Pads
      BY QueueElements DEF Flowing, QueueInv
    <3> QED BY <2>1, <1>2, <3>1 DEF Flowing, FlowType
  <2>2. CASE requests' # requests
    <3> DEFINE add == <<c, call[c].n>>
    <3>1. /\ Reserving(c)
          /\ requests' = Append(requests, add)
          /\ pad' = [pad EXCEPT ![add] = call[c].pad]
      BY <2>2 DEF SendRequest, Reserve, RollBack, DropHandle, Reserving
    <3>2. add \in Adds /\ call[c].pad \in Pads
      BY <3>1, AddFacts DEF HandleInv, ReservedBelow
    <3>3. pad'[add] \in Pads
      BY <3>1, <3>2 DEF HandleInv, HandleType
    <3>4. /\ Append(requests, add) \in Seq(Adds)
          /\ Len(requests) \in Nat
          /\ Len(Append(requests, add)) = Len(requests) + 1
          /\ \A k \in 1..Len(requests) : Append(requests, add)[k] = requests[k]
          /\ Append(requests, add)[Len(requests) + 1] = add
      BY <3>2, AppendFacts DEF Flowing, FlowType
    <3>5. \A k \in 1..Len(requests) : pad'[requests[k]] \in Pads
      BY <1>2, QueueElements DEF Flowing, QueueInv
    <3> HIDE DEF add
    <3> QED BY <3>1, <3>3, <3>4, <3>5
  <2> QED BY <2>1, <2>2
<1>4. FlowType'
  BY <1>1, <1>3 DEF Flowing, FlowType
<1>5. ArmInv'
  BY <1>1, <1>2 DEF Flowing, FlowType, ArmInv
<1>6. QueueInv'
  BY <1>1, <1>2, <1>3, QueueElements DEF Flowing, QueueInv
<1>7. MergedInv'
  BY <1>1, <1>2, <1>4, MergedStill DEF Flowing
<1>8. ShownAsAnnounced'
  BY <1>1, <1>2, ShownStill DEF Flowing
<1> QED BY <1>4, <1>5, <1>6, <1>7, <1>8 DEF Flowing

(* Taking a request or a packet, and the ends of the inputs.               *)
LEMMA TakeFlow ==
  ASSUME Flowing, Drain \/ Select
  PROVE  Flowing'
<1>1. UNCHANGED <<pad, newArms, source, configured, output, merged, sink>>
  BY DEF Drain, Select, handle
<1>2. CASE TakeRequest
  <2>1. /\ requests # <<>> /\ tagged' = tagged /\ requests' = Tail(requests)
        /\ arm' = [arm EXCEPT !.at = "negotiate", !.add = Head(requests)]
    BY <1>2 DEF TakeRequest
  <2>2. /\ Tail(requests) \in Seq(Adds)
        /\ Len(requests) \in Nat
        /\ Len(requests) >= 1
        /\ Head(requests) \in Adds
        /\ Head(requests) = requests[1]
        /\ \A k \in 1..Len(Tail(requests)) :
              Tail(requests)[k] = requests[k + 1] /\ k + 1 \in 1..Len(requests)
    BY <2>1, TailFacts DEF Flowing, FlowType
  <2>3. FlowType'
    BY <1>1, <2>1, <2>2 DEF Flowing, FlowType
  <2>4. ArmInv'
    <3>1. arm'.at = "negotiate" /\ arm'.add = requests[1]
      BY <2>1, <2>2 DEF Flowing, FlowType
    <3>2. pad[requests[1]] \in Pads
      BY <2>2 DEF Flowing, QueueInv
    <3> QED BY <1>1, <2>2, <3>1, <3>2 DEF ArmInv
  <2>5. QueueInv'
    BY <1>1, <2>1, <2>2 DEF Flowing, QueueInv
  <2> QED BY <1>1, <2>3, <2>4, <2>5, MergedStill, ShownStill DEF Flowing
<1>3. CASE TakePacket
  <2>1. tagged # <<>> /\ requests' = requests /\ tagged' = Tail(tagged)
    BY <1>3 DEF TakePacket
  <2>2. /\ Tail(tagged) \in Seq(TaggedPackets)
        /\ Len(tagged) \in Nat
        /\ Len(tagged) >= 1
        /\ Head(tagged) \in TaggedPackets
        /\ Head(tagged) = tagged[1]
        /\ \A k \in 1..Len(Tail(tagged)) :
              Tail(tagged)[k] = tagged[k + 1] /\ k + 1 \in 1..Len(tagged)
    BY <2>1, TailFacts DEF Flowing, FlowType
  <2>3. pad[Head(tagged).add] \in configured
    BY <2>2 DEF Flowing, QueueInv
  <2>4. Head(tagged).add \in Adds /\ Head(tagged).nth \in Nat
    BY <2>2 DEF TaggedPackets
  <2>5. FlowType' /\ ArmInv'
    <3>1. FlowType'
      BY <1>1, <1>3, <2>1, <2>2, <2>4 DEF Flowing, FlowType, TakePacket
    <3>2. ArmInv'
      BY <1>1, <1>3, <2>3, <2>4 DEF Flowing, FlowType, ArmInv, TakePacket
    <3> QED BY <3>1, <3>2
  <2>6. QueueInv'
    BY <1>1, <2>1, <2>2 DEF Flowing, QueueInv
  <2> QED BY <1>1, <2>5, <2>6, MergedStill, ShownStill DEF Flowing
<1>4. CASE /\ UNCHANGED <<requests, tagged>>
           /\ \E where \in {"select", "drain", "close"}, b \in BOOLEAN :
                 arm' = [arm EXCEPT !.at = where, !.accepting = b]
  <2>1. FlowType'
    BY <1>1, <1>4 DEF Flowing, FlowType
  <2>2. arm'.at \in {"select", "drain", "close"}
    BY <1>4 DEF Flowing, FlowType
  <2>3. ArmInv'
    BY <2>2 DEF ArmInv
  <2>4. QueueInv'
    BY <1>1, <1>4 DEF Flowing, QueueInv
  <2> QED BY <1>1, <2>1, <2>3, <2>4, MergedStill, ShownStill DEF Flowing
<1>5. \/ TakeRequest \/ TakePacket
      \/ /\ UNCHANGED <<requests, tagged>>
         /\ \/ arm' = [arm EXCEPT !.at = "select"]
            \/ arm' = [arm EXCEPT !.at = "drain", !.accepting = FALSE]
            \/ arm' = [arm EXCEPT !.at = "close"]
  BY DEF Drain, Select, StopAccepting, InputsEnded
<1>6. /\ arm = [arm EXCEPT !.accepting = arm.accepting]
      /\ arm.accepting \in BOOLEAN
      /\ \A where \in {"select", "close"} :
            [arm EXCEPT !.at = where] = [arm EXCEPT !.at = where, !.accepting = arm.accepting]
  BY DEF Flowing, FlowType
<1> QED BY <1>2, <1>3, <1>4, <1>5, <1>6

(* The arm lets go of a request, attaches it, or fails.                    *)
LEMMA AttachFlow ==
  ASSUME Flowing, Refuse \/ Attach \/ AttachFails \/ ArmFails
  PROVE  Flowing'
<1>1. UNCHANGED <<pad, source, output, merged, sink>>
  BY DEF Refuse, Attach, AttachFails, ArmFails, handle
<1>2. /\ arm'.at \in {"drain", "failed"}
      /\ arm' \in [at : {"drain", "select", "negotiate", "announce", "emit", "close",
                         "ended", "failed"},
                   add : Adds \cup {NoAdd}, nth : Nat, accepting : BOOLEAN]
  BY DEF Refuse, Attach, AttachFails, ArmFails, ArmReturns, Flowing, FlowType
<1>3. configured \subseteq configured' /\ configured' \subseteq Pads
  BY DEF Refuse, Attach, AttachFails, ArmFails, Flowing, FlowType, ArmInv
<1>4. /\ requests' \in Seq(Adds) /\ tagged' \in Seq(TaggedPackets)
      /\ \A k \in 1..Len(requests') : pad[requests'[k]] \in Pads
      /\ \A k \in 1..Len(tagged') : pad[tagged'[k].add] \in configured'
  <2>1. CASE UNCHANGED <<requests, tagged>>
    BY <1>3, <2>1 DEF Flowing, FlowType, QueueInv
  <2>2. CASE requests' = <<>> /\ tagged' = <<>>
    BY <2>2
  <2> QED BY <2>1, <2>2 DEF Refuse, Attach, AttachFails, ArmFails, ArmReturns
<1>5. /\ newArms' \in Seq(Adds)
      /\ \A k \in 1..Len(newArms') : pad[newArms'[k]] \in configured'
  <2>1. CASE newArms' = newArms
    BY <1>3, <2>1 DEF Flowing, FlowType, QueueInv
  <2>2. CASE newArms' # newArms
    <3>1. /\ arm.at = "negotiate" /\ newArms' = Append(newArms, arm.add)
          /\ configured' = configured \cup {pad[arm.add]}
      BY <2>2 DEF Refuse, Attach, AttachFails, ArmFails
    <3>2. arm.add \in Adds
      BY <3>1 DEF Flowing, ArmInv
    <3>3. /\ Append(newArms, arm.add) \in Seq(Adds)
          /\ Len(newArms) \in Nat
          /\ Len(Append(newArms, arm.add)) = Len(newArms) + 1
          /\ \A k \in 1..Len(newArms) : Append(newArms, arm.add)[k] = newArms[k]
          /\ Append(newArms, arm.add)[Len(newArms) + 1] = arm.add
      BY <3>2, AppendFacts DEF Flowing, FlowType
    <3>4. \A k \in 1..Len(newArms) : pad[newArms[k]] \in configured'
      BY <1>3 DEF Flowing, QueueInv
    <3> QED BY <3>1, <3>3, <3>4
  <2> QED BY <2>1, <2>2
<1>6. FlowType'
  BY <1>1, <1>2, <1>3, <1>4, <1>5 DEF Flowing, FlowType
<1>7. ArmInv'
  BY <1>2 DEF ArmInv
<1>8. QueueInv'
  BY <1>1, <1>3, <1>4, <1>5 DEF Flowing, QueueInv
<1> QED BY <1>1, <1>6, <1>7, <1>8, MergedStill, ShownStill DEF Flowing

(* Caps pushed into the merged link: the output is announced, and it has   *)
(* all the caps before it.                                                 *)
LEMMA AnnounceFlow ==
  ASSUME Flowing, Announce
  PROVE  Flowing'
<1> DEFINE packet == [what |-> "caps", caps |-> configured]
<1>1. /\ UNCHANGED <<pad, requests, newArms, source, tagged, configured, sink>>
      /\ merged' = Append(merged, packet)
      /\ output' = configured
      /\ arm' = [arm EXCEPT !.at = "emit"]
      /\ arm.at = "announce"
  BY DEF Announce, Pushed, handle
<1>2. packet \in MergedPackets
  BY DEF Flowing, FlowType, MergedPackets
<1>3. /\ merged' \in Seq(MergedPackets)
      /\ Len(merged) \in Nat
      /\ Len(merged') = Len(merged) + 1
      /\ \A k \in 1..Len(merged) : merged'[k] = merged[k]
      /\ merged'[Len(merged) + 1] = packet
  BY <1>1, <1>2, AppendFacts DEF Flowing, FlowType
<1>4. packet.what = "caps" /\ packet.caps = configured
  OBVIOUS
<1> HIDE DEF packet
<1>5. FlowType'
  BY <1>1, <1>3 DEF Flowing, FlowType
<1>6. ArmInv'
  BY <1>1 DEF Flowing, FlowType, ArmInv
<1>7. QueueInv'
  BY <1>1 DEF Flowing, QueueInv
<1>8. sink.caps \subseteq output /\ output \subseteq configured
  BY DEF Flowing, FlowType, MergedInv, CapsGrow
<1>9. CapsGrow'
  BY <1>1, <1>3, <1>4, <1>8 DEF Flowing, MergedInv, CapsGrow, IsCaps
<1>10. FramesBehindCaps'
  <2> SUFFICES ASSUME NEW k \in 1..Len(merged'), IsFrame(k)'
               PROVE  /\ pad'[merged'[k].add] \in Pads
                      /\ \/ pad'[merged'[k].add] \in sink'.caps
                         \/ \E j \in 1..Len(merged') :
                               j < k /\ IsCaps(j)' /\ pad'[merged'[k].add] \in merged'[j].caps
    BY DEF FramesBehindCaps
  <2>1. k \in 1..Len(merged) /\ IsFrame(k)
    BY <1>3, <1>4 DEF IsFrame
  <2> QED BY <1>1, <1>3, <2>1 DEF Flowing, MergedInv, FramesBehindCaps, IsCaps, IsFrame
<1>11. OutputAnnounced'
  <2>1. \E j \in 1..Len(merged') : merged'[j].what = "caps" /\ merged'[j].caps = output'
    BY <1>1, <1>3, <1>4
  <2> QED BY <2>1 DEF OutputAnnounced, IsCaps
<1>12. ShownAsAnnounced'
  BY <1>1, ShownStill DEF Flowing
<1> QED BY <1>5, <1>6, <1>7, <1>9, <1>10, <1>11, <1>12 DEF Flowing, MergedInv

(* A frame, or the Eos, pushed into the merged link: the caps of its pad   *)
(* are before it.                                                          *)
LEMMA EmitFlow ==
  ASSUME Flowing, Emit \/ Close
  PROVE  Flowing'
<1> DEFINE packet == IF arm.at = "emit"
                     THEN [what |-> "frame", add |-> arm.add, nth |-> arm.nth]
                     ELSE [what |-> "eos"]
<1>1. /\ UNCHANGED <<pad, newArms, source, configured, output, sink>>
      /\ merged' = Append(merged, packet)
      /\ sink.at = "recv"
      /\ arm.at \in {"emit", "close"}
  BY DEF Emit, Close, Pushed, handle, SinkOver, Flowing, FlowType
<1>2. packet \in MergedPackets
  <2>1. CASE arm.at = "emit"
    BY <2>1 DEF Flowing, FlowType, ArmInv, MergedPackets
  <2>2. CASE arm.at # "emit"
    BY <2>2 DEF MergedPackets
  <2> QED BY <2>1, <2>2
<1>3. /\ merged' \in Seq(MergedPackets)
      /\ Len(merged) \in Nat
      /\ Len(merged') = Len(merged) + 1
      /\ \A k \in 1..Len(merged) : merged'[k] = merged[k]
      /\ merged'[Len(merged) + 1] = packet
  BY <1>1, <1>2, AppendFacts DEF Flowing, FlowType
<1>4. /\ packet.what # "caps"
      /\ packet.what = "frame" => arm.at = "emit" /\ packet.add = arm.add
  OBVIOUS
<1> HIDE DEF packet
<1>5. /\ arm'.at \in {"drain", "ended"}
      /\ arm' \in [at : {"drain", "select", "negotiate", "announce", "emit", "close",
                         "ended", "failed"},
                   add : Adds \cup {NoAdd}, nth : Nat, accepting : BOOLEAN]
  <2>1. CASE Emit
    BY <2>1 DEF Emit, Flowing, FlowType, Eos
  <2>2. CASE Close
    BY <2>2 DEF Close, ArmReturns, Flowing, FlowType
  <2> QED BY <2>1, <2>2
<1>6. \/ UNCHANGED <<requests, tagged>>
      \/ requests' = <<>> /\ tagged' = <<>>
  BY DEF Emit, Close, ArmReturns
<1>7. FlowType'
  <2>1. requests' \in Seq(Adds) /\ tagged' \in Seq(TaggedPackets)
    <3>1. CASE UNCHANGED <<requests, tagged>>
      BY <3>1 DEF Flowing, FlowType
    <3>2. CASE requests' = <<>> /\ tagged' = <<>>
      BY <3>2
    <3> QED BY <1>6, <3>1, <3>2
  <2> QED BY <1>1, <1>3, <1>5, <2>1 DEF Flowing, FlowType
<1>8. ArmInv'
  BY <1>5 DEF ArmInv
<1>9. QueueInv'
  BY <1>1, <1>6 DEF Flowing, QueueInv
<1>10. CapsGrow'
  BY <1>1, <1>3, <1>4 DEF Flowing, MergedInv, CapsGrow, IsCaps
<1>11. FramesBehindCaps'
  <2> SUFFICES ASSUME NEW k \in 1..Len(merged'), IsFrame(k)'
               PROVE  /\ pad[merged'[k].add] \in Pads
                      /\ \/ pad[merged'[k].add] \in sink.caps
                         \/ \E j \in 1..Len(merged') :
                               j < k /\ IsCaps(j)' /\ pad[merged'[k].add] \in merged'[j].caps
    BY <1>1 DEF FramesBehindCaps
  <2>1. CASE k \in 1..Len(merged)
    BY <1>1, <1>3, <2>1 DEF Flowing, MergedInv, FramesBehindCaps, IsCaps, IsFrame
  <2>2. CASE k = Len(merged) + 1
    <3>1. arm.at = "emit" /\ merged'[k].add = arm.add
      BY <1>3, <1>4, <2>2 DEF IsFrame
    <3>2. pad[arm.add] \in output /\ pad[arm.add] \in Pads
      BY <3>1 DEF Flowing, FlowType, ArmInv
    <3>3. \/ pad[arm.add] \in sink.caps
          \/ \E j \in 1..Len(merged) : IsCaps(j) /\ pad[arm.add] \in merged[j].caps
      BY <1>1, <3>2 DEF Flowing, MergedInv, OutputAnnounced
    <3> QED BY <1>3, <2>2, <3>1, <3>2, <3>3 DEF IsCaps
  <2> QED BY <1>3, <2>1, <2>2
<1>12. OutputAnnounced'
  BY <1>1, <1>3 DEF Flowing, MergedInv, OutputAnnounced, IsCaps
<1>13. ShownAsAnnounced'
  BY <1>1, ShownStill DEF Flowing
<1> QED BY <1>7, <1>8, <1>9, <1>10, <1>11, <1>12, <1>13 DEF Flowing, MergedInv

(* The join takes in new arms; a source pushes, or ends.                   *)
LEMMA SourceFlow ==
  ASSUME Flowing, Fold \/ \E i \in Adds : SourcePush(i) \/ SourceFails(i)
  PROVE  Flowing'
<1>1. UNCHANGED <<pad, requests, arm, configured, output, merged, sink>>
  BY DEF Fold, SourcePush, SourceFails, handle, muxer
<1>2. CASE Fold
  <2>1. newArms' = <<>> /\ tagged' = tagged
    BY <1>2 DEF Fold
  <2>2. FlowType'
    <3>1. source' \in [Adds -> [at : {"none", "running", "ended"}, next : Nat]]
      BY <1>2 DEF Flowing, FlowType, Fold
    <3> QED BY <1>1, <2>1, <3>1 DEF Flowing, FlowType
  <2>3. \A i \in Adds : source'[i].at # "none" =>
           source[i].at # "none" \/ \E k \in DOMAIN newArms : newArms[k] = i
    BY <1>2 DEF Fold, Flowing, FlowType
  <2>4. \A k \in DOMAIN newArms : pad[newArms[k]] \in configured
    <3>1. DOMAIN newArms = 1..Len(newArms)
      BY DEF Flowing, FlowType
    <3> QED BY <3>1 DEF Flowing, QueueInv
  <2>5. QueueInv'
    BY <1>1, <2>1, <2>3, <2>4 DEF Flowing, QueueInv
  <2>6. ArmInv'
    BY <1>1 DEF Flowing, ArmInv
  <2> QED BY <1>1, <2>2, <2>5, <2>6, MergedStill, ShownStill DEF Flowing
<1>3. ASSUME NEW i \in Adds, SourcePush(i) \/ SourceFails(i)
      PROVE  Flowing'
  <2>1. /\ newArms' = newArms
        /\ source[i].at # "none"
        /\ source' \in [Adds -> [at : {"none", "running", "ended"}, next : Nat]]
        /\ \A j \in Adds : source'[j].at # "none" => source[j].at # "none"
    <3>1. newArms' = newArms /\ source[i].at = "running"
      BY <1>3 DEF SourcePush, SourceFails
    <3>2. \/ source' = [source EXCEPT ![i] = [source[i] EXCEPT !.at = "ended"]]
          \/ source' = [source EXCEPT ![i] = [source[i] EXCEPT !.next = source[i].next + 1]]
      <4>1. CASE SourceFails(i)
        BY <4>1 DEF SourceFails, Flowing, FlowType
      <4>2. CASE SourcePush(i)
        <5>1. \/ source' = [source EXCEPT ![i].at = "ended"]
              \/ source' = [source EXCEPT ![i].next = source[i].next + 1]
          BY <4>2 DEF SourcePush
        <5> QED BY <5>1 DEF Flowing, FlowType
      <4> QED BY <1>3, <4>1, <4>2
    <3>3. source[i] \in [at : {"none", "running", "ended"}, next : Nat]
      BY DEF Flowing, FlowType
    <3>4. \E r \in [at : {"running", "ended"}, next : Nat] : source' = [source EXCEPT ![i] = r]
      BY <3>1, <3>2, <3>3
    <3> QED BY <3>1, <3>4 DEF Flowing, FlowType
  <2>2. /\ tagged' \in Seq(TaggedPackets)
        /\ \A k \in 1..Len(tagged') : pad[tagged'[k].add] \in configured
    <3>1. CASE tagged' = tagged
      BY <3>1 DEF Flowing, FlowType, QueueInv
    <3>2. CASE tagged' # tagged
      <4> DEFINE packet == [add |-> i, nth |-> IF source[i].next > MaxFrames
                                               THEN Eos ELSE source[i].next]
      <4>1. tagged' = Append(tagged, packet)
        BY <1>3, <3>2 DEF SourcePush, SourceFails
      <4>2. packet \in TaggedPackets /\ packet.add = i
        BY DEF Flowing, FlowType, Eos, TaggedPackets
      <4> HIDE DEF packet
      <4>3. /\ Append(tagged, packet) \in Seq(TaggedPackets)
            /\ Len(tagged) \in Nat
            /\ Len(Append(tagged, packet)) = Len(tagged) + 1
            /\ \A k \in 1..Len(tagged) : Append(tagged, packet)[k] = tagged[k]
            /\ Append(tagged, packet)[Len(tagged) + 1] = packet
        BY <4>2, AppendFacts DEF Flowing, FlowType
      <4>4. pad[i] \in configured
        BY <2>1 DEF Flowing, QueueInv
      <4>5. \A k \in 1..Len(tagged) : pad[tagged[k].add] \in configured
        BY DEF Flowing, QueueInv
      <4> QED BY <4>1, <4>2, <4>3, <4>4, <4>5
    <3> QED BY <3>1, <3>2
  <2>3. FlowType'
    BY <1>1, <2>1, <2>2 DEF Flowing, FlowType
  <2>4. QueueInv'
    BY <1>1, <2>1, <2>2 DEF Flowing, QueueInv
  <2>5. ArmInv'
    BY <1>1 DEF Flowing, ArmInv
  <2> QED BY <1>1, <2>3, <2>4, <2>5, MergedStill, ShownStill DEF Flowing
<1> QED BY <1>2, <1>3

(* The sink takes a packet: caps, and every later caps have them; or a     *)
(* frame, whose caps it took before.                                       *)
LEMMA SinkFlow ==
  ASSUME Flowing, SinkTakes \/ SinkCloses
  PROVE  Flowing'
<1>1. UNCHANGED <<pad, requests, arm, newArms, source, tagged, configured, output>>
  BY DEF SinkTakes, SinkCloses, handle, muxer
<1>2. ArmInv' /\ QueueInv'
  BY <1>1 DEF Flowing, ArmInv, QueueInv
<1>3. CASE merged' = <<>> /\ \E where \in {"eos", "closed", "failed"} :
                                sink' = [sink EXCEPT !.at = where]
  <2>1. /\ sink'.caps = sink.caps /\ sink'.shown = sink.shown /\ sink'.at # "recv"
        /\ sink' \in [at : {"recv", "eos", "closed", "failed"}, caps : SUBSET Pads,
                      shown : SUBSET [add : Adds, nth : Nat, caps : SUBSET Pads]]
    BY <1>3 DEF Flowing, FlowType
  <2>2. FlowType'
    <3>1. merged' \in Seq(MergedPackets)
      BY <1>3
    <3> QED BY <1>1, <2>1, <3>1 DEF Flowing, FlowType
  <2>3. MergedInv'
    BY <1>1, <1>3, <2>1
    DEF Flowing, MergedInv, CapsGrow, FramesBehindCaps, OutputAnnounced
  <2>4. ShownAsAnnounced'
    BY <1>1, <2>1 DEF Flowing, ShownAsAnnounced
  <2> QED BY <1>2, <2>2, <2>3, <2>4 DEF Flowing
<1>4. ASSUME sink.at = "recv", merged # <<>>, merged' = Tail(merged)
      PROVE  /\ merged' \in Seq(MergedPackets)
             /\ Len(merged) \in Nat
             /\ Len(merged) >= 1
             /\ Head(merged) \in MergedPackets
             /\ Head(merged) = merged[1]
             /\ Len(merged') = Len(merged) - 1
             /\ \A k \in 1..Len(merged') : merged'[k] = merged[k + 1] /\ k + 1 \in 1..Len(merged)
  BY <1>4, TailFacts DEF Flowing, FlowType
<1>5. CASE /\ sink.at = "recv" /\ merged # <<>> /\ merged' = Tail(merged)
           /\ Head(merged).what = "caps"
           /\ sink' = [sink EXCEPT !.caps = Head(merged).caps]
  <2>1. IsCaps(1) /\ merged[1].caps \subseteq Pads
    BY <1>4, <1>5, PacketFacts DEF IsCaps
  <2>2. /\ sink'.caps = merged[1].caps /\ sink'.shown = sink.shown /\ sink'.at = "recv"
        /\ sink' \in [at : {"recv", "eos", "closed", "failed"}, caps : SUBSET Pads,
                      shown : SUBSET [add : Adds, nth : Nat, caps : SUBSET Pads]]
    BY <1>4, <1>5, <2>1 DEF Flowing, FlowType
  <2>3. FlowType'
    BY <1>1, <1>4, <1>5, <2>2 DEF Flowing, FlowType
  <2>4. sink.caps \subseteq merged[1].caps /\ merged[1].caps \subseteq output
    BY <1>4, <1>5, <2>1 DEF Flowing, MergedInv, CapsGrow
  <2>5. CapsGrow'
    <3>1. \A k \in 1..Len(merged') : IsCaps(k)' => IsCaps(k + 1)
      BY <1>4, <1>5 DEF IsCaps
    <3>2. \A k \in 1..Len(merged') : IsCaps(k)' =>
             merged[1].caps \subseteq merged'[k].caps /\ merged'[k].caps \subseteq output
      BY <1>4, <1>5, <2>1, <3>1 DEF Flowing, MergedInv, CapsGrow
    <3>3. \A j, k \in 1..Len(merged') :
             (j < k /\ IsCaps(j)' /\ IsCaps(k)') => merged'[j].caps \subseteq merged'[k].caps
      <4> SUFFICES ASSUME NEW j \in 1..Len(merged'), NEW k \in 1..Len(merged'),
                          j < k, IsCaps(j)', IsCaps(k)'
                   PROVE  merged'[j].caps \subseteq merged'[k].caps
        OBVIOUS
      <4>1. /\ j + 1 \in 1..Len(merged) /\ k + 1 \in 1..Len(merged) /\ j + 1 < k + 1
            /\ IsCaps(j + 1) /\ IsCaps(k + 1)
            /\ merged'[j] = merged[j + 1] /\ merged'[k] = merged[k + 1]
        BY <1>4, <1>5, <3>1
      <4> QED BY <4>1 DEF Flowing, MergedInv, CapsGrow
    <3> QED BY <1>1, <2>2, <2>4, <3>2, <3>3 DEF CapsGrow
  <2>6. FramesBehindCaps'
    <3> SUFFICES ASSUME NEW k \in 1..Len(merged'), IsFrame(k)'
                 PROVE  /\ pad[merged'[k].add] \in Pads
                        /\ \/ pad[merged'[k].add] \in merged[1].caps
                           \/ \E j \in 1..Len(merged') :
                                 /\ j < k /\ IsCaps(j)'
                                 /\ pad[merged'[k].add] \in merged'[j].caps
      BY <1>1, <2>2 DEF FramesBehindCaps
    <3>1. k + 1 \in 1..Len(merged) /\ IsFrame(k + 1) /\ merged'[k] = merged[k + 1]
      BY <1>4, <1>5 DEF IsFrame
    <3>2. CASE pad[merged[k + 1].add] \in sink.caps
      BY <2>4, <3>1, <3>2 DEF Flowing, MergedInv, FramesBehindCaps
    <3>3. CASE \E j \in 1..Len(merged) :
                  j < k + 1 /\ IsCaps(j) /\ pad[merged[k + 1].add] \in merged[j].caps
      <4>1. PICK j \in 1..Len(merged) :
               j < k + 1 /\ IsCaps(j) /\ pad[merged[k + 1].add] \in merged[j].caps
        BY <3>3
      <4>2. CASE j = 1
        BY <3>1, <4>1, <4>2 DEF Flowing, MergedInv, FramesBehindCaps
      <4>3. CASE j # 1
        <5>1. /\ j - 1 \in 1..Len(merged') /\ j - 1 < k
              /\ merged'[j - 1] = merged[j]
          BY <1>4, <1>5, <4>1, <4>3
        <5>2. \E l \in 1..Len(merged') :
                 l < k /\ IsCaps(l)' /\ pad[merged'[k].add] \in merged'[l].caps
          BY <3>1, <4>1, <5>1 DEF IsCaps
        <5> QED BY <3>1, <5>2 DEF Flowing, MergedInv, FramesBehindCaps
      <4> QED BY <4>2, <4>3
    <3> QED BY <3>1, <3>2, <3>3 DEF Flowing, MergedInv, FramesBehindCaps
  <2>7. OutputAnnounced'
    <3> SUFFICES ASSUME NEW p \in output
                 PROVE  \/ p \in merged[1].caps
                        \/ \E j \in 1..Len(merged') : IsCaps(j)' /\ p \in merged'[j].caps
      BY <1>1, <2>2 DEF OutputAnnounced
    <3>1. CASE p \in sink.caps
      BY <2>4, <3>1
    <3>2. ASSUME NEW j \in 1..Len(merged), IsCaps(j), p \in merged[j].caps, j # 1
          PROVE  \E l \in 1..Len(merged') : IsCaps(l)' /\ p \in merged'[l].caps
      <4>1. j - 1 \in 1..Len(merged') /\ merged'[j - 1] = merged[j]
        BY <1>4, <1>5, <3>2
      <4> QED BY <3>2, <4>1 DEF IsCaps
    <3> QED BY <1>5, <3>1, <3>2 DEF Flowing, MergedInv, OutputAnnounced
  <2>8. ShownAsAnnounced'
    BY <1>1, <2>2 DEF Flowing, ShownAsAnnounced
  <2> QED BY <1>2, <2>3, <2>5, <2>6, <2>7, <2>8 DEF Flowing, MergedInv
<1>6. CASE /\ sink.at = "recv" /\ merged # <<>> /\ merged' = Tail(merged)
           /\ Head(merged).what = "frame"
           /\ sink' = [sink EXCEPT !.shown = @ \cup
                         {[add |-> Head(merged).add, nth |-> Head(merged).nth, caps |-> sink.caps]}]
  <2> DEFINE frame == [add |-> merged[1].add, nth |-> merged[1].nth, caps |-> sink.caps]
  <2>1. merged[1].what = "frame" /\ merged[1].add \in Adds /\ merged[1].nth \in Nat
    BY <1>4, <1>6, PacketFacts
  <2>2. sink.caps \subseteq Pads
    BY DEF Flowing, FlowType
  <2>3. /\ sink'.caps = sink.caps /\ sink'.shown = sink.shown \cup {frame}
        /\ sink'.at = "recv"
        /\ sink' \in [at : {"recv", "eos", "closed", "failed"}, caps : SUBSET Pads,
                      shown : SUBSET [add : Adds, nth : Nat, caps : SUBSET Pads]]
    <3>1. frame \in [add : Adds, nth : Nat, caps : SUBSET Pads]
      BY <2>1, <2>2
    <3>2. sink' = [sink EXCEPT !.shown = sink.shown \cup {frame}]
      BY <1>4, <1>6
    <3>3. /\ sink.at = "recv"
          /\ sink \in [at : {"recv", "eos", "closed", "failed"}, caps : SUBSET Pads,
                       shown : SUBSET [add : Adds, nth : Nat, caps : SUBSET Pads]]
      BY <1>6 DEF Flowing, FlowType
    <3>4. sink.shown \cup {frame} \subseteq [add : Adds, nth : Nat, caps : SUBSET Pads]
      BY <3>1, <3>3
    <3> HIDE DEF frame
    <3> QED BY <3>2, <3>3, <3>4
  <2>4. FlowType'
    BY <1>1, <1>4, <1>6, <2>3 DEF Flowing, FlowType
  <2>5. pad[merged[1].add] \in sink.caps
    BY <1>4, <1>6, <2>1 DEF Flowing, MergedInv, FramesBehindCaps, IsFrame
  <2>6. ShownAsAnnounced'
    BY <1>1, <2>3, <2>5 DEF Flowing, ShownAsAnnounced
  <2>7. ~IsCaps(1)
    BY <2>1 DEF IsCaps
  <2>8. ASSUME NEW j \in 1..Len(merged), IsCaps(j)
        PROVE  j - 1 \in 1..Len(merged') /\ merged'[j - 1] = merged[j]
    BY <1>4, <1>6, <2>7, <2>8
  <2>9. CapsGrow'
    <3>1. \A k \in 1..Len(merged') : IsCaps(k)' => IsCaps(k + 1)
      BY <1>4, <1>6 DEF IsCaps
    <3>2. \A k \in 1..Len(merged') : IsCaps(k)' =>
             sink.caps \subseteq merged'[k].caps /\ merged'[k].caps \subseteq output
      BY <1>4, <1>6, <3>1 DEF Flowing, MergedInv, CapsGrow
    <3>3. \A j, k \in 1..Len(merged') :
             (j < k /\ IsCaps(j)' /\ IsCaps(k)') => merged'[j].caps \subseteq merged'[k].caps
      <4> SUFFICES ASSUME NEW j \in 1..Len(merged'), NEW k \in 1..Len(merged'),
                          j < k, IsCaps(j)', IsCaps(k)'
                   PROVE  merged'[j].caps \subseteq merged'[k].caps
        OBVIOUS
      <4>1. /\ j + 1 \in 1..Len(merged) /\ k + 1 \in 1..Len(merged) /\ j + 1 < k + 1
            /\ IsCaps(j + 1) /\ IsCaps(k + 1)
            /\ merged'[j] = merged[j + 1] /\ merged'[k] = merged[k + 1]
        BY <1>4, <1>6, <3>1
      <4> QED BY <4>1 DEF Flowing, MergedInv, CapsGrow
    <3> QED BY <1>1, <2>3, <3>2, <3>3 DEF Flowing, MergedInv, CapsGrow
  <2>10. FramesBehindCaps'
    <3> SUFFICES ASSUME NEW k \in 1..Len(merged'), IsFrame(k)'
                 PROVE  /\ pad[merged'[k].add] \in Pads
                        /\ \/ pad[merged'[k].add] \in sink.caps
                           \/ \E j \in 1..Len(merged') :
                                 /\ j < k /\ IsCaps(j)'
                                 /\ pad[merged'[k].add] \in merged'[j].caps
      BY <1>1, <2>3 DEF FramesBehindCaps
    <3>1. k + 1 \in 1..Len(merged) /\ IsFrame(k + 1) /\ merged'[k] = merged[k + 1]
      BY <1>4, <1>6 DEF IsFrame
    <3>2. ASSUME NEW j \in 1..Len(merged), j < k + 1, IsCaps(j),
                 pad[merged[k + 1].add] \in merged[j].caps
          PROVE  \E l \in 1..Len(merged') :
                    l < k /\ IsCaps(l)' /\ pad[merged'[k].add] \in merged'[l].caps
      <4>1. j - 1 \in 1..Len(merged') /\ merged'[j - 1] = merged[j] /\ j - 1 < k
        BY <2>8, <3>2
      <4> QED BY <3>1, <3>2, <4>1 DEF IsCaps
    <3> QED BY <3>1, <3>2 DEF Flowing, MergedInv, FramesBehindCaps
  <2>11. OutputAnnounced'
    <3> SUFFICES ASSUME NEW p \in output
                 PROVE  \/ p \in sink.caps
                        \/ \E j \in 1..Len(merged') : IsCaps(j)' /\ p \in merged'[j].caps
      BY <1>1, <2>3 DEF OutputAnnounced
    <3>1. ASSUME NEW j \in 1..Len(merged), IsCaps(j), p \in merged[j].caps
          PROVE  \E l \in 1..Len(merged') : IsCaps(l)' /\ p \in merged'[l].caps
      <4>1. j - 1 \in 1..Len(merged') /\ merged'[j - 1] = merged[j]
        BY <2>8, <3>1
      <4> QED BY <3>1, <4>1 DEF IsCaps
    <3> QED BY <1>6, <3>1 DEF Flowing, MergedInv, OutputAnnounced
  <2> QED BY <1>2, <2>4, <2>6, <2>9, <2>10, <2>11 DEF Flowing, MergedInv
<1>7. CASE SinkTakes
  BY <1>3, <1>5, <1>6, <1>7 DEF SinkTakes
<1>8. CASE SinkCloses
  BY <1>3, <1>8 DEF SinkCloses
<1> QED BY <1>7, <1>8

-----------------------------------------------------------------------------
(* The inductive invariant of the flow: whoever may push has a configured  *)
(* pad, and the caps on the merged link are in front of what needs them.   *)
THEOREM FlowInductive == Spec => [](HandleInv /\ Flowing)
<1>1. Init => HandleInv
  BY DynamicFaninAssumption
  DEF Init, HandleInv, HandleType, ReservedBelow, Unsent, SentBelow, PadsDistinct, Reserving,
      Adds, Pads
<1>2. Init => Flowing
  <2> SUFFICES ASSUME Init PROVE Flowing
    OBVIOUS
  <2>1. FlowType
    BY DynamicFaninAssumption DEF Init, FlowType, NoAdd, Eos
  <2>2. ArmInv /\ QueueInv /\ MergedInv /\ ShownAsAnnounced
    BY DEF Init, ArmInv, QueueInv, MergedInv, CapsGrow, FramesBehindCaps, OutputAnnounced,
       ShownAsAnnounced
  <2> QED BY <2>1, <2>2 DEF Flowing
<1>3. ASSUME HandleInv, Flowing, [Next]_vars PROVE Flowing'
  <2>1. CASE UNCHANGED vars
    BY <1>3, <2>1
    DEF vars, Flowing, FlowType, ArmInv, QueueInv, MergedInv, CapsGrow, FramesBehindCaps,
        OutputAnnounced, ShownAsAnnounced, IsCaps, IsFrame
  <2>2. ASSUME NEW c \in Callers, Reserve(c) \/ SendRequest(c) \/ RollBack(c) \/ DropHandle(c)
        PROVE  Flowing'
    BY <1>3, <2>2, CallFlow
  <2>3. CASE Muxer
    BY <1>3, <2>3, TakeFlow, AttachFlow, AnnounceFlow, EmitFlow DEF Muxer
  <2>4. CASE Fold \/ \E i \in Adds : SourcePush(i) \/ SourceFails(i)
    BY <1>3, <2>4, SourceFlow
  <2>5. CASE SinkTakes \/ SinkCloses
    BY <1>3, <2>5, SinkFlow
  <2> QED BY <1>3, <2>1, <2>2, <2>3, <2>4, <2>5 DEF Next
<1> QED BY <1>1, <1>2, <1>3, HandleStep, PTL DEF Spec

(* A frame is shown under caps of an output that has its pad, for any      *)
(* number of inputs added at any time.                                     *)
THEOREM FramesAnnounced == Spec => []ShownAsAnnounced
  BY FlowInductive, PTL DEF Flowing

-----------------------------------------------------------------------------
(***************************************************************************)
(* Nothing is left behind the merged Eos.  While neither the arm nor the   *)
(* sink has failed, every frame a source pushed is on the tagged channel,  *)
(* in the arm's hand, on the merged link or shown; the arm closes only     *)
(* with the tagged channel empty and no source left to fill it; and an Eos *)
(* is the last packet of a link whose arm has ended.                       *)
(***************************************************************************)
InTagged(i, n) == \E k \in 1..Len(tagged) : tagged[k].add = i /\ tagged[k].nth = n
InHand(i, n) == arm.at \in {"announce", "emit"} /\ arm.add = i /\ arm.nth = n
InMerged(i, n) ==
    \E k \in 1..Len(merged) : IsFrame(k) /\ merged[k].add = i /\ merged[k].nth = n
Shown(i, n) == \E frame \in sink.shown : frame.add = i /\ frame.nth = n
Placed(i, n) == InTagged(i, n) \/ InHand(i, n) \/ InMerged(i, n) \/ Shown(i, n)

FramesPlaced ==
    arm.at # "failed" /\ sink.at # "failed" =>
        \A i \in Adds : \A n \in 1..(source[i].next - 1) : Placed(i, n)

AcceptedTaken ==
    /\ answer \in [Adds -> {"none", "pending", "accepted", "refused", "shutdown"}]
    /\ \A i \in Adds : answer[i] = "accepted" /\ source[i].at = "none" =>
          \E k \in 1..Len(newArms) : newArms[k] = i

ClosedDry ==
    arm.at \in {"close", "ended"} =>
        /\ newArms = <<>>
        /\ tagged = <<>>
        /\ \A i \in Adds : source[i].at # "running"

EosLast ==
    /\ \A k \in 1..Len(merged) :
          merged[k].what = "eos" => k = Len(merged) /\ arm.at = "ended"
    /\ sink.at = "eos" => arm.at = "ended" /\ merged = <<>>

EosInv == FramesPlaced /\ AcceptedTaken /\ ClosedDry /\ EosLast

(* Frames keep a place when no source makes one and every place is kept or *)
(* handed on.                                                              *)
LEMMA PlacesKept ==
  ASSUME FramesPlaced, FlowType, \A i \in Adds : source'[i].next = source[i].next,
         arm'.at # "failed" => arm.at # "failed",
         sink'.at # "failed" => sink.at # "failed",
         \A i \in Adds, n \in Nat \ {0} :
            arm'.at # "failed" /\ sink'.at # "failed" /\ Placed(i, n) => Placed(i, n)'
  PROVE  FramesPlaced'
<1> SUFFICES ASSUME arm'.at # "failed", sink'.at # "failed", NEW i \in Adds,
                    NEW n \in 1..(source'[i].next - 1)
             PROVE  Placed(i, n)'
  BY DEF FramesPlaced
<1>1. source[i].next \in Nat
  BY DEF FlowType
<1>2. n \in 1..(source[i].next - 1) /\ n \in Nat \ {0}
  BY <1>1
<1> QED BY <1>2 DEF FramesPlaced

(* The answers the end of the arm gives accept nothing.                    *)
LEMMA OrphansUnaccepted ==
  ASSUME AcceptedTaken, UNCHANGED <<newArms, source>>, NEW extra,
         answer' = Orphaned(extra)
  PROVE  AcceptedTaken'
  BY DEF AcceptedTaken, Orphaned

(* Calls touch none of it.                                                 *)
LEMMA CallEos ==
  ASSUME HandleInv, FlowType, EosInv, NEW c \in Callers,
         Reserve(c) \/ SendRequest(c) \/ RollBack(c) \/ DropHandle(c)
  PROVE  EosInv'
<1>1. UNCHANGED <<arm, newArms, source, tagged, merged, sink>>
  BY DEF Reserve, SendRequest, RollBack, DropHandle, muxer
<1>2. ClosedDry' /\ EosLast'
  BY <1>1 DEF EosInv, ClosedDry, EosLast
<1>3. FramesPlaced'
  BY <1>1 DEF EosInv, FramesPlaced, Placed, InTagged, InHand, InMerged, Shown, IsFrame
<1>4. AcceptedTaken'
  <2>1. CASE answer' = answer
    BY <1>1, <2>1 DEF EosInv, AcceptedTaken
  <2>2. CASE SendRequest(c)
    <3>1. <<c, call[c].n>> \in Adds
      BY <2>2, AddFacts DEF SendRequest, Reserving
    <3>2. CASE answer' = [answer EXCEPT ![<<c, call[c].n>>] = "pending"]
      BY <1>1, <3>1, <3>2 DEF EosInv, AcceptedTaken
    <3> QED BY <2>1, <2>2, <3>2 DEF SendRequest
  <2> QED BY <2>1, <2>2 DEF Reserve, RollBack, DropHandle
<1> QED BY <1>2, <1>3, <1>4 DEF EosInv

(* What the arm takes up it has in hand, and it closes on a dry channel.   *)
LEMMA TakeEos ==
  ASSUME FlowType, EosInv, Drain \/ Select
  PROVE  EosInv'
<1>0. UNCHANGED <<answer, newArms, source, merged, sink>>
      /\ arm.at \in {"drain", "select"}
  BY DEF Drain, Select
<1>1. AcceptedTaken'
  BY <1>0 DEF EosInv, AcceptedTaken
<1>2. ASSUME arm'.at \in {"drain", "select", "negotiate", "announce", "emit", "close"}
      PROVE  EosLast'
  BY <1>0, <1>2 DEF EosInv, EosLast
<1>3. ASSUME TakeRequest, arm.at \in {"drain", "select"} PROVE EosInv'
  <2>1. arm'.at = "negotiate" /\ UNCHANGED tagged
    BY <1>3 DEF TakeRequest, FlowType
  <2>2. FramesPlaced'
    BY <1>0, <1>3, <2>1, PlacesKept
    DEF EosInv, Placed, InTagged, InHand, InMerged, Shown, IsFrame
  <2>3. ClosedDry'
    BY <2>1 DEF ClosedDry
  <2> QED BY <1>1, <1>2, <2>1, <2>2, <2>3 DEF EosInv
<1>4. ASSUME NEW to \in {"drain", "select"}, arm'.at = to, UNCHANGED tagged
      PROVE  EosInv'
  <2>1. FramesPlaced'
    BY <1>0, <1>4, PlacesKept
    DEF EosInv, Placed, InTagged, InHand, InMerged, Shown, IsFrame
  <2>2. ClosedDry'
    BY <1>4 DEF ClosedDry
  <2> QED BY <1>1, <1>2, <1>4, <2>1, <2>2 DEF EosInv
<1>5. ASSUME tagged = <<>>, InputsEnded PROVE EosInv'
  <2>1. /\ arm'.at = "close" /\ UNCHANGED tagged /\ newArms = <<>>
        /\ \A i \in Adds : source[i].at # "running"
    BY <1>5 DEF InputsEnded, FlowType
  <2>2. FramesPlaced'
    BY <1>0, <2>1, PlacesKept
    DEF EosInv, Placed, InTagged, InHand, InMerged, Shown, IsFrame
  <2>3. ClosedDry'
    BY <1>0, <1>5, <2>1 DEF ClosedDry
  <2> QED BY <1>1, <1>2, <2>1, <2>2, <2>3 DEF EosInv
<1>6. ASSUME TakePacket PROVE EosInv'
  <2> DEFINE p == Head(tagged)
  <2>1. /\ tagged # <<>> /\ tagged' = Tail(tagged) /\ tagged \in Seq(TaggedPackets)
        /\ p.nth # Eos => /\ arm'.at \in {"announce", "emit"}
                          /\ arm'.add = p.add /\ arm'.nth = p.nth
        /\ p.nth = Eos => arm'.at = "drain"
    BY <1>6 DEF TakePacket, FlowType
  <2>2. /\ Len(tagged) \in Nat /\ p = tagged[1]
        /\ Len(tagged') = Len(tagged) - 1
        /\ \A k \in 1..Len(tagged') : tagged'[k] = tagged[k + 1]
    BY <2>1, TailFacts
  <2>3. ASSUME NEW i \in Adds, NEW n \in Nat \ {0}, Placed(i, n)
        PROVE  Placed(i, n)'
    <3>1. CASE InTagged(i, n)
      <4>1. PICK k \in 1..Len(tagged) : tagged[k].add = i /\ tagged[k].nth = n
        BY <3>1 DEF InTagged
      <4>2. CASE k = 1
        BY <2>1, <2>2, <4>1, <4>2 DEF Placed, InHand, Eos
      <4>3. CASE k # 1
        <5>1. k - 1 \in 1..Len(tagged') /\ tagged'[k - 1] = tagged[k]
          BY <2>2, <4>3
        <5> QED BY <4>1, <5>1 DEF Placed, InTagged
      <4> QED BY <4>2, <4>3
    <3>2. ~InHand(i, n)
      BY <1>0 DEF InHand
    <3> QED BY <1>0, <2>3, <3>1, <3>2 DEF Placed, InMerged, Shown, IsFrame
  <2>4. arm'.at \in {"drain", "announce", "emit"}
    BY <2>1
  <2>5. FramesPlaced'
    BY <1>0, <2>3, <2>4, PlacesKept DEF EosInv
  <2> QED BY <1>1, <1>2, <2>4, <2>5 DEF EosInv, ClosedDry
<1>7. CASE Drain
  <2>1. CASE requests # <<>>
    BY <1>3, <1>7, <2>1 DEF Drain
  <2>2. CASE requests = <<>>
    BY <1>4, <1>7, <2>2 DEF Drain, FlowType
  <2> QED BY <2>1, <2>2
<1>8. CASE Select
  <2>1. CASE StopAccepting
    <3>1. arm'.at = "drain" /\ UNCHANGED tagged
      BY <2>1 DEF StopAccepting, FlowType
    <3> QED BY <1>4, <3>1
  <2> QED BY <1>0, <1>3, <1>5, <1>6, <1>8, <2>1 DEF Select
<1> QED BY <1>7, <1>8

(* The answer to a request, and the arm of an input that is accepted.      *)
LEMMA AttachEos ==
  ASSUME FlowType, ArmInv, EosInv, Refuse \/ Attach \/ AttachFails
  PROVE  EosInv'
<1>0. UNCHANGED <<source, merged, sink>> /\ arm.at = "negotiate" /\ arm.add \in Adds
      /\ answer \in [Adds -> {"none", "pending", "accepted", "refused", "shutdown"}]
  BY DEF Refuse, Attach, AttachFails, ArmInv, EosInv, AcceptedTaken
<1>1. arm'.at \in {"drain", "failed"} /\ (arm'.at = "drain" => UNCHANGED tagged)
  BY DEF Refuse, Attach, AttachFails, ArmReturns, FlowType
<1>2. FramesPlaced'
  BY <1>0, <1>1, PlacesKept
  DEF EosInv, Placed, InTagged, InHand, InMerged, Shown, IsFrame
<1>3. ClosedDry'
  BY <1>1 DEF ClosedDry
<1>4. EosLast'
  BY <1>0 DEF EosInv, EosLast
<1>5. AcceptedTaken'
  <2>1. CASE Refuse
    BY <1>0, <2>1 DEF Refuse, EosInv, AcceptedTaken
  <2>2. CASE AttachFails
    BY <2>2, OrphansUnaccepted DEF AttachFails, ArmReturns, EosInv
  <2>3. CASE Attach
    <3>1. /\ newArms' = Append(newArms, arm.add) /\ newArms \in Seq(Adds)
          /\ answer' = [answer EXCEPT ![arm.add] = "accepted"]
      BY <2>3 DEF Attach, FlowType
    <3>2. /\ Len(newArms) \in Nat /\ Len(newArms') = Len(newArms) + 1
          /\ \A k \in 1..Len(newArms) : newArms'[k] = newArms[k]
          /\ newArms'[Len(newArms) + 1] = arm.add
      BY <1>0, <3>1, AppendFacts
    <3>3. ASSUME NEW i \in Adds, answer'[i] = "accepted", source[i].at = "none"
          PROVE  \E k \in 1..Len(newArms') : newArms'[k] = i
      <4>1. CASE i = arm.add
        BY <3>2, <4>1
      <4>2. CASE i # arm.add
        <5>1. PICK k \in 1..Len(newArms) : newArms[k] = i
          BY <1>0, <3>1, <3>3, <4>2 DEF EosInv, AcceptedTaken
        <5>2. k \in 1..Len(newArms')
          BY <3>2
        <5> QED BY <3>2, <5>1, <5>2
      <4> QED BY <4>1, <4>2
    <3> QED BY <1>0, <3>1, <3>3 DEF AcceptedTaken
  <2> QED BY <2>1, <2>2, <2>3
<1> QED BY <1>2, <1>3, <1>4, <1>5 DEF EosInv

(* A push puts a packet at the end of a link that holds no Eos.            *)
LEMMA PushEos ==
  ASSUME FlowType, ArmInv, EosInv, Announce \/ Emit \/ Close
  PROVE  EosInv'
<1>0. UNCHANGED <<newArms, source, sink>> /\ arm.at \in {"announce", "emit", "close"}
      /\ ~SinkOver
  BY DEF Announce, Emit, Close, Pushed
<1>1. PICK packet : merged' = Append(merged, packet)
  BY DEF Announce, Emit, Close, Pushed
<1> DEFINE N == Len(merged)
<1>2. /\ N \in Nat /\ Len(merged') = N + 1
      /\ \A k \in 1..N : merged'[k] = merged[k]
      /\ merged'[N + 1] = packet
  BY <1>1 DEF FlowType
<1>3. \A k \in 1..N : merged[k].what # "eos"
  BY <1>0 DEF EosInv, EosLast
<1> HIDE DEF N
<1>4. \A i \in Adds, n \in Nat : InMerged(i, n) => InMerged(i, n)'
  <2> SUFFICES ASSUME NEW i \in Adds, NEW n \in Nat, InMerged(i, n)
               PROVE  InMerged(i, n)'
    OBVIOUS
  <2>1. PICK k \in 1..N : merged[k].what = "frame" /\ merged[k].add = i /\ merged[k].nth = n
    BY DEF InMerged, IsFrame, N
  <2>2. k \in 1..Len(merged')
    BY <1>2
  <2> QED BY <1>2, <2>1, <2>2 DEF InMerged, IsFrame
<1>5. ASSUME packet.what = "eos" => arm'.at = "ended" PROVE EosLast'
  <2>1. ASSUME NEW k \in 1..Len(merged'), merged'[k].what = "eos"
        PROVE  k = Len(merged') /\ arm'.at = "ended"
    <3>1. k \notin 1..N
      BY <1>2, <1>3, <2>1
    <3>2. k = N + 1
      BY <1>2, <3>1
    <3> QED BY <1>2, <1>5, <2>1, <3>2
  <2>2. sink'.at # "eos"
    BY <1>0 DEF SinkOver
  <2> QED BY <2>1, <2>2 DEF EosLast
<1>6. CASE Announce
  <2>1. /\ arm.at = "announce" /\ arm'.at = "emit" /\ arm'.add = arm.add /\ arm'.nth = arm.nth
        /\ UNCHANGED <<answer, tagged>>
    BY <1>6 DEF Announce, FlowType
  <2>2. merged' = Append(merged, [what |-> "caps", caps |-> configured])
    BY <1>6 DEF Announce, Pushed
  <2>3. packet.what = "caps"
    <3>1. merged'[N + 1] = [what |-> "caps", caps |-> configured]
      BY <2>2 DEF FlowType, N
    <3> QED BY <1>2, <3>1
  <2>4. FramesPlaced'
    BY <1>0, <1>4, <2>1, PlacesKept DEF EosInv, Placed, InTagged, InHand, Shown
  <2>5. AcceptedTaken' /\ ClosedDry'
    BY <1>0, <2>1 DEF EosInv, AcceptedTaken, ClosedDry
  <2> QED BY <1>5, <2>3, <2>4, <2>5 DEF EosInv
<1>7. CASE Emit
  <2>1. arm.at = "emit" /\ arm'.at = "drain" /\ UNCHANGED <<answer, tagged>>
    BY <1>7 DEF Emit, FlowType
  <2>2. merged' = Append(merged, [what |-> "frame", add |-> arm.add, nth |-> arm.nth])
    BY <1>7 DEF Emit, Pushed
  <2>3. packet.what = "frame" /\ packet.add = arm.add /\ packet.nth = arm.nth
    <3>1. merged'[N + 1] = [what |-> "frame", add |-> arm.add, nth |-> arm.nth]
      BY <2>2 DEF FlowType, N
    <3> QED BY <1>2, <3>1
  <2>4. \A i \in Adds, n \in Nat : InHand(i, n) => InMerged(i, n)'
    <3>1. N + 1 \in 1..Len(merged')
      BY <1>2
    <3> QED BY <1>2, <2>3, <3>1 DEF InHand, InMerged, IsFrame
  <2>5. FramesPlaced'
    BY <1>0, <1>4, <2>1, <2>4, PlacesKept DEF EosInv, Placed, InTagged, Shown
  <2>6. AcceptedTaken' /\ ClosedDry'
    BY <1>0, <2>1 DEF EosInv, AcceptedTaken, ClosedDry
  <2> QED BY <1>5, <2>3, <2>5, <2>6 DEF EosInv
<1>8. CASE Close
  <2>1. /\ arm.at = "close" /\ arm'.at = "ended" /\ tagged' = <<>>
        /\ answer' = Orphaned({})
    BY <1>8 DEF Close, ArmReturns, FlowType
  <2>2. /\ tagged = <<>> /\ newArms = <<>>
        /\ \A i \in Adds : source[i].at # "running"
    BY <2>1 DEF EosInv, ClosedDry
  <2>3. FramesPlaced'
    BY <1>0, <1>4, <2>1, <2>2, PlacesKept DEF EosInv, Placed, InTagged, InHand, Shown
  <2>4. ClosedDry'
    BY <1>0, <2>1, <2>2 DEF ClosedDry
  <2>5. AcceptedTaken'
    BY <1>0, <2>1, OrphansUnaccepted DEF EosInv
  <2> QED BY <1>5, <2>1, <2>3, <2>4, <2>5 DEF EosInv
<1> QED BY <1>6, <1>7, <1>8

(* An arm that fails leaves no Eos behind.                                 *)
LEMMA FailEos ==
  ASSUME FlowType, EosInv, ArmFails
  PROVE  EosInv'
<1>1. /\ arm.at \in {"select", "announce", "emit", "close"} /\ arm'.at = "failed"
      /\ answer' = Orphaned({}) /\ UNCHANGED <<newArms, source, merged, sink>>
  BY DEF ArmFails, ArmReturns, FlowType
<1>2. EosLast'
  BY <1>1 DEF EosInv, EosLast
<1>3. AcceptedTaken'
  BY <1>1, OrphansUnaccepted DEF EosInv
<1> QED BY <1>1, <1>2, <1>3 DEF EosInv, FramesPlaced, ClosedDry

(* A source only runs while the arm may still take what it pushes.         *)
LEMMA SourceEos ==
  ASSUME FlowType, EosInv, Fold \/ \E i \in Adds : SourcePush(i) \/ SourceFails(i)
  PROVE  EosInv'
<1>0. UNCHANGED <<answer, arm, merged, sink>>
  BY DEF Fold, SourcePush, SourceFails, muxer
<1>1. EosLast'
  BY <1>0 DEF EosInv, EosLast
<1>2. source \in [Adds -> [at : {"none", "running", "ended"}, next : Nat]]
  BY DEF FlowType
<1>3. CASE Fold
  <2>1. /\ newArms # <<>> /\ newArms' = <<>> /\ UNCHANGED tagged
        /\ DOMAIN newArms = 1..Len(newArms)
    BY <1>3 DEF Fold, FlowType
  <2>2. \A i \in Adds :
           /\ source'[i].next = source[i].next
           /\ source'[i].at = "none" =>
                 /\ source[i].at = "none"
                 /\ \A k \in 1..Len(newArms) : newArms[k] # i
    BY <1>2, <1>3, <2>1 DEF Fold
  <2>3. FramesPlaced'
    BY <1>0, <2>1, <2>2, PlacesKept
    DEF EosInv, Placed, InTagged, InHand, InMerged, Shown, IsFrame
  <2>4. AcceptedTaken'
    BY <1>0, <2>2 DEF EosInv, AcceptedTaken
  <2>5. ClosedDry'
    BY <1>0, <2>1 DEF EosInv, ClosedDry
  <2> QED BY <1>1, <2>3, <2>4, <2>5 DEF EosInv
<1>4. ASSUME NEW i \in Adds, source[i].at = "running", UNCHANGED <<newArms, tagged>>,
             source' = [source EXCEPT ![i].at = "ended"]
      PROVE  EosInv'
  <2>1. \A j \in Adds : /\ source'[j].next = source[j].next
                        /\ source'[j].at \in {source[j].at, "ended"}
    BY <1>2, <1>4
  <2>2. FramesPlaced'
    BY <1>0, <1>4, <2>1, PlacesKept
    DEF EosInv, Placed, InTagged, InHand, InMerged, Shown, IsFrame
  <2>3. AcceptedTaken' /\ ClosedDry'
    BY <1>0, <1>4, <2>1 DEF EosInv, AcceptedTaken, ClosedDry
  <2> QED BY <1>1, <2>2, <2>3 DEF EosInv
<1>5. ASSUME NEW i \in Adds, source[i].at = "running", UNCHANGED newArms, NEW nth \in Nat,
             tagged' = Append(tagged, [add |-> i, nth |-> nth]),
             \A j \in Adds : source'[j].at \in {source[j].at, "ended"},
             \A j \in Adds : j # i => source'[j].next = source[j].next,
             source'[i].next \in {source[i].next, source[i].next + 1},
             source'[i].next # source[i].next => nth = source[i].next
      PROVE  EosInv'
  <2>1. /\ Len(tagged) \in Nat /\ Len(tagged') = Len(tagged) + 1
        /\ \A k \in 1..Len(tagged) : tagged'[k] = tagged[k]
        /\ tagged'[Len(tagged) + 1].add = i /\ tagged'[Len(tagged) + 1].nth = nth
    BY <1>5 DEF FlowType
  <2>2. \A j \in Adds, n \in Nat : Placed(j, n) => Placed(j, n)'
    <3>1. \A j \in Adds, n \in Nat : InTagged(j, n) => InTagged(j, n)'
      BY <2>1 DEF InTagged
    <3> QED BY <1>0, <3>1 DEF Placed, InHand, InMerged, Shown, IsFrame
  <2>3. InTagged(i, nth)'
    BY <2>1 DEF InTagged
  <2>4. FramesPlaced'
    <3> SUFFICES ASSUME arm.at # "failed", sink.at # "failed", NEW j \in Adds,
                        NEW n \in 1..(source'[j].next - 1)
                 PROVE  Placed(j, n)'
      BY <1>0 DEF FramesPlaced
    <3>1. source[j].next \in Nat
      BY <1>2
    <3>2. CASE n \in 1..(source[j].next - 1)
      BY <2>2, <3>2 DEF EosInv, FramesPlaced
    <3>3. CASE n \notin 1..(source[j].next - 1)
      <4>1. j = i /\ n = nth
        BY <1>5, <3>1, <3>3
      <4> QED BY <2>3, <4>1 DEF Placed
    <3> QED BY <3>2, <3>3
  <2>5. AcceptedTaken' /\ ClosedDry'
    BY <1>0, <1>5 DEF EosInv, AcceptedTaken, ClosedDry
  <2> QED BY <1>1, <2>4, <2>5 DEF EosInv
<1>6. ASSUME NEW i \in Adds, SourcePush(i) PROVE EosInv'
  <2> DEFINE last == source[i].next > MaxFrames
  <2>1. source[i].at = "running" /\ UNCHANGED newArms /\ source[i].next \in Nat
    BY <1>2, <1>6 DEF SourcePush
  <2>2. CASE ArmOver
    <3>1. UNCHANGED tagged /\ source' = [source EXCEPT ![i].at = "ended"]
      BY <1>6, <2>2 DEF SourcePush
    <3> QED BY <1>4, <2>1, <3>1
  <2>3. CASE ~ArmOver
    <3>1. /\ tagged' = Append(tagged, [add |-> i, nth |-> IF last THEN Eos ELSE source[i].next])
          /\ source' = IF last THEN [source EXCEPT ![i].at = "ended"]
                       ELSE [source EXCEPT ![i].next = @ + 1]
      BY <1>6, <2>3 DEF SourcePush
    <3>2. CASE last
      BY <1>2, <1>5, <2>1, <3>1, <3>2 DEF Eos
    <3>3. CASE ~last
      BY <1>2, <1>5, <2>1, <3>1, <3>3
    <3> QED BY <3>2, <3>3
  <2> QED BY <2>2, <2>3
<1>7. ASSUME NEW i \in Adds, SourceFails(i) PROVE EosInv'
  BY <1>4, <1>7 DEF SourceFails
<1> QED BY <1>3, <1>6, <1>7

(* The sink shows what it takes, and takes the Eos last.                   *)
LEMMA SinkEos ==
  ASSUME FlowType, EosInv, SinkTakes \/ SinkCloses
  PROVE  EosInv'
<1>0. UNCHANGED <<answer, arm, newArms, source, tagged>> /\ sink.at = "recv"
  BY DEF SinkTakes, SinkCloses, muxer
<1>1. AcceptedTaken' /\ ClosedDry'
  BY <1>0 DEF EosInv, AcceptedTaken, ClosedDry
<1>2. CASE SinkCloses
  <2>1. sink'.at = "closed" /\ sink'.shown = sink.shown /\ UNCHANGED merged
    BY <1>2 DEF SinkCloses, FlowType
  <2>2. EosLast'
    BY <1>0, <2>1 DEF EosInv, EosLast
  <2>3. FramesPlaced'
    BY <1>0, <2>1, PlacesKept
    DEF EosInv, Placed, InTagged, InHand, InMerged, Shown, IsFrame
  <2> QED BY <1>1, <2>2, <2>3 DEF EosInv
<1>3. CASE SinkTakes
  <2> DEFINE p == Head(merged)
  <2>1. /\ merged # <<>> /\ merged \in Seq(MergedPackets) /\ Len(merged) \in Nat
        /\ Len(merged) >= 1 /\ p = merged[1]
        /\ Len(Tail(merged)) = Len(merged) - 1
        /\ \A k \in 1..Len(Tail(merged)) :
              Tail(merged)[k] = merged[k + 1] /\ k + 1 \in 1..Len(merged)
    BY <1>3, TailFacts DEF SinkTakes, FlowType
  <2>2. CASE sink'.at = "failed" /\ merged' = <<>>
    <3>1. EosLast' /\ FramesPlaced'
      BY <2>2 DEF EosLast, FramesPlaced
    <3> QED BY <1>1, <3>1 DEF EosInv
  <2>3. CASE p.what = "eos" /\ sink'.at = "eos" /\ sink'.shown = sink.shown /\ merged' = <<>>
    <3>1. arm.at = "ended" /\ Len(merged) = 1
      <4>1. 1 \in 1..Len(merged) /\ merged[1].what = "eos"
        BY <2>1, <2>3
      <4> QED BY <4>1 DEF EosInv, EosLast
    <3>2. EosLast'
      BY <1>0, <2>3, <3>1 DEF EosLast
    <3>3. \A i, n : ~InMerged(i, n)
      BY <2>1, <2>3, <3>1 DEF InMerged, IsFrame
    <3>4. FramesPlaced'
      BY <1>0, <2>3, <3>3, PlacesKept DEF EosInv, Placed, InTagged, InHand, Shown
    <3> QED BY <1>1, <3>2, <3>4 DEF EosInv
  <2>4. ASSUME merged' = Tail(merged), sink'.at = sink.at, sink.shown \subseteq sink'.shown,
               p.what = "frame" =>
                  \E frame \in sink'.shown : frame.add = p.add /\ frame.nth = p.nth
        PROVE  EosInv'
    <3>1. ASSUME NEW k \in 1..Len(merged'), merged'[k].what = "eos"
          PROVE  k = Len(merged') /\ arm'.at = "ended"
      <4>1. merged[k + 1].what = "eos" /\ k + 1 \in 1..Len(merged)
        BY <2>1, <2>4, <3>1
      <4>2. k + 1 = Len(merged) /\ arm.at = "ended"
        BY <4>1 DEF EosInv, EosLast
      <4>3. Len(merged') = Len(merged) - 1 /\ k \in Int
        BY <2>1, <2>4
      <4>4. Len(merged) \in Int /\ arm' = arm
        BY <1>0, <2>1
      <4>5. k = Len(merged')
        BY <4>2, <4>3, <4>4
      <4> QED BY <4>2, <4>4, <4>5
    <3>2. EosLast'
      BY <1>0, <2>4, <3>1 DEF EosLast
    <3>3. ASSUME NEW i \in Adds, NEW n \in Nat, InMerged(i, n)
          PROVE  InMerged(i, n)' \/ Shown(i, n)'
      <4>1. PICK k \in 1..Len(merged) :
                   merged[k].what = "frame" /\ merged[k].add = i /\ merged[k].nth = n
        BY <3>3 DEF InMerged, IsFrame
      <4>2. CASE k = 1
        BY <2>1, <2>4, <4>1, <4>2 DEF Shown
      <4>3. CASE k # 1
        <5>1. k - 1 \in 1..Len(merged') /\ merged'[k - 1] = merged[k]
          BY <2>1, <2>4, <4>3
        <5> QED BY <4>1, <5>1 DEF InMerged, IsFrame
      <4> QED BY <4>2, <4>3
    <3>4. \A i \in Adds, n \in Nat : Shown(i, n) => Shown(i, n)'
      BY <2>4 DEF Shown
    <3>5. FramesPlaced'
      BY <1>0, <2>4, <3>3, <3>4, PlacesKept DEF EosInv, Placed, InTagged, InHand
    <3> QED BY <1>1, <3>2, <3>5 DEF EosInv
  <2>5. CASE p.what = "caps" /\ sink' = [sink EXCEPT !.caps = p.caps] /\ merged' = Tail(merged)
    <3>1. sink'.at = sink.at /\ sink'.shown = sink.shown
      BY <2>5 DEF FlowType
    <3> QED BY <2>4, <2>5, <3>1
  <2>6. CASE /\ p.what = "frame" /\ merged' = Tail(merged)
             /\ sink' = [sink EXCEPT !.shown = @ \cup
                           {[add |-> p.add, nth |-> p.nth, caps |-> sink.caps]}]
    <3> DEFINE frame == [add |-> p.add, nth |-> p.nth, caps |-> sink.caps]
    <3>1. sink'.at = sink.at /\ sink'.shown = sink.shown \cup {frame}
      BY <2>6 DEF FlowType
    <3>2. frame \in sink'.shown /\ frame.add = p.add /\ frame.nth = p.nth
      BY <3>1
    <3> HIDE DEF frame
    <3> QED BY <2>4, <2>6, <3>1, <3>2
  <2>7. CASE p.what = "eos" /\ sink' = [sink EXCEPT !.at = "eos"] /\ merged' = <<>>
    <3>1. sink'.at = "eos" /\ sink'.shown = sink.shown
      BY <2>7 DEF FlowType
    <3> QED BY <2>3, <2>7, <3>1
  <2>8. CASE sink' = [sink EXCEPT !.at = "failed"] /\ merged' = <<>>
    <3>1. sink'.at = "failed"
      BY <2>8 DEF FlowType
    <3> QED BY <2>2, <2>8, <3>1
  <2> QED BY <1>3, <2>5, <2>6, <2>7, <2>8 DEF SinkTakes
<1> QED BY <1>2, <1>3

(* Every reachable state of a dynamic fan-in has all it owes in place.     *)
THEOREM EosInductive == Spec => []EosInv
<1>1. Init => EosInv
  <2> SUFFICES ASSUME Init PROVE EosInv
    OBVIOUS
  <2>1. FramesPlaced
    BY DEF Init, FramesPlaced
  <2>2. AcceptedTaken
    BY DEF Init, AcceptedTaken
  <2>3. ClosedDry /\ EosLast
    BY DEF Init, ClosedDry, EosLast
  <2> QED BY <2>1, <2>2, <2>3 DEF EosInv
<1>2. ASSUME HandleInv, Flowing, EosInv, [Next]_vars PROVE EosInv'
  <2>0. FlowType /\ ArmInv
    BY <1>2 DEF Flowing
  <2>1. CASE UNCHANGED vars
    BY <1>2, <2>1
    DEF vars, EosInv, FramesPlaced, AcceptedTaken, ClosedDry, EosLast, Placed, InTagged,
        InHand, InMerged, Shown, IsFrame
  <2>2. ASSUME NEW c \in Callers, Reserve(c) \/ SendRequest(c) \/ RollBack(c) \/ DropHandle(c)
        PROVE  EosInv'
    BY <1>2, <2>0, <2>2, CallEos
  <2>3. CASE Muxer
    BY <1>2, <2>0, <2>3, TakeEos, AttachEos, PushEos, FailEos DEF Muxer
  <2>4. CASE Fold \/ \E i \in Adds : SourcePush(i) \/ SourceFails(i)
    BY <1>2, <2>0, <2>4, SourceEos
  <2>5. CASE SinkTakes \/ SinkCloses
    BY <1>2, <2>0, <2>5, SinkEos
  <2> QED BY <1>2, <2>1, <2>2, <2>3, <2>4, <2>5 DEF Next
<1> QED BY <1>1, <1>2, FlowInductive, PTL DEF Spec

(* When the sink takes the merged Eos every accepted source has ended and  *)
(* all its frames have been shown, for any number of callers, inputs and   *)
(* frames, inputs added, refused or failing at any time.                   *)
THEOREM EosComplete == Spec => []EosStandsForAll
<1>1. FlowType /\ EosInv => EosStandsForAll
  <2> SUFFICES ASSUME FlowType, EosInv, sink.at = "eos", NEW i \in Adds,
                      answer[i] = "accepted"
               PROVE  /\ source[i].at = "ended"
                      /\ \A n \in 1..(source[i].next - 1) : Shown(i, n)
    BY DEF EosStandsForAll, Shown
  <2>1. arm.at = "ended" /\ merged = <<>> /\ tagged = <<>> /\ newArms = <<>>
        /\ source[i].at # "running"
    BY DEF EosInv, EosLast, ClosedDry
  <2>2. source[i].at = "ended"
    BY <2>1 DEF EosInv, AcceptedTaken, FlowType
  <2>3. \A n \in 1..(source[i].next - 1) : Placed(i, n)
    BY <2>1 DEF EosInv, FramesPlaced
  <2>4. \A n : ~InTagged(i, n) /\ ~InHand(i, n) /\ ~InMerged(i, n)
    BY <2>1 DEF InTagged, InHand, InMerged
  <2> QED BY <2>2, <2>3, <2>4 DEF Placed
<1> QED BY <1>1, EosInductive, FlowInductive, PTL DEF Flowing

=============================================================================
