------------------------ MODULE AVFramedQueue_proofs ------------------------
(***************************************************************************)
(* Proofs about the circular frame queue of AVFramedQueue.cpp for a ring   *)
(* of any size and producers and consumers that run for ever: as long as   *)
(* the consumer cannot remove Max - 2 frames between the producer's full   *)
(* check and its flush (Margin), both sides respect the queue.             *)
(***************************************************************************)
EXTENDS AVFramedQueue, SequenceTheorems, TLAPS

(* The indices wrap: the values of the modular expressions of the code.    *)
LEMMA SuccValue ==
  ASSUME NEW i \in Slots
  PROVE  Succ(i) = IF i = Max - 1 THEN 0 ELSE i + 1
BY RingAssumption DEF Slots, Succ

(* One slot back.                                                          *)
LEMMA PredValue ==
  ASSUME NEW i \in Slots
  PROVE  Pred(i) = IF i = 0 THEN Max - 1 ELSE i - 1
BY RingAssumption DEF Slots, Pred

(* Adding moves rear one slot on: one element more, unless the ring was    *)
(* full; front moving on takes one element away, unless it was empty.      *)
LEMMA Moves ==
  ASSUME TypeOK
  PROVE  /\ Succ(rear) \in Slots /\ Succ(front) \in Slots /\ Pred(rear) \in Slots
         /\ getElements \in 0 .. Max - 1
         /\ Full <=> getElements = Max - 1
         /\ Empty <=> getElements = 0
<1>1. Succ(rear) = IF rear = Max - 1 THEN 0 ELSE rear + 1
  BY SuccValue DEF TypeOK
<1>2. Succ(front) = IF front = Max - 1 THEN 0 ELSE front + 1
  BY SuccValue DEF TypeOK
<1>3. Pred(rear) = IF rear = 0 THEN Max - 1 ELSE rear - 1
  BY PredValue DEF TypeOK
<1> QED
  BY <1>1, <1>2, <1>3, RingAssumption DEF TypeOK, Slots, getElements, Full, Empty

(* What is true in every reachable state.  A producer about to flush found *)
(* the ring full and the consumer has removed at most drained frames       *)
(* since; whoever has checked that there is a frame, or room for one,      *)
(* still finds it there, because the other side cannot take it away.       *)
FlushWindow == ws = "flush" => getElements >= Max - 1 - drained
HasFrame == rs \in {"front", "removing"} => ~Empty

IInv == TypeOK /\ FlushWindow /\ NoSilentDrop /\ HasFrame /\ LossAccounted

(* The ring is empty at the start.                                         *)
LEMMA InitIInv == Init => IInv
BY RingAssumption, BoundAssumption
   DEF Init, IInv, TypeOK, Slots, FlushWindow, NoSilentDrop, HasFrame, LossAccounted,
       getElements

(* The producer takes a slot when there is room, in getRear or in force.   *)
LEMMA FillRear ==
  ASSUME IInv, ~Full, fillRear, ws # "adding",
         UNCHANGED <<rear, front, lostBlocs, rs, owed, drained>>
  PROVE  IInv'
<1>1. TypeOK'
  BY DEF IInv, TypeOK, fillRear, Slots
<1> QED
  BY <1>1
     DEF IInv, fillRear, FlushWindow, NoSilentDrop, HasFrame, LossAccounted, getElements,
         Full, Empty

(* Every step of either side keeps the invariant.                          *)
LEMMA NextIInv ==
  ASSUME Margin, IInv, [Next]_vars
  PROVE  IInv'
<1> USE DEF IInv
<1>0. CASE UNCHANGED vars
  BY <1>0
     DEF vars, TypeOK, FlushWindow, NoSilentDrop, HasFrame, LossAccounted, getElements,
         Full, Empty
<1>1. CASE getRear
  <2>1. CASE ~Full /\ fillRear
    BY <1>1, <2>1, FillRear DEF getRear
  <2>2. CASE Full /\ ws' = "force" /\ UNCHANGED <<seqNo, frames>>
    BY <1>1, <2>2
       DEF getRear, TypeOK, FlushWindow, NoSilentDrop, HasFrame, LossAccounted, getElements,
           Empty
  <2> QED BY <1>1, <2>1, <2>2 DEF getRear
<1>2. CASE forceGetRear
  <2>1. CASE ~Full /\ fillRear /\ UNCHANGED drained
    BY <1>2, <2>1, FillRear DEF forceGetRear
  <2>2. CASE Full /\ ws' = "flush" /\ drained' = 0 /\ UNCHANGED <<seqNo, frames>>
    <3>1. getElements = Max - 1
      BY <2>2, Moves
    <3>2. FlushWindow'
      BY <1>2, <2>2, <3>1, RingAssumption DEF forceGetRear, FlushWindow, getElements
    <3> QED
      BY <1>2, <2>2, <3>2, BoundAssumption
         DEF forceGetRear, TypeOK, NoSilentDrop, HasFrame, LossAccounted, getElements, Empty
  <2> QED BY <1>2, <2>1, <2>2 DEF forceGetRear
<1>3. CASE flush
  <2>1. getElements >= 2
    BY <1>3, Moves, RingAssumption, BoundAssumption DEF flush, FlushWindow, Margin, TypeOK
  <2>2. rear' = (IF rear = 0 THEN Max - 1 ELSE rear - 1) /\ front' = front
    BY <1>3, PredValue DEF flush, TypeOK
  <2>3. TypeOK'
    BY <1>3, Moves DEF flush, TypeOK
  <2>4. getElements' = getElements - 1
    BY <2>1, <2>2, RingAssumption DEF getElements, TypeOK, Slots
  <2>5. HasFrame'
    BY <2>1, <2>3, <2>4, <2>2, RingAssumption DEF HasFrame, Empty, getElements, TypeOK, Slots
  <2>6. LossAccounted'
    BY <1>3, <2>4, Moves DEF flush, LossAccounted, TypeOK
  <2> QED
    BY <1>3, <2>3, <2>5, <2>6 DEF flush, FlushWindow, NoSilentDrop
<1>4. CASE addFrame
  <2>1. ~Full /\ ws' = "adding"
    BY <1>4 DEF addFrame, NoSilentDrop
  <2>2. TypeOK'
    BY <1>4, <2>1 DEF addFrame, TypeOK
  <2>3. LossAccounted'
    BY <1>4, <2>1, Moves DEF addFrame, LossAccounted, getElements, TypeOK
  <2> QED
    BY <1>4, <2>1, <2>2, <2>3
       DEF addFrame, FlushWindow, NoSilentDrop, HasFrame, getElements, Full, Empty
<1>5. CASE addFrameDone
  <2>1. ~Full
    BY <1>5 DEF addFrameDone, NoSilentDrop
  <2>2. rear' = (IF rear = Max - 1 THEN 0 ELSE rear + 1) /\ front' = front
    BY <1>5, SuccValue DEF addFrameDone, TypeOK
  <2>3. TypeOK'
    BY <1>5, Moves DEF addFrameDone, TypeOK
  <2>4. getElements' = getElements + 1 /\ ~Empty'
    BY <2>1, <2>2, Moves, RingAssumption DEF getElements, Empty, TypeOK, Slots
  <2>5. LossAccounted'
    BY <1>5, <2>4, Moves DEF addFrameDone, LossAccounted, TypeOK
  <2> QED
    BY <1>5, <2>3, <2>4, <2>5 DEF addFrameDone, FlushWindow, NoSilentDrop, HasFrame
<1>6. CASE notConsumed
  BY <1>6
     DEF notConsumed, TypeOK, FlushWindow, NoSilentDrop, HasFrame, LossAccounted,
         getElements, Full, Empty
<1>7. CASE getFront
  BY <1>7
     DEF getFront, TypeOK, FlushWindow, NoSilentDrop, HasFrame, LossAccounted, getElements,
         Full, Empty
<1>8. CASE forceGetFront
  BY <1>8
     DEF forceGetFront, TypeOK, FlushWindow, NoSilentDrop, HasFrame, LossAccounted,
         getElements, Full, Empty
<1>9. CASE releaseStale
  BY <1>9
     DEF releaseStale, TypeOK, FlushWindow, NoSilentDrop, HasFrame, LossAccounted,
         getElements, Full, Empty
<1>10. CASE removeFrame
  BY <1>10
     DEF removeFrame, TypeOK, FlushWindow, NoSilentDrop, HasFrame, LossAccounted,
         getElements, Full, Empty
<1>11. CASE removeFrameDone
  <2>1. ~Empty
    BY <1>11 DEF removeFrameDone, HasFrame
  <2>2. front' = (IF front = Max - 1 THEN 0 ELSE front + 1) /\ rear' = rear
    BY <1>11, SuccValue DEF removeFrameDone, TypeOK
  <2>3. TypeOK'
    BY <1>11, Moves, BoundAssumption DEF removeFrameDone, TypeOK
  <2>4. getElements' = getElements - 1
    BY <2>1, <2>2, Moves, RingAssumption DEF getElements, Empty, TypeOK, Slots
  <2>5. FlushWindow'
    BY <1>11, <2>4, Moves, RingAssumption, BoundAssumption
       DEF removeFrameDone, FlushWindow, TypeOK
  <2>6. LossAccounted'
    BY <1>11, <2>4, Moves DEF removeFrameDone, LossAccounted, TypeOK
  <2>7. NoSilentDrop'
    <3>1. Full' <=> Succ(rear) = front'
      BY <2>2 DEF Full, Succ
    <3>2. Succ(rear) = IF rear = Max - 1 THEN 0 ELSE rear + 1
      BY SuccValue DEF TypeOK
    <3>3. rear \in Slots /\ front' \in Slots
      BY <2>3 DEF TypeOK
    <3>4. Full' => getElements' = Max - 1
      BY <2>2, <3>1, <3>2, <3>3, RingAssumption DEF getElements, Slots
    <3> QED BY <1>11, <3>4, <2>4, Moves DEF removeFrameDone, NoSilentDrop
  <2> QED
    BY <1>11, <2>3, <2>5, <2>6, <2>7 DEF removeFrameDone, HasFrame
<1> QED
  BY <1>0, <1>1, <1>2, <1>3, <1>4, <1>5, <1>6, <1>7, <1>8, <1>9, <1>10, <1>11
     DEF Next, Producer, Consumer

(* The slot of the consumer's frame: front while it holds a new frame, the *)
(* slot before front while it works on the last one again.                 *)
LEMMA IInvNoTornFrame == IInv => NoTornFrame
<1> SUFFICES ASSUME IInv, ws = "filling", rs # "idle" PROVE rear # HeldSlot
  BY DEF NoTornFrame
<1>1. CASE rs = "stale"
  <2>1. Succ(rear) # front
    BY DEF IInv, NoSilentDrop, Full
  <2>2. Pred(front) = IF front = 0 THEN Max - 1 ELSE front - 1
    BY PredValue DEF IInv, TypeOK
  <2> QED BY <1>1, <2>1, <2>2, SuccValue, RingAssumption DEF HeldSlot, IInv, TypeOK, Slots
<1>2. CASE rs \in {"front", "removing"}
  BY <1>2 DEF HeldSlot, IInv, HasFrame, Empty
<1> QED BY <1>1, <1>2 DEF IInv, TypeOK

(* The invariant holds in every reachable state.                           *)
LEMMA Invariance == ASSUME Margin PROVE Spec => []IInv
<1>1. IInv /\ [Next]_vars => IInv'
  BY NextIInv, Margin
<1> QED
  BY <1>1, InitIInv, PTL DEF Spec

(* The indices stay inside the ring.                                       *)
THEOREM TypeCorrect == ASSUME Margin PROVE Spec => []TypeOK
BY Invariance, Margin, PTL DEF IInv

(* The producer never fills the slot that the consumer reads, whatever the *)
(* number of slots and the interleaving of the two threads.                *)
THEOREM SlotsExclusive == ASSUME Margin PROVE Spec => []NoTornFrame
BY Invariance, Margin, IInvNoTornFrame, PTL

(* A frame that was filled always has room in the ring.                    *)
THEOREM RoomForFrame == ASSUME Margin PROVE Spec => []NoSilentDrop
BY Invariance, Margin, PTL DEF IInv

(* Frames added, removed, queued and lost balance in every state.          *)
THEOREM LossIsExact == ASSUME Margin PROVE Spec => []LossAccounted
BY Invariance, Margin, PTL DEF IInv

-----------------------------------------------------------------------------
(* The refinement of FrameFIFO.                                            *)

(* The slot of the i-th frame of a queue that starts at slot f.            *)
SlotOf(f, i) == (f + (i - 1)) % Max

LEMMA SlotValue ==
  ASSUME NEW f \in Slots, NEW i \in 1 .. Max
  PROVE  /\ SlotOf(f, i) = IF f + (i - 1) < Max THEN f + (i - 1) ELSE f + (i - 1) - Max
         /\ SlotOf(f, i) \in Slots
<1> DEFINE s == f + (i - 1)
<1>1. s \in 0 .. 2 * Max - 2 /\ Max \in Nat \ {0} /\ f \in Int /\ i \in Int
  BY RingAssumption DEF Slots
<1>2. CASE s < Max
  <2>1. s % Max = s
    BY <1>1, <1>2
  <2> QED BY <1>1, <1>2, <2>1 DEF SlotOf, Slots
<1>3. CASE s >= Max
  <2> DEFINE d == s - Max
  <2>1. d \in 0 .. Max - 1 /\ s = Max + d
    BY <1>1, <1>3
  <2> HIDE DEF d, s
  <2>2. (Max + d) % Max = d
    BY <1>1, <2>1
  <2>3. SlotOf(f, i) = d
    BY <2>1, <2>2 DEF SlotOf, s
  <2> USE DEF d, s
  <2> QED BY <1>1, <1>3, <2>1, <2>3 DEF Slots
<1> QED BY <1>1, <1>2, <1>3

(* The queued frames are a sequence, wherever it starts.                   *)
LEMMA QueuedSeq ==
  ASSUME NEW f \in Slots, NEW g \in [Slots -> Nat], NEW n \in 0 .. Max - 1,
         NEW q, q = [i \in 1 .. n |-> g[SlotOf(f, i)]]
  PROVE  /\ q \in Seq(Nat) /\ Len(q) = n
         /\ \A i \in 1 .. n : q[i] = g[SlotOf(f, i)]
<1>1. n \in Nat /\ \A i \in 1 .. n : i \in 1 .. Max
  BY RingAssumption
<1>2. \A i \in 1 .. n : g[SlotOf(f, i)] \in Nat
  BY <1>1, SlotValue
<1>3. q \in [1 .. n -> Nat]
  BY <1>2
<1>4. q \in Seq(Nat)
  BY <1>1, <1>3, SeqDef
<1> QED BY <1>1, <1>3, <1>4, LenProperties

(* The frames of the refinement mapping, by their slots.                   *)
LEMMA QueuedValue == queued = [i \in 1 .. getElements |-> frames[SlotOf(front, i)]]
BY DEF queued, SlotOf

(* rear is the slot behind the queued frames, and that of none of them.    *)
LEMMA RearSlot ==
  ASSUME TypeOK
  PROVE  /\ SlotOf(front, getElements + 1) = rear
         /\ \A i \in 1 .. getElements : SlotOf(front, i) # rear
<1>1. getElements \in 0 .. Max - 1
  BY Moves
<1>2. ASSUME NEW i \in 1 .. getElements + 1
      PROVE  SlotOf(front, i) = IF front + (i - 1) < Max THEN front + (i - 1)
                                ELSE front + (i - 1) - Max
  <2>1. i \in 1 .. Max /\ front \in Slots
    BY <1>1, RingAssumption DEF TypeOK
  <2> QED BY <2>1, SlotValue
<1>3. SlotOf(front, getElements + 1) = rear
  BY <1>1, <1>2, RingAssumption DEF TypeOK, Slots, getElements
<1>4. ASSUME NEW i \in 1 .. getElements PROVE SlotOf(front, i) # rear
  BY <1>1, <1>2, RingAssumption DEF TypeOK, Slots, getElements
<1> QED BY <1>3, <1>4

(* The frames are numbered as they are filled, up to the bound.            *)
Numbered ==
  /\ seqNo <= MaxFrames
  /\ ws \in {"force", "flush"} => seqNo < MaxFrames
  /\ ws \in {"filling", "adding"} => frames[rear] \in 1 .. MaxFrames

(* Filling takes the next number; nothing else writes a frame.             *)
LEMMA NextNumbered ==
  ASSUME IInv, Numbered, [Next]_vars
  PROVE  Numbered'
<1> USE DEF IInv, TypeOK
<1>1. CASE getRear \/ forceGetRear
  BY <1>1, BoundAssumption DEF getRear, forceGetRear, fillRear, Numbered
<1>2. CASE flush
  BY <1>2 DEF flush, Numbered
<1>3. CASE addFrame \/ addFrameDone \/ notConsumed
  BY <1>3 DEF addFrame, addFrameDone, notConsumed, Numbered
<1>4. CASE Consumer \/ UNCHANGED vars
  BY <1>4
     DEF Consumer, getFront, forceGetFront, releaseStale, removeFrame, removeFrameDone,
         vars, Numbered
<1> QED BY <1>1, <1>2, <1>3, <1>4 DEF Next, Producer

(* The slot the producer fills is none of the queued ones.                 *)
LEMMA FillStutters ==
  ASSUME TypeOK, fillRear, UNCHANGED <<rear, front>>
  PROVE  queued' = queued
<1>1. getElements' = getElements /\ getElements \in 0 .. Max - 1
  BY Moves DEF getElements
<1>2. \A i \in 1 .. getElements : frames'[SlotOf(front, i)] = frames[SlotOf(front, i)]
  <2> TAKE i \in 1 .. getElements
  <2>1. SlotOf(front, i) \in Slots /\ SlotOf(front, i) # rear
    BY <1>1, RearSlot, SlotValue, RingAssumption DEF TypeOK
  <2> QED BY <2>1 DEF fillRear, TypeOK
<1>3. queued' = [i \in 1 .. getElements' |-> frames'[SlotOf(front', i)]]
  BY DEF queued, SlotOf
<1> QED BY <1>1, <1>2, <1>3, QueuedValue

(* addFrame puts the frame that was filled behind the queued ones.         *)
LEMMA AddIsPut ==
  ASSUME IInv, IInv', Numbered, addFrameDone
  PROVE  \E f \in 1 .. MaxFrames : FIFO!Put(f)
<1>1. TypeOK /\ TypeOK' /\ frames[rear] \in 1 .. MaxFrames /\ ~Full
  BY DEF IInv, addFrameDone, Numbered, NoSilentDrop
<1>2. rear' = (IF rear = Max - 1 THEN 0 ELSE rear + 1) /\ front' = front /\ frames' = frames
  BY <1>1, SuccValue DEF addFrameDone, TypeOK
<1>3. /\ getElements \in 0 .. Max - 1 /\ getElements + 1 \in 0 .. Max - 1
      /\ getElements' = getElements + 1
  <2>1. getElements \in 0 .. Max - 1 /\ getElements # Max - 1
    BY <1>1, Moves
  <2>2. getElements' = getElements + 1
    BY <1>1, <1>2, <2>1, RingAssumption DEF TypeOK, getElements, Slots
  <2> QED BY <2>1, <2>2, RingAssumption
<1>4. queued' = [i \in 1 .. getElements + 1 |-> frames[SlotOf(front, i)]]
  BY <1>2, <1>3 DEF queued, SlotOf
<1>5. /\ queued \in Seq(Nat) /\ Len(queued) = getElements
      /\ \A i \in 1 .. getElements : queued[i] = frames[SlotOf(front, i)]
  <2>1. front \in Slots /\ frames \in [Slots -> Nat] /\ getElements \in 0 .. Max - 1
    BY <1>1, <1>3, RingAssumption DEF TypeOK
  <2> QED BY <2>1, QueuedValue, QueuedSeq
<1>6. /\ queued' \in Seq(Nat) /\ Len(queued') = getElements + 1
      /\ \A i \in 1 .. getElements + 1 : queued'[i] = frames[SlotOf(front, i)]
  <2>1. front \in Slots /\ frames \in [Slots -> Nat]
    BY <1>1 DEF TypeOK
  <2> QED BY <1>3, <1>4, <2>1, QueuedSeq
<1>7. /\ Append(queued, frames[rear]) \in Seq(Nat)
      /\ Len(Append(queued, frames[rear])) = getElements + 1
      /\ \A i \in 1 .. getElements + 1 :
           Append(queued, frames[rear])[i] = IF i <= getElements THEN queued[i] ELSE frames[rear]
  BY <1>1, <1>3, <1>5
<1>8. \A i \in 1 .. getElements + 1 : queued'[i] = Append(queued, frames[rear])[i]
  <2> TAKE i \in 1 .. getElements + 1
  <2>1. CASE i <= getElements
    <3>1. i \in 1 .. getElements
      BY <1>3, <2>1
    <3> QED BY <1>5, <1>6, <1>7, <2>1, <3>1
  <2>2. CASE ~(i <= getElements)
    <3>1. i = getElements + 1
      BY <1>3, <2>2
    <3> QED BY <1>1, <1>6, <1>7, <2>2, <3>1, RearSlot
  <2> QED BY <2>1, <2>2
<1>9. queued' = Append(queued, frames[rear])
  BY <1>6, <1>7, <1>8, SeqEqual
<1>10. FIFO!Put(frames[rear])
  BY <1>3, <1>5, <1>9, RingAssumption DEF FIFO!Put, addFrameDone
<1> QED BY <1>1, <1>10

(* flush takes the newest frame out and counts it.                         *)
LEMMA FlushIsDrop ==
  ASSUME Margin, IInv, IInv', flush
  PROVE  FIFO!DropNewest
<1>1. TypeOK /\ TypeOK' /\ front' = front /\ frames' = frames
  BY DEF IInv, flush
<1>2. getElements \in 2 .. Max - 1 /\ getElements - 1 \in 0 .. Max - 1
  <2>1. getElements >= Max - 1 - drained /\ drained \in 0 .. Slack
    BY DEF IInv, flush, FlushWindow, TypeOK
  <2> QED BY <1>1, <2>1, Moves, RingAssumption, BoundAssumption DEF Margin
<1>3. rear' = (IF rear = 0 THEN Max - 1 ELSE rear - 1)
  BY <1>1, PredValue DEF flush, TypeOK
<1>4. getElements' = getElements - 1
  BY <1>1, <1>2, <1>3, RingAssumption DEF TypeOK, getElements, Slots
<1>5. queued' = [i \in 1 .. getElements - 1 |-> frames[SlotOf(front, i)]]
  BY <1>1, <1>4 DEF queued, SlotOf
<1>6. /\ queued \in Seq(Nat) /\ Len(queued) = getElements
      /\ \A i \in 1 .. getElements : queued[i] = frames[SlotOf(front, i)]
  <2>1. front \in Slots /\ frames \in [Slots -> Nat] /\ getElements \in 0 .. Max - 1
    BY <1>1, <1>2, RingAssumption DEF TypeOK
  <2> QED BY <2>1, QueuedValue, QueuedSeq
<1>7. /\ queued' \in Seq(Nat) /\ Len(queued') = getElements - 1
      /\ \A i \in 1 .. getElements - 1 : queued'[i] = frames[SlotOf(front, i)]
  <2>1. front \in Slots /\ frames \in [Slots -> Nat]
    BY <1>1 DEF TypeOK
  <2> QED BY <1>2, <1>5, <2>1, QueuedSeq
<1>8. /\ SubSeq(queued, 1, getElements - 1) \in Seq(Nat)
      /\ Len(SubSeq(queued, 1, getElements - 1)) = getElements - 1
      /\ \A i \in 1 .. getElements - 1 : SubSeq(queued, 1, getElements - 1)[i] = queued[i]
  BY <1>2, <1>6
<1>9. \A i \in 1 .. getElements - 1 : queued'[i] = SubSeq(queued, 1, getElements - 1)[i]
  <2> TAKE i \in 1 .. getElements - 1
  <2>1. i \in 1 .. getElements
    BY <1>2
  <2> QED BY <1>6, <1>7, <1>8, <2>1
<1>10. queued' = SubSeq(queued, 1, getElements - 1)
  BY <1>7, <1>8, <1>9, SeqEqual
<1> QED BY <1>2, <1>6, <1>10 DEF FIFO!DropNewest, flush

(* removeFrame takes the oldest frame.                                     *)
LEMMA RemoveIsTake ==
  ASSUME IInv, IInv', removeFrameDone
  PROVE  FIFO!Take
<1>1. TypeOK /\ TypeOK' /\ ~Empty /\ frames' = frames /\ lostBlocs' = lostBlocs
  BY DEF IInv, removeFrameDone, HasFrame
<1>2. front' = (IF front = Max - 1 THEN 0 ELSE front + 1) /\ rear' = rear
  BY <1>1, SuccValue DEF removeFrameDone, TypeOK
<1>3. /\ getElements \in 1 .. Max - 1 /\ getElements - 1 \in 0 .. Max - 1
      /\ getElements' = getElements - 1
  BY <1>1, <1>2, Moves, RingAssumption DEF TypeOK, getElements, Slots
<1>4. queued' = [i \in 1 .. getElements - 1 |-> frames[SlotOf(front', i)]]
  BY <1>1, <1>3 DEF queued, SlotOf
<1>5. /\ queued \in Seq(Nat) /\ Len(queued) = getElements
      /\ \A i \in 1 .. getElements : queued[i] = frames[SlotOf(front, i)]
  <2>1. front \in Slots /\ frames \in [Slots -> Nat] /\ getElements \in 0 .. Max - 1
    BY <1>1, <1>3, RingAssumption DEF TypeOK
  <2> QED BY <2>1, QueuedValue, QueuedSeq
<1>6. /\ queued' \in Seq(Nat) /\ Len(queued') = getElements - 1
      /\ \A i \in 1 .. getElements - 1 : queued'[i] = frames[SlotOf(front', i)]
  <2>1. front' \in Slots /\ frames \in [Slots -> Nat]
    BY <1>1 DEF TypeOK
  <2> QED BY <1>3, <1>4, <2>1, QueuedSeq
<1>7. ASSUME NEW i \in 1 .. getElements - 1 PROVE SlotOf(front', i) = SlotOf(front, i + 1)
  <2>1. i \in 1 .. Max /\ i + 1 \in 1 .. Max /\ front \in Slots /\ front' \in Slots
    BY <1>1, <1>3, RingAssumption DEF TypeOK
  <2>2. SlotOf(front', i) = IF front' + (i - 1) < Max THEN front' + (i - 1)
                            ELSE front' + (i - 1) - Max
    BY <2>1, SlotValue
  <2>3. SlotOf(front, i + 1) = IF front + i < Max THEN front + i ELSE front + i - Max
    <3>1. front + ((i + 1) - 1) = front + i
      BY <2>1 DEF Slots
    <3> QED BY <2>1, <3>1, SlotValue
  <2> QED BY <1>2, <2>1, <2>2, <2>3, RingAssumption DEF Slots
<1>8. /\ queued # <<>> /\ Tail(queued) \in Seq(Nat) /\ Len(Tail(queued)) = getElements - 1
      /\ \A i \in 1 .. getElements - 1 : Tail(queued)[i] = queued[i + 1]
  BY <1>3, <1>5, HeadTailProperties
<1>9. \A i \in 1 .. getElements - 1 : queued'[i] = Tail(queued)[i]
  <2> TAKE i \in 1 .. getElements - 1
  <2>1. queued'[i] = frames[SlotOf(front, i + 1)]
    BY <1>6, <1>7
  <2>2. i + 1 \in 1 .. getElements
    BY <1>3
  <2> QED BY <1>5, <1>8, <2>1, <2>2
<1>10. queued' = Tail(queued)
  BY <1>6, <1>8, <1>9, SeqEqual
<1> QED BY <1>1, <1>8, <1>10 DEF FIFO!Take

(* Each step of the ring is a put, a take, a drop or nothing for its users.*)
LEMMA RingSteps ==
  ASSUME Margin, IInv, Numbered, [Next]_vars
  PROVE  [FIFO!FIFONext]_FIFO!fifoVars
<1> USE DEF FIFO!FIFONext, FIFO!fifoVars
<1>1. IInv'
  BY NextIInv
<1>2. CASE getRear \/ forceGetRear
  <2>1. CASE fillRear
    BY <1>1, <1>2, <2>1, FillStutters DEF getRear, forceGetRear, IInv
  <2>2. CASE UNCHANGED frames
    BY <1>2, <2>2 DEF getRear, forceGetRear, queued, getElements
  <2> QED BY <1>2, <2>1, <2>2 DEF getRear, forceGetRear
<1>3. CASE flush
  BY <1>1, <1>3, FlushIsDrop
<1>4. CASE addFrameDone
  BY <1>1, <1>4, AddIsPut
<1>5. CASE removeFrameDone
  BY <1>1, <1>5, RemoveIsTake
<1>6. CASE UNCHANGED <<rear, front, frames, lostBlocs>>
  BY <1>6 DEF queued, getElements
<1> QED
  BY <1>2, <1>3, <1>4, <1>5, <1>6
     DEF Next, Producer, Consumer, addFrame, notConsumed, getFront, forceGetFront,
         releaseStale, removeFrame, vars

(* The ring of any size is a FIFO of Max - 1 frames that drops its newest  *)
(* frame, and counts it, when the producer needs room.                     *)
THEOREM RingIsFIFO == ASSUME Margin PROVE Spec => RefinesFIFO
<1>1. Init => Numbered
  BY BoundAssumption DEF Init, Numbered
<1>2. Init => FIFO!FIFOInit
  <2> SUFFICES ASSUME Init PROVE FIFO!FIFOInit
    OBVIOUS
  <2>1. queued = <<>>
    BY DEF Init, queued, getElements
  <2> QED BY <2>1 DEF FIFO!FIFOInit, Init
<1>3. IInv /\ Numbered /\ [Next]_vars => Numbered' /\ [FIFO!FIFONext]_FIFO!fifoVars
  BY Margin, NextNumbered, RingSteps
<1>4. Spec => []IInv
  BY Invariance, Margin
<1> QED
  BY <1>1, <1>2, <1>3, <1>4, PTL DEF Spec, RefinesFIFO, FIFO!FIFOSpec
=============================================================================
