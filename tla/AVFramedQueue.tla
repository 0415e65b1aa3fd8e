--------------------------- MODULE AVFramedQueue ---------------------------
(***************************************************************************)
(* The circular frame queue between two filters (AVFramedQueue.cpp), used  *)
(* without a lock by one producer (the Writer of the upstream filter) and  *)
(* one consumer (the Reader, whose own lock serialises the filters that    *)
(* share it).  rear is written by the producer only and front by the       *)
(* consumer only; each action below reads or writes the other side's       *)
(* index once, so every interleaving of the two threads is a behaviour.    *)
(*                                                                         *)
(* A frame object stays in its slot: the producer fills frames[rear]       *)
(* between getRear and addFrame, and the consumer works on frames[front],  *)
(* or on the frame before it when there is nothing new, until removeFrame. *)
(***************************************************************************)
EXTENDS Integers, Sequences

CONSTANTS
  Max,        \* slots of the ring ("max")
  Slack,      \* removals the consumer can finish while the producer is
              \* between finding the ring full and moving rear back
  MaxFrames   \* bound: frames the producer starts to fill

ASSUME RingAssumption == Max \in Nat /\ Max >= 3
ASSUME BoundAssumption == Slack \in Nat /\ MaxFrames \in Nat

VARIABLES
  rear, front,   \* indices of the ring
  lostBlocs,     \* frames discarded by flush
  frames,        \* number of the frame last written in each slot, 0 if none
  ws,            \* producer: where it is in getFrame(true) / addFrame
  rs,            \* consumer: where it is in getFrame / removeFrame
  seqNo,         \* frames the producer started to fill
  owed,          \* history: frames added minus frames removed
  drained        \* removals since the producer found the ring full

vars == <<rear, front, lostBlocs, frames, ws, rs, seqNo, owed, drained>>

Slots == 0 .. Max - 1

Succ(i) == (i + 1) % Max
Pred(i) == (i + (Max - 1)) % Max

(* Mutant of Full: the ring is never found full. *)
FullNever == front = rear + Max

Full == Succ(rear) = front
Empty == rear = front

getElements == IF front > rear THEN Max - front + rear ELSE rear - front

Init ==
  /\ rear = 0 /\ front = 0 /\ lostBlocs = 0
  /\ frames = [i \in Slots |-> 0]
  /\ ws = "idle" /\ rs = "idle"
  /\ seqNo = 0 /\ owed = 0 /\ drained = 0

-----------------------------------------------------------------------------
(* The producer: Writer::getFrame(true), the filter, Writer::addFrame.     *)

(* Mutant of flush: the oldest frame is discarded, by moving front. *)
flushOldest ==
  /\ ws = "flush"
  /\ lostBlocs' = lostBlocs + 1
  /\ front' = Succ(front)
  /\ ws' = "force"
  /\ UNCHANGED <<rear, frames, rs, seqNo, owed, drained>>

(* Mutant of flush: rear stays. *)
flushNothing ==
  /\ ws = "flush"
  /\ ws' = "force"
  /\ UNCHANGED <<rear, front, lostBlocs, frames, rs, seqNo, owed, drained>>

(* Hands frames[rear] out; the filter overwrites it from here on. *)
fillRear ==
  /\ seqNo' = seqNo + 1
  /\ frames' = [frames EXCEPT ![rear] = seqNo + 1]
  /\ ws' = "filling"

(* Mutant of getRear: a full ring is not noticed. *)
getRearUnchecked ==
  /\ ws = "idle" /\ seqNo < MaxFrames
  /\ fillRear
  /\ UNCHANGED <<rear, front, lostBlocs, rs, owed, drained>>

getRear ==
  /\ ws = "idle" /\ seqNo < MaxFrames
  /\ \/ ~Full /\ fillRear
     \/ Full /\ ws' = "force" /\ UNCHANGED <<seqNo, frames>>
  /\ UNCHANGED <<rear, front, lostBlocs, rs, owed, drained>>

(* One turn of the loop of forceGetRear, up to its call of flush. *)
forceGetRear ==
  /\ ws = "force"
  /\ \/ ~Full /\ fillRear /\ UNCHANGED drained
     \/ Full /\ ws' = "flush" /\ drained' = 0 /\ UNCHANGED <<seqNo, frames>>
  /\ UNCHANGED <<rear, front, lostBlocs, rs, owed>>

flush ==
  /\ ws = "flush"
  /\ lostBlocs' = lostBlocs + 1
  /\ rear' = Pred(rear)
  /\ ws' = "force"
  /\ UNCHANGED <<front, frames, rs, seqNo, owed, drained>>

(* addFrame reads front, and only then moves rear. *)
addFrame ==
  /\ ws = "filling"
  /\ ws' = IF Full THEN "idle" ELSE "adding"
  /\ owed' = owed + 1
  /\ UNCHANGED <<rear, front, lostBlocs, frames, rs, seqNo, drained>>

addFrameDone ==
  /\ ws = "adding"
  /\ rear' = Succ(rear)
  /\ ws' = "idle"
  /\ UNCHANGED <<front, lostBlocs, frames, rs, seqNo, owed, drained>>

(* The filter produced nothing: the frame is not marked consumed. *)
notConsumed ==
  /\ ws = "filling"
  /\ ws' = "idle"
  /\ UNCHANGED <<rear, front, lostBlocs, frames, rs, seqNo, owed, drained>>

-----------------------------------------------------------------------------
(* The consumer: Reader::getFrame, the filter, Reader::removeFrame.        *)

getFront ==
  /\ rs = "idle" /\ ~Empty
  /\ rs' = "front"
  /\ UNCHANGED <<rear, front, lostBlocs, frames, ws, seqNo, owed, drained>>

(* Nothing new: the filter works on the last frame it removed. *)
forceGetFront ==
  /\ rs = "idle" /\ Empty
  /\ rs' = "stale"
  /\ UNCHANGED <<rear, front, lostBlocs, frames, ws, seqNo, owed, drained>>

releaseStale ==
  /\ rs = "stale"
  /\ rs' = "idle"
  /\ UNCHANGED <<rear, front, lostBlocs, frames, ws, seqNo, owed, drained>>

(* removeFrame reads rear, and only then moves front. *)
removeFrame ==
  /\ rs = "front"
  /\ rs' = IF Empty THEN "idle" ELSE "removing"
  /\ UNCHANGED <<rear, front, lostBlocs, frames, ws, seqNo, owed, drained>>

removeFrameDone ==
  /\ rs = "removing"
  /\ ws = "flush" => drained < Slack
  /\ front' = Succ(front)
  /\ rs' = "idle"
  /\ owed' = owed - 1
  /\ drained' = IF ws = "flush" THEN drained + 1 ELSE drained
  /\ UNCHANGED <<rear, lostBlocs, frames, ws, seqNo>>

-----------------------------------------------------------------------------
Producer == getRear \/ forceGetRear \/ flush \/ addFrame \/ addFrameDone \/ notConsumed

Consumer == getFront \/ forceGetFront \/ releaseStale \/ removeFrame \/ removeFrameDone

Next == Producer \/ Consumer

Spec == Init /\ [][Next]_vars

(* Worker threads are not stopped: the producer goes on.  Nothing is asked
   of the consumer, whose filter may be slow or disconnected. *)
FairSpec == Spec /\ WF_vars(Producer)
-----------------------------------------------------------------------------
(* How many removals the code can take inside the window between the full  *)
(* check and the flush: the last of them must not reach the newest frame.  *)
Margin == Slack + 2 < Max

TypeOK ==
  /\ rear \in Slots /\ front \in Slots
  /\ lostBlocs \in Nat /\ frames \in [Slots -> Nat]
  /\ ws \in {"idle", "force", "flush", "filling", "adding"}
  /\ rs \in {"idle", "front", "stale", "removing"}
  /\ seqNo \in Nat
  /\ owed \in Int /\ drained \in 0 .. Slack

HeldSlot == IF rs = "stale" THEN Pred(front) ELSE front

(* The producer never writes the frame the consumer is working on, be it   *)
(* the one at front or the last one handed out again by forceGetFront.     *)
NoTornFrame == ws = "filling" /\ rs # "idle" => rear # HeldSlot

(* A frame that the filter filled has room: the silent early return of     *)
(* addFrame on a full ring, which would lose it uncounted, is never taken. *)
NoSilentDrop == ws \in {"filling", "adding"} => ~Full

(* Statistics are exact: every frame handed to addFrame is removed, still  *)
(* queued, being queued or counted in lostBlocs.                           *)
LossAccounted ==
  owed = getElements + lostBlocs + (IF ws = "adding" THEN 1 ELSE 0)

(* forceGetRear terminates even when the consumer never removes a frame.   *)
DemandServed == ws \in {"force", "flush"} ~> ws = "filling"

(* The ring implements the FIFO that its users rely on; a history of steps *)
(* of the ring maps to puts, takes and drops of the newest frame.          *)
queued == [i \in 1 .. getElements |-> frames[(front + (i - 1)) % Max]]

FIFO == INSTANCE FrameFIFO
          WITH Capacity <- Max - 1, Frames <- 1 .. MaxFrames,
               queue <- queued, lost <- lostBlocs

RefinesFIFO == FIFO!FIFOSpec
=============================================================================
