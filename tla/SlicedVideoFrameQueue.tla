----------------------- MODULE SlicedVideoFrameQueue -----------------------
(***************************************************************************)
(* The queue after an encoder (SlicedVideoFrameQueue.cpp).  The encoder    *)
(* fills one frame, of several NAL units, that never is in the ring;       *)
(* addFrame then copies the units one by one into the slots of the ring of *)
(* AVFramedQueue, and makes room for each by taking back the newest one.   *)
(*                                                                         *)
(* A picture starts with an access unit delimiter, its unit 0, when the    *)
(* encoder writes them; its slices are the units from 1 on.  That the      *)
(* consumer may empty the ring between the check for room and the flush is *)
(* the subject of AVFramedQueue, and one step here.                        *)
(***************************************************************************)
EXTENDS Integers, Sequences

CONSTANTS
  Size,         \* slots of the ring
  Slices,       \* numbers of slices a picture may have
  MaxPictures   \* bound: pictures

VARIABLES
  delimited,    \* the encoder writes delimiters; else a frame is one unit
  rear, front,
  slots,        \* the NAL unit in each slot
  inputFrame,   \* units of the SlicedVideoFrame that are still to be pushed
  ws,           \* producer: "idle", "push" at innerGetRear, "filled"
  rs,           \* consumer: "idle" or the step of the filter on frames[front]
  made,         \* history: the units of each picture
  dropped       \* history: the units taken back

queueVars == <<delimited, rear, front, slots, inputFrame, ws, made, dropped>>

NoUnit == [pic |-> 0, nal |-> 0]
Pictures == 1 .. MaxPictures

Succ(i) == (i + 1) % Size
Pred(i) == (i + (Size - 1)) % Size
Full == Succ(rear) = front
Empty == rear = front

QueueInit ==
  /\ delimited \in BOOLEAN
  /\ rear = 0 /\ front = 0 /\ slots = [i \in 0 .. Size - 1 |-> NoUnit]
  /\ inputFrame = <<>> /\ ws = "idle" /\ rs = "idle"
  /\ made = <<>> /\ dropped = {}
-----------------------------------------------------------------------------
(* The encoder fills the frame; getRear and forceGetRear both give it.     *)
encode ==
  /\ ws = "idle" /\ Len(made) < MaxPictures
  /\ \E n \in Slices :
       LET from == IF delimited THEN 0 ELSE 1
           to == IF delimited THEN n ELSE 1
           pic == Len(made) + 1
       IN /\ inputFrame' = [i \in 1 .. to - from + 1 |-> [pic |-> pic, nal |-> from + i - 1]]
          /\ made' = Append(made, {inputFrame'[i] : i \in DOMAIN inputFrame'})
  /\ ws' = "push"
  /\ UNCHANGED <<delimited, rear, front, slots, rs, dropped>>

makeRoom == rear' = Pred(rear) /\ dropped' = dropped \cup {slots[Pred(rear)]} /\ UNCHANGED front

innerForceGetRear ==
  /\ ws = "push" /\ Full
  /\ makeRoom
  /\ UNCHANGED <<delimited, slots, inputFrame, ws, rs, made>>

fillRear ==
  /\ ws = "push" /\ ~Full
  /\ slots' = [slots EXCEPT ![rear] = Head(inputFrame)]
  /\ ws' = "filled"
  /\ UNCHANGED <<delimited, rear, front, inputFrame, rs, made, dropped>>

innerAddFrame ==
  /\ ws = "filled"
  /\ rear' = Succ(rear)
  /\ inputFrame' = Tail(inputFrame)
  /\ ws' = IF Len(inputFrame) > 1 THEN "push" ELSE "idle"
  /\ UNCHANGED <<delimited, front, slots, rs, made, dropped>>

pushBackSliceGroup == encode \/ innerForceGetRear \/ fillRear \/ innerAddFrame
-----------------------------------------------------------------------------
(* The consumer's filter takes the frame at front, and removes it when it  *)
(* is done with it.                                                        *)
getFront ==
  /\ rs = "idle" /\ ~Empty
  /\ rs' = "got"
  /\ UNCHANGED queueVars

removeFrame ==
  /\ rs = "done"
  /\ rs' = "idle"
  /\ front' = Succ(front)
  /\ UNCHANGED <<delimited, rear, slots, inputFrame, ws, made, dropped>>
=============================================================================
