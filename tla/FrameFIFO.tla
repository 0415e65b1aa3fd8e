----------------------------- MODULE FrameFIFO -----------------------------
(***************************************************************************)
(* What a FrameQueue promises to the Writer and the Reader around it: a    *)
(* bounded FIFO of frames that never blocks the producer.  When there is   *)
(* no room the newest frame is discarded and counted as lost, so that the  *)
(* oldest one, which the consumer may be using, is never touched.          *)
(***************************************************************************)
EXTENDS Integers, Sequences

CONSTANTS
  Capacity,   \* frames the queue can hold
  Frames      \* the frames, numbered in the order they are produced

VARIABLES
  queue,      \* the frames available to the consumer, oldest first
  lost        \* frames discarded for lack of room

fifoVars == <<queue, lost>>

FIFOInit == queue = <<>> /\ lost = 0

Put(f) ==
  /\ Len(queue) < Capacity
  /\ queue' = Append(queue, f)
  /\ UNCHANGED lost

DropNewest ==
  /\ Len(queue) > 1
  /\ queue' = SubSeq(queue, 1, Len(queue) - 1)
  /\ lost' = lost + 1

Take ==
  /\ queue # <<>>
  /\ queue' = Tail(queue)
  /\ UNCHANGED lost

FIFONext == (\E f \in Frames : Put(f)) \/ DropNewest \/ Take

FIFOSpec == FIFOInit /\ [][FIFONext]_fifoVars
=============================================================================
