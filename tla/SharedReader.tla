---------------------------- MODULE SharedReader ----------------------------
(***************************************************************************)
(* A Reader that several filters share (IOInterface.cpp), with the steps   *)
(* of the filters that use it (Filter.cpp) and of the control thread that  *)
(* shares and disconnects it.  The lock of the reader makes each of its    *)
(* operations one step.  The mutex of a filter is free while the filter    *)
(* processes a frame, so the control thread may disconnect it just then.   *)
(*                                                                         *)
(* The queue is the FIFO of FrameFIFO: a frame that does not fit replaces  *)
(* the newest one.  A filter that finds no new frame does nothing.         *)
(***************************************************************************)
EXTENDS Integers, Sequences

CONSTANTS
  Filters,    \* that may use the reader
  None,
  Capacity,   \* of the queue
  MaxFrames,  \* bound: frames the producer adds
  MaxShares,  \* bound: times the reader is shared
  MaxLeaves,  \* bound: times a filter is disconnected
  Reattach    \* whether the reader is ever given back to a filter that still
              \* works on a frame it got before it was disconnected

ReaderAssumption ==
  /\ None \notin Filters /\ Reattach \in BOOLEAN /\ MaxLeaves \in Nat
  /\ Capacity \in Nat /\ Capacity >= 2 /\ MaxFrames \in Nat /\ MaxShares \in Nat

VARIABLES
  queue,      \* frames, by number
  seqNo,      \* frames added so far
  frame,      \* frame being read, 0 if NULL
  ready,      \* the frame is yet to be announced to the filters
  filters,    \* filters registered in the reader
  first,      \* filters that have not got the frame
  second,     \* filters that have not removed the frame
  published,  \* filters that have the reader among theirs
  sharing,    \* filter that is published but not registered yet
  shares, leaves,
  pc,         \* of each filter: idle, at work on a frame, or handed NULL
  held,       \* frame a filter works on
  owed,       \* history: filters that were registered when the frame was announced
  seen        \* history: newest frame each filter was given

vars == <<queue, seqNo, frame, ready, filters, first, second, published, sharing,
          shares, leaves, pc, held, owed, seen>>

flagVars == <<frame, ready, first, second>>
controlVars == <<filters, published, sharing, shares, leaves>>

Init ==
  /\ queue = <<>> /\ seqNo = 0 /\ frame = 0 /\ ready = TRUE
  /\ \E f \in Filters : filters = {f} /\ published = {f}
  /\ first = {} /\ second = {}
  /\ sharing = None /\ shares = 0 /\ leaves = 0
  /\ pc = [f \in Filters |-> "idle"] /\ held = [f \in Filters |-> 0]
  /\ owed = {} /\ seen = [f \in Filters |-> 0]
-----------------------------------------------------------------------------
addFrame ==
  /\ seqNo < MaxFrames
  /\ seqNo' = seqNo + 1
  /\ queue' = IF Len(queue) < Capacity
                THEN Append(queue, seqNo + 1)
                ELSE [queue EXCEPT ![Capacity] = seqNo + 1]
  /\ UNCHANGED <<controlVars, flagVars, pc, held, owed, seen>>

(* Mutant of front: the frame being read is not remembered.                *)
frontAnew == IF queue # <<>> THEN queue[Len(queue)] ELSE frame

(* The frame that getFrame works on: the current one, or the next one.     *)
front == IF frame # 0 THEN frame ELSE Head(queue)

(* Mutant of announced: each call announces the frame again.               *)
announcedAgain(S) == S \cup filters

(* The first call since the frame was taken announces it to all filters.   *)
announced(S) == IF ready THEN filters ELSE S

getFrame(f) ==
  /\ pc[f] = "idle" /\ f \in published /\ f \in filters
  /\ frame # 0 \/ queue # <<>>
  /\ frame' = front
  /\ ready' = FALSE
  /\ first' = announced(first) \ {f} /\ second' = announced(second)
  /\ owed' = announced(owed)
  /\ IF f \in announced(first)
       THEN /\ pc' = [pc EXCEPT ![f] = "busy"]
            /\ held' = [held EXCEPT ![f] = front]
            /\ seen' = [seen EXCEPT ![f] = front]
       ELSE UNCHANGED <<pc, held, seen>>
  /\ UNCHANGED <<controlVars, queue, seqNo>>

(* A filter that is not registered, and getFrame returns NULL.             *)
getNull(f) ==
  /\ pc[f] = "idle" /\ f \in published /\ f \notin filters
  /\ pc' = [pc EXCEPT ![f] = "null"]
  /\ UNCHANGED <<controlVars, flagVars, queue, seqNo, held, owed, seen>>

retry(f) ==
  /\ pc[f] = "null"
  /\ pc' = [pc EXCEPT ![f] = "idle"]
  /\ UNCHANGED <<controlVars, flagVars, queue, seqNo, held, owed, seen>>

(* Mutant of allRead: nobody else is asked.                                *)
nobodyElse(S) == TRUE

(* No registered filter has still to get the frame, or to remove it (S).   *)
allRead(S) == filters \cap (first \cup S) = {}

(* The filter is done with the frame.  If it has lost the reader meanwhile *)
(* it does not call the reader.                                            *)
removeFrame(f) ==
  /\ pc[f] = "busy"
  /\ pc' = [pc EXCEPT ![f] = "idle"] /\ held' = [held EXCEPT ![f] = 0]
  /\ IF f \in published
       THEN /\ second' = second \ {f}
            /\ IF allRead(second \ {f})
                 THEN /\ frame' = 0 /\ ready' = TRUE
                      /\ queue' = IF queue = <<>> THEN queue ELSE Tail(queue)
                 ELSE UNCHANGED <<frame, ready, queue>>
       ELSE UNCHANGED <<frame, ready, second, queue>>
  /\ UNCHANGED <<controlVars, seqNo, first, owed, seen>>
-----------------------------------------------------------------------------
(* The control thread.  BaseFilter::shareReader gives the reader to the    *)
(* filter before it registers the filter in the reader, without the mutex  *)
(* of that filter.                                                         *)
shareReader(f) ==
  /\ sharing = None /\ shares < MaxShares
  /\ filters # {} /\ f \notin published
  /\ pc[f] = "busy" => Reattach
  /\ published' = published \cup {f} /\ sharing' = f /\ shares' = shares + 1
  /\ UNCHANGED <<flagVars, queue, seqNo, filters, leaves, pc, held, owed, seen>>

addReader(f) ==
  /\ sharing = f
  /\ filters' = filters \cup {f} /\ sharing' = None
  /\ first' = first \ {f} /\ second' = second \ {f}
  /\ owed' = owed \ {f}
  /\ UNCHANGED <<frame, ready, queue, seqNo, published, shares, leaves, pc, held, seen>>

(* The flags of the filter go, and nobody looks whether the others are all *)
(* done with the frame.                                                    *)
disconnect(f) ==
  /\ sharing = None /\ f \in published
  /\ leaves < MaxLeaves /\ leaves' = leaves + 1
  /\ filters' = filters \ {f} /\ published' = published \ {f}
  /\ first' = first \ {f} /\ second' = second \ {f}
  /\ owed' = owed \ {f}
  /\ UNCHANGED <<frame, ready, queue, seqNo, sharing, shares, pc, held, seen>>
-----------------------------------------------------------------------------
Filter(f) == getFrame(f) \/ getNull(f) \/ retry(f) \/ removeFrame(f)

Control == \E f \in Filters : shareReader(f) \/ addReader(f) \/ disconnect(f)

Next == addFrame \/ Control \/ \E f \in Filters : Filter(f)

Spec == Init /\ [][Next]_vars

(* Every filter is run again and again, and shareReader ends.              *)
FairSpec ==
  /\ Spec
  /\ \A f \in Filters : WF_vars(Filter(f)) /\ WF_vars(addReader(f))
-----------------------------------------------------------------------------
TypeOK ==
  /\ queue \in Seq(1 .. MaxFrames) /\ Len(queue) <= Capacity
  /\ seqNo \in 0 .. MaxFrames /\ frame \in 0 .. MaxFrames /\ ready \in BOOLEAN
  /\ filters \subseteq Filters /\ published \subseteq Filters
  /\ first \subseteq filters /\ second \subseteq filters /\ owed \subseteq filters
  /\ sharing \in Filters \cup {None} /\ shares \in 0 .. MaxShares
  /\ leaves \in 0 .. MaxLeaves
  /\ pc \in [Filters -> {"idle", "busy", "null"}]
  /\ held \in [Filters -> 0 .. MaxFrames] /\ seen \in [Filters -> 0 .. MaxFrames]

(* getFrame, removeFrame: the frame a filter works on stays at the front   *)
(* of the queue, where the producer does not write, until that filter is   *)
(* done with it, unless the filter was disconnected in between.            *)
HeldStays ==
  TypeOK /\ \A f \in owed : pc[f] = "busy" => frame = held[f] /\ queue # <<>> /\ Head(queue) = frame

(* removeFrame, getFrame: a frame leaves the queue only when each filter   *)
(* that was registered when it was announced, and still is, has been given *)
(* it; and each filter is given each frame once, in order, also one that   *)
(* comes and goes.                                                         *)
AllServed ==
  [][/\ Len(queue') < Len(queue) => \A f \in owed : seen[f] = Head(queue)
     /\ \A f \in Filters : pc[f] = "idle" /\ pc'[f] = "busy" => seen'[f] > seen[f]]_vars

(* The frame being read is replaced in the end: the filters that are left  *)
(* go on, whoever disconnects.                                             *)
FrameMovesOn == \A n \in 1 .. MaxFrames : frame = n ~> frame # n \/ filters = {}

(* The same as long as no filter is disconnected.                          *)
FrameMovesOnWithAll == frame # 0 ~> frame = 0 \/ leaves > 0
=============================================================================
