---------------------------- MODULE Filter_proofs ----------------------------
(***************************************************************************)
(* Proofs about filters and what connects them (Filter.cpp, Reader and     *)
(* Writer of IOInterface.cpp).                                             *)
(*                                                                         *)
(* A shared reader, for any number of filters, any length of its queue and *)
(* any number of frames, as long as the reader is not given back to a      *)
(* filter that still works on a frame from before (Reattach): nothing a    *)
(* filter works on is taken away, and each filter is given each frame once *)
(* and in order.                                                           *)
(*                                                                         *)
(* A connection, for any number of attempts to connect: the two filters    *)
(* and the queue between them agree at every step of the two workers and   *)
(* of the control thread.  The filter with the reader is not run while it  *)
(* is being connected (RunsEarly), and no filter is disconnected while it  *)
(* works on a frame (LeaveBusy).                                           *)
(*                                                                         *)
(* The frames that a filter takes from its readers, for any number of      *)
(* them, any times of the frames, any size of the queues and any margin:   *)
(* synchronised readers stay within the margin, and a filter with a frame  *)
(* rate and one reader neither passes a frame before its time nor drops    *)
(* one that is not late.                                                   *)
(***************************************************************************)
EXTENDS SharedReader, Connection, FilterSync, FiniteSetTheorems, SequenceTheorems,
        WellFoundedInduction, TLAPS

-----------------------------------------------------------------------------
(* The shared reader.                                                      *)

Assumption == ReaderAssumption /\ ~Reattach

(* A frame that is not NULL is the first of the queue and announced.       *)
FrameIsFront ==
  /\ ready <=> frame = 0
  /\ frame # 0 => queue # <<>> /\ Head(queue) = frame

(* A filter has the reader in its map before it is registered there, and   *)
(* does nothing in between.                                                *)
Registered ==
  /\ filters = published \ {sharing}
  /\ sharing # None => sharing \in published /\ pc[sharing] # "busy"

(* The flags of the filters: who has not got the frame has not removed it, *)
(* and who works on it got it and has not removed it.                      *)
FlagsOrdered ==
  /\ first \subseteq second
  /\ \A f \in filters : pc[f] = "busy" => f \in second \ first /\ ~ready

OwedHeld == \A f \in owed : pc[f] = "busy" => held[f] = frame

(* Frames are queued in order, and none was given before those ahead of it. *)
QueueInOrder ==
  /\ \A i \in 1 .. Len(queue) : queue[i] <= seqNo
  /\ \A i, j \in 1 .. Len(queue) : i < j => queue[i] < queue[j]

SeenInOrder ==
  \A f \in Filters :
    /\ seen[f] <= seqNo
    /\ queue # <<>> => seen[f] <= Head(queue)
    /\ queue # <<>> /\ (ready \/ f \in first) => seen[f] < Head(queue)

OwedSeen == frame # 0 => \A f \in owed \ first : seen[f] = frame

IInv ==
  TypeOK /\ FrameIsFront /\ Registered /\ FlagsOrdered /\ OwedHeld /\ QueueInOrder
  /\ SeenInOrder /\ OwedSeen
-----------------------------------------------------------------------------
(* The queue as a function, and its first frame.                           *)
LEMMA QueueFacts ==
  ASSUME TypeOK
  PROVE  /\ queue \in Seq(1 .. MaxFrames) /\ Len(queue) \in Nat
         /\ \A i \in 1 .. Len(queue) : queue[i] \in 1 .. MaxFrames
         /\ queue # <<>> => Len(queue) \in Nat \ {0} /\ Head(queue) = queue[1]
<1>1. queue \in Seq(1 .. MaxFrames)
  BY DEF TypeOK
<1>2. Len(queue) \in Nat /\ \A i \in 1 .. Len(queue) : queue[i] \in 1 .. MaxFrames
  BY <1>1, LenProperties, ElementOfSeq
<1>3. queue # <<>> => Len(queue) \in Nat \ {0}
  BY <1>1, EmptySeq
<1> QED BY <1>1, <1>2, <1>3

(* A frame that is added leaves the first one of the queue alone, and is   *)
(* put where it is the newest.                                             *)
LEMMA Added ==
  ASSUME ReaderAssumption, TypeOK, QueueInOrder, addFrame
  PROVE  /\ queue' \in Seq(1 .. MaxFrames) /\ Len(queue') <= Capacity
         /\ queue' # <<>>
         /\ queue # <<>> => Head(queue') = Head(queue)
         /\ queue = <<>> => Head(queue') = seqNo + 1
         /\ QueueInOrder'
<1>1. /\ queue \in Seq(1 .. MaxFrames) /\ Len(queue) \in Nat /\ Len(queue) <= Capacity
      /\ seqNo \in Nat /\ seqNo' = seqNo + 1 /\ seqNo + 1 \in 1 .. MaxFrames
      /\ \A i \in 1 .. Len(queue) : queue[i] \in 1 .. MaxFrames
  BY QueueFacts DEF TypeOK, addFrame, ReaderAssumption
<1>2. CASE Len(queue) < Capacity
  <2>1. queue' = Append(queue, seqNo + 1)
    BY <1>2 DEF addFrame
  <2>2. /\ queue' \in Seq(1 .. MaxFrames) /\ Len(queue') = Len(queue) + 1
        /\ \A i \in 1 .. Len(queue) : queue'[i] = queue[i]
        /\ queue'[Len(queue) + 1] = seqNo + 1
    BY <1>1, <2>1, AppendProperties
  <2>3. queue' # <<>> /\ Head(queue') = queue'[1]
    BY <1>1, <2>2, EmptySeq
  <2>4. queue # <<>> => Head(queue) = queue[1] /\ 1 \in 1 .. Len(queue)
    BY <1>1, EmptySeq
  <2>5. queue = <<>> => Len(queue) = 0
    OBVIOUS
  <2>6. /\ \A i \in 1 .. Len(queue') : i \in 1 .. Len(queue) \/ i = Len(queue) + 1
        /\ Len(queue) + 1 \in Nat
    BY <1>1, <2>2
  <2>7. \A i \in 1 .. Len(queue') : queue'[i] <= seqNo'
    BY <1>1, <2>2, <2>6 DEF QueueInOrder
  <2>8. ASSUME NEW i \in 1 .. Len(queue'), NEW j \in 1 .. Len(queue'), i < j
        PROVE  queue'[i] < queue'[j]
    <3>1. i \in 1 .. Len(queue)
      BY <1>1, <2>2, <2>8
    <3>2. CASE j \in 1 .. Len(queue)
      BY <2>2, <2>8, <3>1, <3>2 DEF QueueInOrder
    <3>3. CASE j = Len(queue) + 1
      BY <1>1, <2>2, <3>1, <3>3 DEF QueueInOrder
    <3> QED BY <2>6, <3>2, <3>3
  <2>9. Len(queue') <= Capacity
    BY <1>1, <1>2, <2>2 DEF ReaderAssumption
  <2>10. queue = <<>> => Head(queue') = seqNo + 1
    BY <2>2, <2>3, <2>5
  <2>11. queue # <<>> => Head(queue') = Head(queue)
    BY <2>2, <2>3, <2>4
  <2> QED BY <2>2, <2>3, <2>7, <2>8, <2>9, <2>10, <2>11 DEF QueueInOrder
<1>3. CASE ~(Len(queue) < Capacity)
  <2>1. Len(queue) = Capacity /\ Capacity \in Nat /\ Capacity >= 2
    BY <1>1, <1>3 DEF ReaderAssumption
  <2>2. queue' = [queue EXCEPT ![Capacity] = seqNo + 1]
    BY <1>3 DEF addFrame
  <2>3. /\ queue' \in Seq(1 .. MaxFrames) /\ Len(queue') = Capacity
        /\ \A i \in 1 .. Capacity : queue'[i] = IF i = Capacity THEN seqNo + 1 ELSE queue[i]
    BY <1>1, <2>1, <2>2, ExceptSeq
  <2>4. /\ queue' # <<>> /\ Head(queue') = queue'[1]
        /\ queue # <<>> /\ Head(queue) = queue[1]
    BY <1>1, <2>1, <2>3, EmptySeq
  <2>5. \A i \in 1 .. Len(queue') : queue'[i] <= seqNo'
    BY <1>1, <2>1, <2>3 DEF QueueInOrder
  <2>6. ASSUME NEW i \in 1 .. Len(queue'), NEW j \in 1 .. Len(queue'), i < j
        PROVE  queue'[i] < queue'[j]
    <3>1. /\ i \in 1 .. Len(queue) /\ j \in 1 .. Len(queue) /\ i # Capacity
          /\ queue'[i] = queue[i]
      BY <2>1, <2>3, <2>6
    <3>2. queue[i] <= seqNo /\ queue[i] < queue[j]
      BY <2>6, <3>1 DEF QueueInOrder
    <3>3. queue'[j] = seqNo + 1 \/ queue'[j] = queue[j]
      BY <2>1, <2>3, <3>1
    <3>4. queue[i] \in Nat
      BY <1>1, <3>1
    <3> QED BY <1>1, <3>1, <3>2, <3>3, <3>4
  <2>7. QueueInOrder'
    BY <2>5, <2>6 DEF QueueInOrder
  <2>8. Len(queue') <= Capacity
    BY <2>1, <2>3
  <2> QED BY <2>1, <2>3, <2>4, <2>7, <2>8
<1> QED BY <1>2, <1>3

(* Without its first frame the queue starts with a newer one.              *)
LEMMA Taken ==
  ASSUME ReaderAssumption, TypeOK, QueueInOrder, queue # <<>>, queue' = Tail(queue), seqNo' = seqNo
  PROVE  /\ queue' \in Seq(1 .. MaxFrames) /\ Len(queue') = Len(queue) - 1
         /\ queue' # <<>> => Head(queue') \in 1 .. MaxFrames /\ Head(queue') > Head(queue)
         /\ QueueInOrder'
<1>1. /\ queue \in Seq(1 .. MaxFrames) /\ Len(queue) \in Nat \ {0}
      /\ \A i \in 1 .. Len(queue) : queue[i] \in 1 .. MaxFrames
      /\ seqNo \in Nat
  BY QueueFacts DEF TypeOK, ReaderAssumption
<1>2. /\ queue' \in Seq(1 .. MaxFrames) /\ Len(queue') = Len(queue) - 1
      /\ \A i \in 1 .. Len(queue) - 1 : queue'[i] = queue[i + 1]
  BY <1>1, HeadTailProperties
<1>3. Head(queue) = queue[1] /\ (queue' # <<>> => Head(queue') = queue'[1] /\ Len(queue') > 0)
  BY <1>1, <1>2, EmptySeq
<1>4. queue' # <<>> => Head(queue') = queue[2] /\ 1 \in 1 .. Len(queue) /\ 2 \in 1 .. Len(queue)
  BY <1>1, <1>2, <1>3
<1>5. queue' # <<>> => queue[1] < queue[2]
  BY <1>4 DEF QueueInOrder
<1>6. QueueInOrder'
  <2>1. ASSUME NEW i \in 1 .. Len(queue') PROVE queue'[i] = queue[i + 1] /\ i + 1 \in 1 .. Len(queue)
    BY <1>1, <1>2
  <2> QED BY <1>1, <1>2, <2>1 DEF QueueInOrder
<1> QED BY <1>1, <1>2, <1>3, <1>4, <1>5, <1>6

(* The queue starts with a frame that was added.                           *)
LEMMA HeadIsFrame ==
  ASSUME TypeOK, QueueInOrder, queue # <<>>
  PROVE  Head(queue) \in 1 .. MaxFrames /\ Head(queue) <= seqNo
<1>1. Len(queue) \in Nat \ {0} /\ queue[1] \in 1 .. MaxFrames /\ Head(queue) = queue[1]
  BY QueueFacts
<1> QED BY <1>1 DEF QueueInOrder
-----------------------------------------------------------------------------
LEMMA InitIInv == ASSUME Assumption PROVE Init => IInv
<1> SUFFICES ASSUME Init PROVE IInv
  OBVIOUS
<1>1. /\ queue = <<>> /\ seqNo = 0 /\ frame = 0 /\ ready = TRUE
      /\ first = {} /\ second = {} /\ sharing = None /\ shares = 0 /\ leaves = 0
      /\ pc = [f \in Filters |-> "idle"] /\ held = [f \in Filters |-> 0]
      /\ owed = {} /\ seen = [f \in Filters |-> 0]
  BY DEF Init
<1>2. PICK f \in Filters : filters = {f} /\ published = {f}
  BY DEF Init
<1>3. queue \in Seq(1 .. MaxFrames) /\ Len(queue) = 0
  BY <1>1, EmptySeq
<1>4. TypeOK
  BY <1>1, <1>2, <1>3 DEF TypeOK, Assumption, ReaderAssumption
<1>5. Registered /\ FlagsOrdered
  BY <1>1, <1>2 DEF Registered, FlagsOrdered, Assumption, ReaderAssumption
<1>6. QueueInOrder
  BY <1>1, <1>3 DEF QueueInOrder
<1> QED BY <1>1, <1>4, <1>5, <1>6 DEF IInv, FrameIsFront, OwedHeld, SeenInOrder, OwedSeen

(* addFrame: the producer leaves the first frame and the readers alone.    *)
LEMMA AddFrameIInv == ASSUME Assumption, IInv, addFrame PROVE IInv'
<1>1. /\ queue' \in Seq(1 .. MaxFrames) /\ Len(queue') <= Capacity
      /\ queue' # <<>>
      /\ queue # <<>> => Head(queue') = Head(queue)
      /\ queue = <<>> => Head(queue') = seqNo + 1
      /\ QueueInOrder'
  BY Added DEF IInv, Assumption
<1>2. /\ seqNo \in Nat /\ seqNo' = seqNo + 1 /\ seqNo' \in 0 .. MaxFrames
      /\ frame' = frame /\ ready' = ready /\ first' = first /\ second' = second
      /\ filters' = filters /\ published' = published /\ sharing' = sharing
      /\ shares' = shares /\ leaves' = leaves
      /\ pc' = pc /\ held' = held /\ owed' = owed /\ seen' = seen
  BY DEF addFrame, IInv, TypeOK, controlVars, flagVars, Assumption, ReaderAssumption
<1>3. TypeOK'
  BY <1>1, <1>2 DEF IInv, TypeOK
<1>4. FrameIsFront'
  BY <1>1, <1>2 DEF IInv, FrameIsFront
<1>5. Registered' /\ FlagsOrdered' /\ OwedHeld' /\ OwedSeen'
  BY <1>2 DEF IInv, Registered, FlagsOrdered, OwedHeld, OwedSeen
<1>6. SeenInOrder'
  <2>1. ASSUME NEW f \in Filters
        PROVE  /\ seen[f] <= seqNo' /\ seen[f] <= Head(queue')
               /\ ready \/ f \in first => seen[f] < Head(queue')
    <3>1. seen[f] \in Nat /\ seen[f] <= seqNo
      BY DEF IInv, TypeOK, SeenInOrder
    <3>2. CASE queue = <<>>
      BY <1>1, <1>2, <3>1, <3>2
    <3>3. CASE queue # <<>>
      <4>1. Head(queue') = Head(queue)
        BY <1>1, <3>3
      <4>2. seen[f] <= Head(queue) /\ (ready \/ f \in first => seen[f] < Head(queue))
        BY <3>3 DEF IInv, SeenInOrder
      <4>3. seen[f] <= seqNo'
        BY <1>2, <3>1
      <4> QED BY <4>1, <4>2, <4>3
    <3> QED BY <3>2, <3>3
  <2> QED BY <1>2, <2>1 DEF SeenInOrder
<1> QED BY <1>1, <1>3, <1>4, <1>5, <1>6 DEF IInv

(* getFrame: the frame in use, or the first one of the queue, is given.    *)
LEMMA Given ==
  ASSUME Assumption, IInv, NEW f \in Filters, getFrame(f)
  PROVE  /\ frame' = front /\ queue # <<>> /\ front = Head(queue)
         /\ front \in 1 .. MaxFrames /\ front <= seqNo
         /\ \A g \in Filters : seen[g] \in Nat /\ seen[g] <= front
         /\ \A g \in announced(first) : seen[g] < front
         /\ announced(first) \subseteq announced(second)
         /\ announced(first) \subseteq filters /\ announced(second) \subseteq filters
         /\ announced(owed) \subseteq filters
<1>1. queue # <<>> /\ front = Head(queue) /\ frame' = front
  BY DEF getFrame, front, IInv, FrameIsFront
<1>2. front \in 1 .. MaxFrames /\ front <= seqNo
  BY <1>1, HeadIsFrame DEF IInv
<1>3. \A g \in Filters : seen[g] \in Nat /\ seen[g] <= front
  BY <1>1 DEF IInv, SeenInOrder, TypeOK
<1>4. \A g \in announced(first) : seen[g] < front
  BY <1>1 DEF IInv, SeenInOrder, TypeOK, announced
<1> QED
  BY <1>1, <1>2, <1>3, <1>4 DEF announced, IInv, TypeOK, FlagsOrdered

LEMMA GetFrameIInv ==
  ASSUME Assumption, IInv, NEW f \in Filters, getFrame(f) PROVE IInv'
<1>1. /\ pc[f] = "idle" /\ f \in published /\ f \in filters
      /\ frame' = front /\ ready' = FALSE
      /\ first' = announced(first) \ {f} /\ second' = announced(second)
      /\ owed' = announced(owed)
      /\ filters' = filters /\ published' = published /\ sharing' = sharing
      /\ shares' = shares /\ leaves' = leaves /\ queue' = queue /\ seqNo' = seqNo
  BY DEF getFrame, controlVars
<1>2. /\ queue # <<>> /\ front = Head(queue)
      /\ front \in 1 .. MaxFrames /\ front <= seqNo
      /\ \A g \in Filters : seen[g] \in Nat /\ seen[g] <= front
      /\ \A g \in announced(first) : seen[g] < front
      /\ announced(first) \subseteq announced(second)
      /\ announced(first) \subseteq filters /\ announced(second) \subseteq filters
      /\ announced(owed) \subseteq filters
  BY Given
<1>3. IF f \in announced(first)
        THEN /\ pc' = [pc EXCEPT ![f] = "busy"] /\ held' = [held EXCEPT ![f] = front]
             /\ seen' = [seen EXCEPT ![f] = front]
        ELSE pc' = pc /\ held' = held /\ seen' = seen
  BY DEF getFrame
<1>4. /\ pc \in [Filters -> {"idle", "busy", "null"}]
      /\ held \in [Filters -> 0 .. MaxFrames] /\ seen \in [Filters -> 0 .. MaxFrames]
      /\ filters \subseteq Filters
  BY DEF IInv, TypeOK
<1>5. TypeOK'
  <2>1. /\ pc' \in [Filters -> {"idle", "busy", "null"}]
        /\ held' \in [Filters -> 0 .. MaxFrames] /\ seen' \in [Filters -> 0 .. MaxFrames]
    <3>1. front \in 0 .. MaxFrames
      BY <1>2 DEF Assumption, ReaderAssumption
    <3>2. CASE f \in announced(first)
      BY <1>3, <1>4, <3>1, <3>2
    <3>3. CASE f \notin announced(first)
      BY <1>3, <1>4, <3>3
    <3> QED BY <3>2, <3>3
  <2>2. frame' \in 0 .. MaxFrames
    BY <1>1, <1>2 DEF Assumption, ReaderAssumption
  <2>3. ready' \in BOOLEAN
    BY <1>1
  <2>4. first' \subseteq filters /\ second' \subseteq filters /\ owed' \subseteq filters
    BY <1>1, <1>2
  <2> QED BY <1>1, <2>1, <2>2, <2>3, <2>4 DEF IInv, TypeOK
<1>6. FrameIsFront'
  BY <1>1, <1>2 DEF FrameIsFront
<1>7. Registered'
  <2>1. f # sharing
    BY <1>1 DEF IInv, Registered
  <2>2. sharing # None => sharing \in Filters
    BY DEF IInv, TypeOK
  <2>3. sharing # None => pc'[sharing] = pc[sharing]
    BY <1>3, <1>4, <2>1, <2>2
  <2> QED BY <1>1, <2>3 DEF IInv, Registered
<1>8. \A g \in filters : pc[g] = "busy" => ~ready /\ g \in second \ first
  BY DEF IInv, FlagsOrdered
<1>9. FlagsOrdered'
  BY <1>1, <1>2, <1>3, <1>4, <1>8 DEF FlagsOrdered, announced
<1>10. OwedHeld'
  <2> SUFFICES ASSUME NEW g \in owed', pc'[g] = "busy" PROVE held'[g] = frame'
    BY DEF OwedHeld
  <2>1. g \in filters /\ g \in Filters
    BY <1>1, <1>2, <1>4
  <2>2. CASE pc[g] = "busy"
    <3>1. ~ready /\ g \in owed /\ g # f
      BY <1>1, <1>8, <2>1, <2>2 DEF announced
    <3>2. held[g] = frame /\ frame # 0 /\ frame' = frame
      BY <1>1, <2>2, <3>1 DEF IInv, OwedHeld, FrameIsFront, front
    <3> QED BY <1>3, <1>4, <2>1, <3>1, <3>2
  <2>3. CASE pc[g] # "busy"
    BY <1>1, <1>3, <1>4, <2>1, <2>3
  <2> QED BY <2>2, <2>3
<1>11. QueueInOrder'
  BY <1>1 DEF IInv, QueueInOrder
<1>12. SeenInOrder'
  <2> SUFFICES ASSUME NEW g \in Filters
               PROVE  /\ seen'[g] <= seqNo /\ seen'[g] <= front
                      /\ g \in first' => seen'[g] < front
    BY <1>1, <1>2 DEF SeenInOrder
  <2>1. CASE seen'[g] = seen[g] /\ g # f
    BY <1>1, <1>2, <2>1 DEF IInv, SeenInOrder
  <2>2. CASE g = f
    BY <1>1, <1>2, <1>3, <1>4, <2>2 DEF IInv, SeenInOrder, TypeOK
  <2> QED BY <1>3, <1>4, <2>1, <2>2
<1>13. OwedSeen'
  <2> SUFFICES ASSUME NEW g \in owed' \ first' PROVE seen'[g] = front
    BY <1>1 DEF OwedSeen
  <2>1. g \in Filters
    BY <1>1, <1>2, <1>4
  <2>2. CASE g \in announced(first)
    BY <1>1, <1>3, <1>4, <2>1, <2>2
  <2>3. CASE g \notin announced(first)
    <3>1. ~ready /\ g \in owed \ first
      BY <1>1, <1>2, <2>3 DEF announced
    <3>2. seen[g] = frame /\ front = frame
      BY <3>1 DEF IInv, OwedSeen, FrameIsFront, front
    <3> QED BY <1>3, <1>4, <2>1, <2>3, <3>2
  <2> QED BY <2>2, <2>3
<1> QED BY <1>5, <1>6, <1>7, <1>9, <1>10, <1>11, <1>12, <1>13 DEF IInv

(* getNull, retry: a filter that is not registered looks in vain.          *)
LEMMA NullIInv ==
  ASSUME IInv, NEW f \in Filters, getNull(f) \/ retry(f) PROVE IInv'
<1>1. /\ pc[f] # "busy" /\ \E l \in {"idle", "null"} : pc' = [pc EXCEPT ![f] = l]
      /\ frame' = frame /\ ready' = ready /\ first' = first /\ second' = second
      /\ filters' = filters /\ published' = published /\ sharing' = sharing
      /\ shares' = shares /\ leaves' = leaves /\ queue' = queue /\ seqNo' = seqNo
      /\ held' = held /\ owed' = owed /\ seen' = seen
  BY DEF getNull, retry, flagVars, controlVars
<1>2. pc \in [Filters -> {"idle", "busy", "null"}] /\ owed \subseteq Filters /\ filters \subseteq Filters
  BY DEF IInv, TypeOK
<1>3. /\ pc' \in [Filters -> {"idle", "busy", "null"}]
      /\ \A g \in Filters : pc'[g] = "busy" <=> pc[g] = "busy"
  BY <1>1, <1>2
<1>4. TypeOK'
  BY <1>1, <1>3 DEF IInv, TypeOK
<1>5. sharing # None => sharing \in Filters
  BY DEF IInv, TypeOK
<1>6. Registered'
  BY <1>1, <1>3, <1>5 DEF IInv, Registered
<1>7. FlagsOrdered' /\ OwedHeld'
  BY <1>1, <1>2, <1>3 DEF IInv, FlagsOrdered, OwedHeld
<1>8. FrameIsFront' /\ QueueInOrder' /\ SeenInOrder' /\ OwedSeen'
  BY <1>1 DEF IInv, FrameIsFront, QueueInOrder, SeenInOrder, OwedSeen
<1> QED BY <1>4, <1>6, <1>7, <1>8 DEF IInv

(* removeFrame: a filter that still has the reader is one of those that    *)
(* got the frame.  If it is the last of them, all have seen the frame and  *)
(* no other works on it.                                                   *)
LEMMA Removed ==
  ASSUME Assumption, IInv, NEW f \in Filters, pc[f] = "busy", f \in published
  PROVE  /\ f \in filters /\ f \in second \ first /\ ~ready
         /\ frame # 0 /\ queue # <<>> /\ Head(queue) = frame
         /\ allRead(second \ {f}) =>
              /\ first = {} /\ second \ {f} = {}
              /\ \A g \in filters : pc[g] = "busy" => g = f
              /\ \A g \in owed : seen[g] = Head(queue)
<1>1. f \in filters
  <2>1. f # sharing
    BY DEF IInv, Registered, Assumption, ReaderAssumption
  <2> QED BY <2>1 DEF IInv, Registered
<1>2. f \in second \ first /\ ~ready
  BY <1>1 DEF IInv, FlagsOrdered
<1>3. frame # 0 /\ queue # <<>> /\ Head(queue) = frame
  BY <1>2 DEF IInv, FrameIsFront
<1>4. ASSUME allRead(second \ {f})
      PROVE  first = {} /\ second \ {f} = {}
  BY <1>4 DEF allRead, IInv, TypeOK
<1>5. ASSUME allRead(second \ {f}), NEW g \in filters, pc[g] = "busy"
      PROVE  g = f
  BY <1>4, <1>5 DEF IInv, FlagsOrdered
<1>6. ASSUME allRead(second \ {f}), NEW g \in owed
      PROVE  seen[g] = Head(queue)
  BY <1>3, <1>4, <1>6 DEF IInv, OwedSeen
<1> QED BY <1>1, <1>2, <1>3, <1>4, <1>5, <1>6

LEMMA RemoveFrameIInv ==
  ASSUME Assumption, IInv, NEW f \in Filters, removeFrame(f) PROVE IInv'
<1>1. /\ pc[f] = "busy"
      /\ pc' = [pc EXCEPT ![f] = "idle"] /\ held' = [held EXCEPT ![f] = 0]
      /\ filters' = filters /\ published' = published /\ sharing' = sharing
      /\ shares' = shares /\ leaves' = leaves /\ seqNo' = seqNo
      /\ first' = first /\ owed' = owed /\ seen' = seen
  BY DEF removeFrame, controlVars
<1>2. /\ pc' \in [Filters -> {"idle", "busy", "null"}]
      /\ held' \in [Filters -> 0 .. MaxFrames]
      /\ \A g \in Filters : pc'[g] = "busy" => g # f /\ pc[g] = "busy" /\ held'[g] = held[g]
      /\ filters \subseteq Filters /\ owed \subseteq filters /\ MaxFrames \in Nat
  BY <1>1 DEF IInv, TypeOK, Assumption, ReaderAssumption
<1>3. Registered'
  <2>1. sharing # None => sharing \in Filters /\ pc'[sharing] # "busy"
    BY <1>2 DEF IInv, Registered, TypeOK
  <2> QED BY <1>1, <2>1 DEF IInv, Registered
<1>4. CASE f \in published /\ allRead(second \ {f})
  <2>1. /\ f \in filters /\ f \in second \ first /\ ~ready
        /\ frame # 0 /\ queue # <<>> /\ Head(queue) = frame
        /\ first = {} /\ second \ {f} = {}
        /\ \A g \in filters : pc[g] = "busy" => g = f
    BY <1>1, <1>4, Removed
  <2>2. second' = {} /\ frame' = 0 /\ ready' = TRUE /\ queue' = Tail(queue)
    BY <1>4, <2>1 DEF removeFrame
  <2>3. /\ queue' \in Seq(1 .. MaxFrames) /\ Len(queue') = Len(queue) - 1
        /\ queue' # <<>> => Head(queue') \in 1 .. MaxFrames /\ Head(queue') > Head(queue)
        /\ QueueInOrder'
    BY <1>1, <2>1, <2>2, Taken DEF IInv, Assumption
  <2>4. Len(queue') <= Capacity
    <3>1. Len(queue) \in Nat /\ Len(queue) <= Capacity /\ Capacity \in Nat
      BY QueueFacts DEF IInv, TypeOK, Assumption, ReaderAssumption
    <3> QED BY <2>3, <3>1
  <2>5. TypeOK'
    BY <1>1, <1>2, <2>1, <2>2, <2>3, <2>4 DEF IInv, TypeOK
  <2>6. FrameIsFront' /\ OwedSeen'
    BY <2>2 DEF FrameIsFront, OwedSeen
  <2>7. \A g \in filters : pc'[g] # "busy"
    BY <1>2, <2>1
  <2>8. FlagsOrdered' /\ OwedHeld'
    BY <1>1, <1>2, <2>1, <2>2, <2>7 DEF FlagsOrdered, OwedHeld
  <2>9. SeenInOrder'
    <3>1. Head(queue) \in Nat /\ (queue' # <<>> => Head(queue') \in Nat /\ Head(queue) < Head(queue'))
      BY <2>1, <2>3, HeadIsFrame DEF IInv
    <3>2. ASSUME NEW g \in Filters
          PROVE  seen[g] \in Nat /\ seen[g] <= Head(queue) /\ seen[g] <= seqNo
      BY <2>1 DEF IInv, TypeOK, SeenInOrder
    <3>3. ASSUME NEW g \in Filters, queue' # <<>>
          PROVE  seen[g] <= Head(queue') /\ seen[g] < Head(queue')
      BY <3>1, <3>2, <3>3
    <3> QED BY <1>1, <3>2, <3>3 DEF SeenInOrder
  <2> QED BY <1>3, <2>3, <2>5, <2>6, <2>8, <2>9 DEF IInv
<1>5. CASE ~(f \in published /\ allRead(second \ {f}))
  <2>1. /\ frame' = frame /\ ready' = ready /\ queue' = queue
        /\ second' = IF f \in published THEN second \ {f} ELSE second
    BY <1>5 DEF removeFrame
  <2>2. TypeOK'
    BY <1>1, <1>2, <2>1 DEF IInv, TypeOK
  <2>3. first' \subseteq second'
    <3>1. f \in published => f \notin first
      BY <1>1, Removed
    <3> QED BY <1>1, <2>1, <3>1 DEF IInv, FlagsOrdered
  <2>4. FlagsOrdered'
    BY <1>1, <1>2, <2>1, <2>3 DEF IInv, FlagsOrdered
  <2>5. OwedHeld'
    BY <1>1, <1>2, <2>1 DEF IInv, OwedHeld
  <2>6. FrameIsFront' /\ QueueInOrder' /\ SeenInOrder' /\ OwedSeen'
    BY <1>1, <2>1 DEF IInv, FrameIsFront, QueueInOrder, SeenInOrder, OwedSeen
  <2> QED BY <1>3, <2>2, <2>4, <2>5, <2>6 DEF IInv
<1> QED BY <1>4, <1>5
-----------------------------------------------------------------------------
(* The control thread.  A filter that is given the reader works on no      *)
(* frame of it, and one that is disconnected takes its flags along.        *)
LEMMA ControlIInv ==
  ASSUME Assumption, IInv, NEW f \in Filters,
         shareReader(f) \/ addReader(f) \/ disconnect(f)
  PROVE  IInv'
<1>1. /\ frame' = frame /\ ready' = ready /\ queue' = queue /\ seqNo' = seqNo
      /\ pc' = pc /\ held' = held /\ seen' = seen
      /\ first' \subseteq first /\ second' \subseteq second /\ owed' \subseteq owed
  BY DEF shareReader, addReader, disconnect, flagVars
<1>2. FrameIsFront' /\ QueueInOrder' /\ OwedHeld'
  BY <1>1 DEF IInv, FrameIsFront, QueueInOrder, OwedHeld
<1>3. SeenInOrder'
  BY <1>1 DEF IInv, SeenInOrder
<1>4. None \notin published /\ None \notin Filters /\ filters \subseteq Filters
  BY DEF IInv, TypeOK, Assumption, ReaderAssumption
<1>5. CASE shareReader(f)
  <2>1. /\ sharing = None /\ sharing' = f /\ f \notin published /\ shares < MaxShares
        /\ published' = published \cup {f} /\ shares' = shares + 1 /\ leaves' = leaves
        /\ filters' = filters /\ first' = first /\ second' = second /\ owed' = owed
        /\ pc[f] # "busy"
    BY <1>5 DEF shareReader, flagVars, Assumption
  <2>2. shares' \in 0 .. MaxShares
    BY <2>1 DEF IInv, TypeOK, Assumption, ReaderAssumption
  <2>3. TypeOK'
    BY <1>1, <2>1, <2>2 DEF IInv, TypeOK
  <2>4. Registered'
    BY <1>1, <1>4, <2>1 DEF IInv, Registered
  <2>5. FlagsOrdered' /\ OwedSeen'
    BY <1>1, <2>1 DEF IInv, FlagsOrdered, OwedSeen
  <2> QED BY <1>2, <1>3, <2>3, <2>4, <2>5 DEF IInv
<1>6. CASE addReader(f)
  <2>1. /\ sharing = f /\ sharing' = None /\ filters' = filters \cup {f}
        /\ published' = published /\ shares' = shares /\ leaves' = leaves
        /\ first' = first \ {f} /\ second' = second \ {f} /\ owed' = owed \ {f}
    BY <1>6 DEF addReader
  <2>2. f # None /\ f \in published /\ pc[f] # "busy" /\ filters = published \ {f}
    BY <1>4, <2>1 DEF IInv, Registered
  <2>3. TypeOK'
    BY <1>1, <2>1 DEF IInv, TypeOK
  <2>4. Registered'
    BY <1>4, <2>1, <2>2 DEF Registered
  <2>5. FlagsOrdered' /\ OwedSeen'
    BY <1>1, <2>1, <2>2 DEF IInv, FlagsOrdered, OwedSeen
  <2> QED BY <1>2, <1>3, <2>3, <2>4, <2>5 DEF IInv
<1>7. CASE disconnect(f)
  <2>1. /\ sharing = None /\ sharing' = sharing /\ shares' = shares
        /\ leaves < MaxLeaves /\ leaves' = leaves + 1
        /\ filters' = filters \ {f} /\ published' = published \ {f}
        /\ first' = first \ {f} /\ second' = second \ {f} /\ owed' = owed \ {f}
    BY <1>7 DEF disconnect
  <2>2. leaves' \in 0 .. MaxLeaves
    BY <2>1 DEF IInv, TypeOK, Assumption, ReaderAssumption
  <2>3. TypeOK'
    BY <1>1, <2>1, <2>2 DEF IInv, TypeOK
  <2>4. Registered'
    BY <1>1, <2>1 DEF IInv, Registered
  <2>5. FlagsOrdered' /\ OwedSeen'
    BY <1>1, <2>1 DEF IInv, FlagsOrdered, OwedSeen
  <2> QED BY <1>2, <1>3, <2>3, <2>4, <2>5 DEF IInv
<1> QED BY <1>5, <1>6, <1>7

LEMMA NextIInv == ASSUME Assumption PROVE IInv /\ [Next]_vars => IInv'
<1> SUFFICES ASSUME IInv, [Next]_vars PROVE IInv'
  OBVIOUS
<1>1. CASE addFrame
  BY <1>1, AddFrameIInv
<1>2. CASE Control
  BY <1>2, ControlIInv DEF Control
<1>3. ASSUME NEW f \in Filters, Filter(f) PROVE IInv'
  BY <1>3, GetFrameIInv, NullIInv, RemoveFrameIInv DEF Filter
<1>4. CASE UNCHANGED vars
  <2>1. /\ frame' = frame /\ ready' = ready /\ first' = first /\ second' = second
        /\ filters' = filters /\ published' = published /\ sharing' = sharing
        /\ shares' = shares /\ leaves' = leaves /\ queue' = queue /\ seqNo' = seqNo
        /\ pc' = pc /\ held' = held /\ owed' = owed /\ seen' = seen
    BY <1>4 DEF vars
  <2>2. TypeOK' /\ Registered' /\ FlagsOrdered' /\ OwedHeld'
    BY <2>1 DEF IInv, TypeOK, Registered, FlagsOrdered, OwedHeld
  <2>3. FrameIsFront' /\ QueueInOrder' /\ SeenInOrder' /\ OwedSeen'
    BY <2>1 DEF IInv, FrameIsFront, QueueInOrder, SeenInOrder, OwedSeen
  <2> QED BY <2>2, <2>3 DEF IInv
<1> QED BY <1>1, <1>2, <1>3, <1>4 DEF Next

LEMMA Invariance == ASSUME Assumption PROVE Spec => []IInv
<1>1. Init => IInv
  BY InitIInv
<1>2. IInv /\ [Next]_vars => IInv'
  BY NextIInv
<1> QED BY <1>1, <1>2, PTL DEF Spec
-----------------------------------------------------------------------------
(* getFrame, removeFrame, disconnect: the state of the reader and of its   *)
(* filters is always one of those the code was written for: the flags are  *)
(* those of registered filters, and the queue never exceeds its size.      *)
THEOREM TypeCorrect == ASSUME Assumption PROVE Spec => []TypeOK
<1>1. IInv => TypeOK
  BY DEF IInv
<1> QED BY <1>1, Invariance, PTL

(* removeFrame: a frame that a filter works on stays at the front of the   *)
(* queue, whichever filters come, go and are done with it meanwhile.       *)
THEOREM FrameHeld == ASSUME Assumption PROVE Spec => []HeldStays
<1>1. IInv => HeldStays
  <2>1. IInv => TypeOK
    BY DEF IInv
  <2> SUFFICES ASSUME IInv, NEW f \in owed, pc[f] = "busy"
               PROVE  frame = held[f] /\ queue # <<>> /\ Head(queue) = frame
    BY <2>1 DEF HeldStays
  <2>2. held[f] = frame
    BY DEF IInv, OwedHeld
  <2>3. f \in filters
    BY DEF IInv, TypeOK
  <2>4. frame # 0
    BY <2>3 DEF IInv, FlagsOrdered, FrameIsFront
  <2> QED BY <2>2, <2>4 DEF IInv, FrameIsFront
<1> QED BY <1>1, Invariance, PTL

(* removeFrame, getFrame: a frame leaves the queue when each filter that   *)
(* was registered when it was announced has had it, and a filter is given  *)
(* newer and newer frames.                                                 *)
THEOREM EachServed == ASSUME Assumption PROVE Spec => AllServed
<1> DEFINE Served ==
      /\ Len(queue') < Len(queue) => \A f \in owed : seen[f] = Head(queue)
      /\ \A f \in Filters : pc[f] = "idle" /\ pc'[f] = "busy" => seen'[f] > seen[f]
<1>1. IInv /\ [Next]_vars => [Served]_vars
  <2> SUFFICES ASSUME IInv, Next PROVE Served
    OBVIOUS
  <2>1. Len(queue) \in Nat
    BY QueueFacts DEF IInv
  <2>2. CASE addFrame
    <3>1. pc' = pc
      BY <2>2 DEF addFrame
    <3>2. ~(Len(queue') < Len(queue))
      <4>1. CASE Len(queue) < Capacity
        BY <2>1, <2>2, <4>1, AppendProperties DEF addFrame, IInv, TypeOK
      <4>2. CASE ~(Len(queue) < Capacity)
        BY <2>1, <2>2, <4>2 DEF addFrame, IInv, TypeOK
      <4> QED BY <4>1, <4>2
    <3> QED BY <3>1, <3>2
  <2>3. CASE Control
    <3>1. pc' = pc /\ queue' = queue
      BY <2>3 DEF Control, shareReader, addReader, disconnect
    <3> QED BY <2>1, <3>1
  <2>4. ASSUME NEW f \in Filters, getFrame(f) PROVE Served
    <3>1. queue' = queue
      BY <2>4 DEF getFrame
    <3>2. ASSUME NEW g \in Filters, pc[g] = "idle", pc'[g] = "busy"
          PROVE  seen'[g] > seen[g]
      <4>1. f \in announced(first) /\ pc' = [pc EXCEPT ![f] = "busy"]
            /\ seen' = [seen EXCEPT ![f] = front]
        BY <2>4, <3>2 DEF getFrame
      <4>2. g = f
        BY <3>2, <4>1 DEF IInv, TypeOK
      <4>3. seen[f] \in Nat /\ front \in 1 .. MaxFrames /\ seen[f] < front
        BY <2>4, <4>1, Given
      <4> QED BY <4>1, <4>2, <4>3 DEF IInv, TypeOK
    <3> QED BY <2>1, <3>1, <3>2
  <2>5. ASSUME NEW f \in Filters, getNull(f) \/ retry(f) PROVE Served
    <3>1. queue' = queue /\ \E l \in {"idle", "null"} : pc' = [pc EXCEPT ![f] = l]
      BY <2>5 DEF getNull, retry
    <3> QED BY <2>1, <3>1 DEF IInv, TypeOK
  <2>6. ASSUME NEW f \in Filters, removeFrame(f) PROVE Served
    <3>1. pc[f] = "busy" /\ pc' = [pc EXCEPT ![f] = "idle"]
      BY <2>6 DEF removeFrame
    <3>2. \A g \in Filters : ~(pc[g] = "idle" /\ pc'[g] = "busy")
      BY <3>1 DEF IInv, TypeOK
    <3>3. queue' = queue \/ (f \in published /\ allRead(second \ {f}))
      BY <2>6 DEF removeFrame
    <3>4. CASE queue' = queue
      BY <2>1, <3>2, <3>4
    <3>5. CASE f \in published /\ allRead(second \ {f})
      BY <3>1, <3>2, <3>5, Removed
    <3> QED BY <3>3, <3>4, <3>5
  <2> QED BY <2>2, <2>3, <2>4, <2>5, <2>6 DEF Next, Filter
<1>2. Spec => []IInv
  BY Invariance
<1> QED BY <1>1, <1>2, PTL DEF Spec, AllServed

-----------------------------------------------------------------------------
(* The connection.                                                         *)

LinkAssumption == ConnectionAssumption /\ ~RunsEarly /\ ~LeaveBusy

Leaving == {"leave", "gone", "unset", "delete"}
Linking == {"setConnection", "setConnected", "connected"}
Connecting == {"getReader", "setWriter", "setReader", "null"} \cup Linking
Working == {"busy", "add", "skip"}

(* Which steps each thread gets to.                                        *)
Places ==
  /\ at["W"] \in Leaving \cup Working \cup {"idle", "getFrame", "null"}
  /\ at["R"] \in Leaving \cup Working \cup {"idle", "getFrame"}
  /\ at["C"] \in Leaving \cup Connecting \cup {"idle"}
  /\ side["W"] = "writer" /\ side["R"] = "reader"

Inside == Leaving \cup {"getFrame", "add", "skip", "null"}

(* Who holds the mutex of each filter.                                     *)
Locks ==
  /\ mtx["writer"] = "W" <=> at["W"] \in Inside
  /\ mtx["reader"] = "R" <=> at["R"] \in Inside
  /\ mtx["writer"] = "C" <=>
       at["C"] \in Connecting \/ (at["C"] \in Leaving /\ side["C"] = "writer")
  /\ mtx["reader"] = "C" <=> at["C"] \in Leaving /\ side["C"] = "reader"
  /\ mtx["writer"] # "R" /\ mtx["reader"] # "W"

(* An attempt to connect has a number of its own.                          *)
Fresh ==
  /\ writers <= current /\ readers <= current
  /\ \A q \in live \cup connected : q <= current
  /\ at["C"] \in {"getReader", "setWriter"} =>
       /\ current > 0 /\ current \notin live \cup connected
       /\ writers # current /\ readers # current

(* The queue of an entry is that of its attempt, and allocated.            *)
OwnQueue == rQueue \subseteq {readers} \ {0} /\ wQueue \cup rQueue \subseteq live

(* What connect has done so far, with both workers idle towards its end.   *)
Attempt ==
  /\ at["C"] \in {"setReader"} \cup Linking =>
       writers = current /\ current > 0 /\ current \in live /\ at["W"] = "idle"
  /\ at["C"] = "setReader" => wQueue = {} /\ readers # current
  /\ at["C"] \in Linking => readers = current /\ current \in wQueue /\ at["R"] = "idle"
  /\ at["C"] = "setConnection" => rQueue = {}
  /\ at["C"] \in {"setConnected", "connected"} => current \in rQueue

(* Two sides that have the same queue are connected, or about to be.       *)
Together == \A q \in wQueue \cap rQueue : q \in connected \/ at["C"] = "setConnected"

(* A side that leaves did not miss anything since it looked at the flag.   *)
LeavesSafely ==
  \A t \in Threads :
    /\ at[t] = "gone" => queueOf(t) = 0
    /\ at[t] = "unset" => queueOf(t) # 0
    /\ at[t] = "delete" => queueOf(t) # 0 /\ queueOf(t) \notin connected
    /\ at[t] \in Leaving => using[side[t]] = 0

(* A worker uses the queue of its own entry.                               *)
UsesOwn ==
  /\ using["writer"] # 0 <=> at["W"] \in Working
  /\ using["reader"] # 0 <=> at["R"] \in Working
  /\ using["writer"] # 0 => using["writer"] = writers /\ writers \in wQueue
  /\ using["reader"] # 0 => using["reader"] = readers /\ readers \in rQueue

LinkInv ==
  LinkTypeOK /\ Places /\ Locks /\ Fresh /\ OwnQueue /\ Attempt /\ Together
  /\ LeavesSafely /\ UsesOwn /\ Paired
-----------------------------------------------------------------------------
(* No side has an entry at the start.                                      *)
LEMMA InitLinkInv == ASSUME LinkAssumption PROVE LinkInit => LinkInv
BY DEF LinkInit, LinkInv, LinkTypeOK, Places, Locks, Fresh, OwnQueue, Attempt, Together,
       LeavesSafely, UsesOwn, Paired, LinkAssumption, ConnectionAssumption, Leaving,
       Linking, Connecting, Working, Inside, Threads

(* connect takes the mutex of the writer and a number for the new queue.   *)
LEMMA ConnectLinkInv ==
  ASSUME LinkAssumption, LinkInv, connect PROVE LinkInv'
<1> USE DEF LinkInv, Leaving, Linking, Connecting, Working, Inside, Threads,
            connect, lock, go, entries, queueVars
<1>1. LinkTypeOK'
  BY DEF LinkTypeOK, LinkAssumption, ConnectionAssumption
<1>2. Places'
  BY DEF Places
<1>3. Locks'
  BY DEF Locks, LinkTypeOK
<1>4. Fresh'
  BY DEF Fresh, LinkTypeOK, Ids
<1>5. OwnQueue' /\ Together' /\ Paired'
  BY DEF OwnQueue, Together, Paired
<1>6. Attempt'
  BY DEF Attempt
<1>7. LeavesSafely'
  BY DEF LeavesSafely, Locks
<1>8. UsesOwn'
  BY DEF UsesOwn
<1> QED BY <1>1, <1>2, <1>3, <1>4, <1>5, <1>6, <1>7, <1>8

(* getReader only reads the entry of the other filter.                     *)
LEMMA GetReaderLinkInv ==
  ASSUME LinkAssumption, LinkInv, getReader PROVE LinkInv'
<1> USE DEF LinkInv, Leaving, Linking, Connecting, Working, Inside, Threads,
            getReader, return, go, entries, queueVars
<1>1. LinkTypeOK'
  BY DEF LinkTypeOK
<1>2. Places'
  BY DEF Places, LinkTypeOK
<1>3. Locks'
  BY DEF Locks, LinkTypeOK
<1>4. Fresh'
  BY DEF Fresh
<1>5. OwnQueue' /\ Together' /\ Paired'
  BY DEF OwnQueue, Together, Paired
<1>6. Attempt'
  BY DEF Attempt, LinkTypeOK
<1>7. LeavesSafely'
  BY DEF LeavesSafely, LinkTypeOK, Locks
<1>8. UsesOwn'
  BY DEF UsesOwn, LinkTypeOK
<1> QED BY <1>1, <1>2, <1>3, <1>4, <1>5, <1>6, <1>7, <1>8

(* setWriter makes the queue when the writer has no entry yet.             *)
LEMMA SetWriterLinkInv ==
  ASSUME LinkAssumption, LinkInv, setWriter PROVE LinkInv'
<1> USE DEF LinkInv, Leaving, Linking, Connecting, Working, Inside, Threads,
            setWriter, return, go
<1>1. LinkTypeOK'
  <2>1. CASE writers = 0
    <3>1. current \in Ids /\ wQueue = {}
      BY <2>1 DEF LinkTypeOK, Fresh, Ids
    <3>2. writers' = current /\ live' = live \cup {current} /\ mtx' = mtx
          /\ at' = [at EXCEPT !["C"] = "setReader"]
      BY <2>1
    <3>3. writers' \in 0 .. MaxConnects /\ live' \subseteq Ids
      BY <3>1, <3>2 DEF LinkTypeOK
    <3> QED BY <3>1, <3>2, <3>3 DEF LinkTypeOK
  <2>2. CASE writers # 0
    BY <2>2 DEF LinkTypeOK
  <2> QED BY <2>1, <2>2
<1>2. Places'
  BY DEF Places, LinkTypeOK
<1>3. Locks'
  BY DEF Locks, LinkTypeOK
<1>4. Fresh'
  <2>1. /\ at'["C"] \in {"setReader", "idle"} /\ readers' = readers
        /\ connected' = connected /\ current' = current
    BY DEF LinkTypeOK
  <2>2. writers' \in {writers, current} /\ live' \subseteq live \cup {current}
    OBVIOUS
  <2> QED BY <2>1, <2>2 DEF Fresh, LinkTypeOK
<1>5. OwnQueue' /\ Together' /\ Paired'
  BY DEF OwnQueue, Together, Paired
<1>6. Attempt'
  BY DEF Attempt, LinkTypeOK, Locks, Places, UsesOwn, Fresh
<1>7. LeavesSafely'
  BY DEF LeavesSafely, queueOf, LinkTypeOK
<1>8. UsesOwn'
  BY DEF UsesOwn, LinkTypeOK
<1> QED BY <1>1, <1>2, <1>3, <1>4, <1>5, <1>6, <1>7, <1>8

(* setReader either takes the queue or gives the writer's entry up.        *)
LEMMA SetReaderLinkInv ==
  ASSUME LinkAssumption, LinkInv, setReader PROVE LinkInv'
<1> USE DEF LinkInv, Leaving, Linking, Connecting, Working, Inside, Threads,
            setReader, return, go, queueVars
<1>1. LinkTypeOK'
  <2>1. writers = current /\ current > 0 /\ wQueue = {}
    BY DEF Attempt
  <2>2. CASE readers = 0
    BY <2>1, <2>2 DEF LinkTypeOK
  <2>3. CASE readers # 0
    <3>1. writers' = 0 /\ wQueue' = wQueue /\ readers' = readers
          /\ at' = [at EXCEPT !["C"] = "idle"] /\ mtx' = [mtx EXCEPT !["writer"] = "free"]
      BY <2>3
    <3>2. 0 \in 0 .. MaxConnects
      BY DEF LinkAssumption, ConnectionAssumption
    <3> QED BY <2>1, <3>1, <3>2 DEF LinkTypeOK
  <2> QED BY <2>2, <2>3
<1>2. Places'
  BY DEF Places, LinkTypeOK
<1>3. Locks'
  BY DEF Locks, LinkTypeOK
<1>4. Fresh'
  BY DEF Fresh, LinkTypeOK
<1>5. OwnQueue' /\ Together' /\ Paired'
  <2>1. /\ writers = current /\ current > 0 /\ wQueue = {} /\ current \in live
        /\ connected = {} /\ connected' = {} /\ live' = live /\ rQueue' = rQueue
    BY DEF Attempt, Paired
  <2>2. CASE readers = 0
    <3>1. rQueue = {}
      BY <2>2 DEF OwnQueue
    <3> QED BY <2>1, <2>2, <3>1 DEF OwnQueue, Together, Paired
  <2>3. CASE readers # 0
    BY <2>1, <2>3 DEF OwnQueue, Together, Paired
  <2> QED BY <2>2, <2>3
<1>6. Attempt'
  <2>1. /\ writers = current /\ current > 0 /\ wQueue = {} /\ current \in live
        /\ at["W"] = "idle" /\ live' = live /\ rQueue' = rQueue /\ current' = current
    BY DEF Attempt
  <2>2. CASE readers = 0
    <3>1. rQueue = {} /\ at["R"] = "idle"
      BY <2>2 DEF OwnQueue, Locks, UsesOwn, Places
    <3>2. at' = [at EXCEPT !["C"] = "setConnection"] /\ readers' = current /\ writers' = writers
          /\ current \in wQueue'
      BY <2>2
    <3> QED BY <2>1, <3>1, <3>2 DEF Attempt, LinkTypeOK
  <2>3. CASE readers # 0
    <3>1. at' = [at EXCEPT !["C"] = "idle"]
      BY <2>3
    <3> QED BY <3>1 DEF Attempt, LinkTypeOK
  <2> QED BY <2>2, <2>3
<1>7. LeavesSafely'
  BY DEF LeavesSafely, LinkTypeOK, Locks
<1>8. UsesOwn'
  BY DEF UsesOwn, LinkTypeOK, Attempt
<1> QED BY <1>1, <1>2, <1>3, <1>4, <1>5, <1>6, <1>7, <1>8

(* setConnection gives the reader the queue of this attempt.               *)
LEMMA SetConnectionLinkInv ==
  ASSUME LinkAssumption, LinkInv, setConnection PROVE LinkInv'
<1> USE DEF LinkInv, Leaving, Linking, Connecting, Working, Inside, Threads,
            setConnection, go, queueVars
<1>1. LinkTypeOK'
  BY DEF LinkTypeOK, Attempt
<1>2. Places'
  BY DEF Places
<1>3. Locks'
  BY DEF Locks
<1>4. Fresh'
  BY DEF Fresh
<1>5. OwnQueue' /\ Together' /\ Paired'
  BY DEF OwnQueue, Together, Paired, LinkTypeOK, Attempt
<1>6. Attempt'
  BY DEF Attempt, LinkTypeOK
<1>7. LeavesSafely'
  BY DEF LeavesSafely, Attempt
<1>8. UsesOwn'
  BY DEF UsesOwn
<1> QED BY <1>1, <1>2, <1>3, <1>4, <1>5, <1>6, <1>7, <1>8

(* setConnected: from here on both workers use the queue.                  *)
LEMMA SetConnectedLinkInv ==
  ASSUME LinkAssumption, LinkInv, setConnected PROVE LinkInv'
<1> USE DEF LinkInv, Leaving, Linking, Connecting, Working, Inside, Threads,
            setConnected, go, entries
<1>1. LinkTypeOK'
  BY DEF LinkTypeOK, Attempt
<1>2. Places'
  BY DEF Places
<1>3. Locks'
  BY DEF Locks
<1>4. Fresh'
  BY DEF Fresh, LinkTypeOK
<1>5. OwnQueue' /\ Together' /\ Paired'
  BY DEF OwnQueue, Together, Paired, Attempt
<1>6. Attempt'
  BY DEF Attempt
<1>7. LeavesSafely'
  BY DEF LeavesSafely, Attempt
<1>8. UsesOwn'
  BY DEF UsesOwn
<1> QED BY <1>1, <1>2, <1>3, <1>4, <1>5, <1>6, <1>7, <1>8

(* The return of connect gives the mutex of the writer back.               *)
LEMMA ConnectReturnLinkInv ==
  ASSUME LinkAssumption, LinkInv, connectReturn PROVE LinkInv'
<1> USE DEF LinkInv, Leaving, Linking, Connecting, Working, Inside, Threads,
            connectReturn, return, go
<1>1. LinkTypeOK'
  BY DEF LinkTypeOK
<1>2. Places'
  BY DEF Places
<1>3. Locks'
  BY DEF Locks, LinkTypeOK
<1>4. Fresh'
  BY DEF Fresh
<1>5. OwnQueue' /\ Together' /\ Paired'
  BY DEF OwnQueue, Together, Paired
<1>6. Attempt'
  BY DEF Attempt
<1>7. LeavesSafely'
  BY DEF LeavesSafely, Attempt
<1>8. UsesOwn'
  BY DEF UsesOwn
<1> QED BY <1>1, <1>2, <1>3, <1>4, <1>5, <1>6, <1>7, <1>8

(* disconnectWriter and disconnectReader take the mutex of their filter.   *)
LEMMA DisconnectLinkInv ==
  ASSUME LinkAssumption, LinkInv, NEW s \in {"writer", "reader"}, disconnectSide(s) PROVE LinkInv'
<1> USE DEF LinkInv, Leaving, Linking, Connecting, Working, Inside, Threads,
            disconnectSide, lock, go, entries, queueVars
<1>1. LinkTypeOK'
  BY DEF LinkTypeOK
<1>2. Places'
  BY DEF Places
<1>3. Locks'
  BY DEF Locks, LinkTypeOK
<1>4. Fresh'
  BY DEF Fresh
<1>5. OwnQueue' /\ Together' /\ Paired'
  BY DEF OwnQueue, Together, Paired
<1>6. Attempt'
  BY DEF Attempt
<1>7. LeavesSafely'
  BY DEF LeavesSafely, queueOf, LinkTypeOK, LinkAssumption
<1>8. UsesOwn'
  BY DEF UsesOwn
<1> QED BY <1>1, <1>2, <1>3, <1>4, <1>5, <1>6, <1>7, <1>8

(* Looking at the connected flag decides how a side leaves.                *)
LEMMA LeaveLinkInv ==
  ASSUME LinkAssumption, LinkInv, NEW t \in Threads, leave(t) PROVE LinkInv'
<1> USE DEF LinkInv, Leaving, Linking, Connecting, Working, Inside, Threads, leave,
            go, entries, queueVars
<1>1. LinkTypeOK'
  BY DEF LinkTypeOK
<1>2. Places'
  BY DEF Places
<1>3. Locks'
  BY DEF Locks
<1>4. Fresh'
  BY DEF Fresh
<1>5. OwnQueue' /\ Together' /\ Paired'
  BY DEF OwnQueue, Together, Paired
<1>6. Attempt'
  BY DEF Attempt
<1>7. LeavesSafely'
  BY DEF LeavesSafely, queueOf
<1>8. UsesOwn'
  BY DEF UsesOwn
<1> QED BY <1>1, <1>2, <1>3, <1>4, <1>5, <1>6, <1>7, <1>8

(* left: the side that leaves was the last to have the queue, or the flag  *)
(* is reset; either way no queue is connected afterwards.                  *)
LEMMA Left ==
  ASSUME LinkAssumption, LinkInv, NEW t \in Threads, left(t)
  PROVE  /\ at[t] \in {"gone", "unset", "delete"} /\ side[t] \in {"writer", "reader"}
         /\ at' = [at EXCEPT ![t] = "idle"] /\ mtx' = [mtx EXCEPT ![side[t]] = "free"]
         /\ made' = made /\ side' = side /\ using' = using /\ current' = current
         /\ using[side[t]] = 0 /\ connected' = {} /\ live' \subseteq live
         /\ side[t] = "writer" =>
              /\ writers' = 0 /\ wQueue' = {} /\ readers' = readers /\ rQueue' = rQueue
              /\ rQueue \subseteq live'
         /\ side[t] = "reader" =>
              /\ readers' = 0 /\ rQueue' = {} /\ writers' = writers /\ wQueue' = wQueue
              /\ wQueue \subseteq live'
         /\ \A q \in live : q # queueOf(t) => q \in live'
<1> USE DEF LinkInv, left, return, go
<1>1. /\ at[t] \in {"gone", "unset", "delete"} /\ side[t] \in {"writer", "reader"}
      /\ using[side[t]] = 0
  BY DEF LinkTypeOK, LeavesSafely, Leaving
<1>2. connected' = {}
  <2>1. connected' = connected \ {queueOf(t)}
    BY <1>1 DEF LeavesSafely, LinkTypeOK, Ids
  <2>2. connected \subseteq {queueOf(t)}
    BY <1>1 DEF Paired, queueOf
  <2> QED BY <2>1, <2>2
<1>3. at["C"] # "setConnected"
  BY <1>1 DEF Attempt, Linking, Threads
<1>4. ASSUME side[t] = "writer"
      PROVE  /\ writers' = 0 /\ wQueue' = {} /\ readers' = readers /\ rQueue' = rQueue
             /\ rQueue \subseteq live'
  <2>1. writers' = 0 /\ wQueue' = {} /\ readers' = readers /\ rQueue' = rQueue
    BY <1>4 DEF LinkTypeOK
  <2>2. at[t] = "delete" => queueOf(t) \notin rQueue
    BY <1>3, <1>4 DEF LeavesSafely, Together, queueOf
  <2> QED BY <2>1, <2>2 DEF OwnQueue
<1>5. ASSUME side[t] = "reader"
      PROVE  /\ readers' = 0 /\ rQueue' = {} /\ writers' = writers /\ wQueue' = wQueue
             /\ wQueue \subseteq live'
  <2>1. readers' = 0 /\ rQueue' = {} /\ writers' = writers /\ wQueue' = wQueue
    BY <1>5 DEF OwnQueue
  <2>2. at[t] = "delete" => queueOf(t) \notin wQueue
    BY <1>3, <1>5 DEF LeavesSafely, Together, queueOf
  <2> QED BY <2>1, <2>2 DEF OwnQueue
<1> QED BY <1>1, <1>2, <1>4, <1>5

(* Hence a side that has left disturbs nothing.                            *)
LEMMA LeftLinkInv ==
  ASSUME LinkAssumption, LinkInv, NEW t \in Threads, left(t) PROVE LinkInv'
<1> USE DEF LinkInv, Leaving, Linking, Connecting, Working, Inside, Threads
<1>1. /\ at[t] \in {"gone", "unset", "delete"} /\ side[t] \in {"writer", "reader"}
      /\ at' = [at EXCEPT ![t] = "idle"] /\ mtx' = [mtx EXCEPT ![side[t]] = "free"]
      /\ made' = made /\ side' = side /\ using' = using /\ current' = current
      /\ using[side[t]] = 0 /\ connected' = {} /\ live' \subseteq live
      /\ \A q \in live : q # queueOf(t) => q \in live'
  BY Left
<1>2. CASE side[t] = "writer"
  <2>1. /\ writers' = 0 /\ wQueue' = {} /\ readers' = readers /\ rQueue' = rQueue
        /\ rQueue \subseteq live'
    BY <1>2, Left
  <2>2. LinkTypeOK'
    BY <1>1, <2>1 DEF LinkTypeOK
  <2>3. Places'
    BY <1>1 DEF Places
  <2>4. Locks'
    BY <1>1, <1>2 DEF Locks, Places, LinkTypeOK
  <2>5. Fresh' /\ OwnQueue' /\ Together' /\ Paired'
    BY <1>1, <2>1 DEF Fresh, OwnQueue, Together, Paired, LinkTypeOK
  <2>6. at'["C"] \notin {"setReader"} \cup Linking
    BY <1>1, <1>2 DEF Locks, Places
  <2>7. Attempt'
    BY <2>6 DEF Attempt
  <2>8. LeavesSafely'
    BY <1>1, <1>2, <2>1 DEF LeavesSafely, queueOf, LinkTypeOK, Places, Locks
  <2>9. UsesOwn'
    BY <1>1, <1>2, <2>1 DEF UsesOwn
  <2> QED BY <2>2, <2>3, <2>4, <2>5, <2>7, <2>8, <2>9
<1>3. CASE side[t] = "reader"
  <2>1. /\ readers' = 0 /\ rQueue' = {} /\ writers' = writers /\ wQueue' = wQueue
        /\ wQueue \subseteq live'
    BY <1>3, Left
  <2>2. LinkTypeOK'
    BY <1>1, <2>1 DEF LinkTypeOK
  <2>3. Places'
    BY <1>1 DEF Places
  <2>4. Locks'
    BY <1>1, <1>3 DEF Locks, Places, LinkTypeOK
  <2>5. Fresh' /\ OwnQueue' /\ Together' /\ Paired'
    BY <1>1, <2>1 DEF Fresh, OwnQueue, Together, Paired, LinkTypeOK
  <2>6. at'["C"] \notin Linking
    BY <1>1, <1>3 DEF Attempt
  <2>7. at'["C"] = "setReader" => at["C"] = "setReader" /\ current \in live'
    <3>1. at["C"] = "setReader" => current \in live /\ current # queueOf(t)
      BY <1>3 DEF Attempt, queueOf
    <3> QED BY <1>1, <3>1
  <2>8. t = "W" => at["C"] # "setReader"
    BY <1>1 DEF Attempt
  <2>9. Attempt'
    BY <1>1, <2>1, <2>6, <2>7, <2>8 DEF Attempt
  <2>10. LeavesSafely'
    BY <1>1, <1>3, <2>1 DEF LeavesSafely, queueOf, LinkTypeOK, Places, Locks
  <2>11. UsesOwn'
    BY <1>1, <1>3, <2>1 DEF UsesOwn
  <2> QED BY <2>2, <2>3, <2>4, <2>5, <2>9, <2>10, <2>11
<1> QED BY <1>1, <1>2, <1>3

(* demandFrames takes the mutex; no connection is under way by then.       *)
LEMMA DemandLinkInv ==
  ASSUME LinkAssumption, LinkInv, NEW t \in {"W", "R"}, demandFrames(t) PROVE LinkInv'
<1> USE DEF LinkInv, Leaving, Linking, Connecting, Working, Inside, Threads,
            demandFrames, lock, go, entries, queueVars, entryOf
<1>1. LinkTypeOK'
  BY DEF LinkTypeOK
<1>2. Places'
  BY DEF Places
<1>3. Locks'
  BY DEF Locks, LinkTypeOK, SideOf
<1>4. Fresh'
  BY DEF Fresh
<1>5. OwnQueue' /\ Together' /\ Paired'
  BY DEF OwnQueue, Together, Paired
<1>6. Attempt'
  <2>1. /\ at["C"] \notin Linking
        /\ t = "W" => at["C"] # "setReader"
    BY DEF Locks, connecting, LinkAssumption, SideOf
  <2>2. \E l : at' = [at EXCEPT ![t] = l]
    OBVIOUS
  <2>3. at'["C"] = at["C"] /\ (t = "R" => at'["W"] = at["W"])
    BY <2>2
  <2> QED BY <2>1, <2>3 DEF Attempt
<1>7. LeavesSafely'
  BY DEF LeavesSafely, queueOf, Places, UsesOwn
<1>8. UsesOwn'
  BY DEF UsesOwn
<1> QED BY <1>1, <1>2, <1>3, <1>4, <1>5, <1>6, <1>7, <1>8

(* getFrame gives a frame of the own entry, while it is connected.         *)
LEMMA GetFrameLinkInv ==
  ASSUME LinkAssumption, LinkInv, NEW t \in {"W", "R"}, getFrameOf(t) PROVE LinkInv'
<1> USE DEF LinkInv, Leaving, Linking, Connecting, Working, Inside, Threads,
            getFrameOf, isConnected, return, go, entries, queueVars, entryOf
<1>1. LinkTypeOK'
  BY DEF LinkTypeOK
<1>2. Places'
  BY DEF Places, LinkTypeOK
<1>3. Locks'
  BY DEF Locks, LinkTypeOK, SideOf
<1>4. Fresh'
  BY DEF Fresh, LinkTypeOK
<1>5. OwnQueue' /\ Together' /\ Paired'
  BY DEF OwnQueue, Together, Paired, Attempt
<1>6. Attempt'
  BY DEF Attempt, LinkTypeOK
<1>7. LeavesSafely'
  BY DEF LeavesSafely, queueOf, LinkTypeOK, Places, Locks, SideOf
<1>8. UsesOwn'
  <2>1. CASE queueOf(t) \in connected
    <3>1. /\ using' = [using EXCEPT ![SideOf[t]] = entryOf(t)]
          /\ at' = [at EXCEPT ![t] = "busy"]
      BY <2>1
    <3>2. entryOf(t) # 0 /\ entryOf(t) \in IF t = "W" THEN wQueue ELSE rQueue
      BY <2>1 DEF queueOf, LinkTypeOK, Ids, Places
    <3> QED BY <3>1, <3>2 DEF UsesOwn, LinkTypeOK, SideOf
  <2>2. CASE queueOf(t) \notin connected
    <3>1. using' = using /\ \E l \in {"idle", "null"} : at' = [at EXCEPT ![t] = l]
      BY <2>2
    <3> QED BY <3>1 DEF UsesOwn
  <2> QED BY <2>1, <2>2
<1> QED BY <1>1, <1>2, <1>3, <1>4, <1>5, <1>6, <1>7, <1>8

(* A worker with a frame takes its mutex again.                            *)
LEMMA FinishLinkInv ==
  ASSUME LinkAssumption, LinkInv, NEW t \in {"W", "R"}, finish(t) PROVE LinkInv'
<1> USE DEF LinkInv, Leaving, Linking, Connecting, Working, Inside, Threads,
            finish, lock, go, entries, queueVars, entryOf
<1>1. LinkTypeOK'
  BY DEF LinkTypeOK
<1>2. Places'
  BY DEF Places
<1>3. Locks'
  BY DEF Locks, LinkTypeOK, SideOf
<1>4. Fresh'
  BY DEF Fresh
<1>5. OwnQueue' /\ Together' /\ Paired'
  BY DEF OwnQueue, Together, Paired
<1>6. Attempt'
  BY DEF Attempt
<1>7. LeavesSafely'
  BY DEF LeavesSafely, queueOf
<1>8. UsesOwn'
  BY DEF UsesOwn
<1> QED BY <1>1, <1>2, <1>3, <1>4, <1>5, <1>6, <1>7, <1>8

(* addFrame and removeFrame are done with the queue.                       *)
LEMMA FinishedLinkInv ==
  ASSUME LinkAssumption, LinkInv, NEW t \in {"W", "R"}, finished(t) PROVE LinkInv'
<1> USE DEF LinkInv, Leaving, Linking, Connecting, Working, Inside, Threads,
            finished, return, go, entries, queueVars
<1>1. LinkTypeOK'
  BY DEF LinkTypeOK, LinkAssumption, ConnectionAssumption, SideOf
<1>2. Places'
  BY DEF Places
<1>3. Locks'
  BY DEF Locks, LinkTypeOK, SideOf
<1>4. Fresh'
  BY DEF Fresh
<1>5. OwnQueue' /\ Together' /\ Paired'
  BY DEF OwnQueue, Together, Paired
<1>6. Attempt'
  BY DEF Attempt
<1>7. LeavesSafely'
  BY DEF LeavesSafely, queueOf
<1>8. UsesOwn'
  BY DEF UsesOwn, LinkTypeOK, SideOf
<1> QED BY <1>1, <1>2, <1>3, <1>4, <1>5, <1>6, <1>7, <1>8

(* Every step of the workers and of the control thread.                    *)
LEMMA NextLinkInv == ASSUME LinkAssumption PROVE LinkInv /\ [LinkNext]_linkVars => LinkInv'
<1> SUFFICES ASSUME LinkInv, [LinkNext]_linkVars PROVE LinkInv'
  OBVIOUS
<1>1. CASE LinkControl
  BY <1>1, ConnectLinkInv, GetReaderLinkInv, SetWriterLinkInv, SetReaderLinkInv,
     SetConnectionLinkInv, SetConnectedLinkInv, ConnectReturnLinkInv, DisconnectLinkInv,
     LeaveLinkInv, LeftLinkInv
     DEF LinkControl, Threads
<1>2. ASSUME NEW t \in {"W", "R"}, Worker(t) PROVE LinkInv'
  BY <1>2, DemandLinkInv, GetFrameLinkInv, FinishLinkInv, FinishedLinkInv, LeaveLinkInv,
     LeftLinkInv
     DEF Worker, Threads
<1>3. CASE UNCHANGED linkVars
  BY <1>3
     DEF linkVars, LinkInv, LinkTypeOK, Places, Locks, Fresh, OwnQueue, Attempt, Together,
         LeavesSafely, UsesOwn, Paired, queueOf
<1> QED BY <1>1, <1>2, <1>3 DEF LinkNext

(* All states of all behaviours.                                           *)
LEMMA LinkInvariance == ASSUME LinkAssumption PROVE LinkSpec => []LinkInv
<1>1. LinkInit => LinkInv
  BY InitLinkInv
<1>2. LinkInv /\ [LinkNext]_linkVars => LinkInv'
  BY NextLinkInv
<1> QED BY <1>1, <1>2, PTL DEF LinkSpec
-----------------------------------------------------------------------------
(* connect, demandDestinationFrames, processFrame: each mutex has at most  *)
(* one holder, and a thread that is inside holds it.                       *)
THEOREM MutexesHeld == ASSUME LinkAssumption PROVE LinkSpec => []Locks
<1>1. LinkInv => Locks
  BY DEF LinkInv
<1> QED BY <1>1, LinkInvariance, PTL

(* connect, disconnectWriter, disconnectReader, processFrame: nobody has a *)
(* pointer to a queue that was deleted, the flag is set only while both    *)
(* filters have their side, and a worker adds and removes the frame it was *)
(* given.                                                                  *)
THEOREM SidesAgree == ASSUME LinkAssumption PROVE LinkSpec => []LinkSound
<1>1. LinkInv => LinkSound
  <2> SUFFICES ASSUME LinkInv PROVE LinkSound
    OBVIOUS
  <2>1. LinkTypeOK /\ Paired
    BY DEF LinkInv
  <2>2. NoDangling
    BY DEF LinkInv, NoDangling, OwnQueue, UsesOwn, Attempt, Linking
  <2>3. OwnFrame
    BY DEF LinkInv, OwnFrame, UsesOwn, Working, SideOf, entryOf
  <2> QED BY <2>1, <2>2, <2>3 DEF LinkSound
<1> QED BY <1>1, LinkInvariance, PTL
-----------------------------------------------------------------------------
(* The frames that a filter takes from its readers.                        *)

(* No frame taken from a reader is older than what others have passed,     *)
(* less the margin.                                                        *)
Behind == sync => \A r, s \in inputs : taken[s] >= ahead[r] - SyncMargin

SyncInv == SyncTypeOK /\ Behind /\ RateBounded
-----------------------------------------------------------------------------
(* Some time of a set of times is the earliest, and some is the latest.    *)
LEMMA Earliest ==
  ASSUME NEW T, T \subseteq Nat, T # {}
  PROVE  Min(T) \in T /\ \A y \in T : Min(T) <= y
<1>1. PICK x \in T : \A y \in T : ~ (<<y, x>> \in OpToRel(<, Nat))
  BY NatLessThanWellFounded, WFMin
<1>2. ASSUME NEW y \in T PROVE x <= y
  <2>1. x \in Nat /\ y \in Nat
    OBVIOUS
  <2>2. <<y, x>> \in Nat \X Nat /\ <<y, x>>[1] = y /\ <<y, x>>[2] = x
    BY <2>1
  <2>3. ~(y < x)
    BY <1>1, <2>2, Zenon DEF OpToRel
  <2> QED BY <2>1, <2>3
<1> QED BY <1>2 DEF Min

LEMMA Latest ==
  ASSUME NEW n \in Nat, NEW T, T \subseteq 0 .. n, T # {}
  PROVE  Max(T) \in T /\ \A y \in T : Max(T) >= y
<1> DEFINE D == {n - x : x \in T}
<1>1. D \subseteq Nat /\ D # {}
  <2>1. \A x \in T : x \in 0 .. n /\ n - x \in Nat
    OBVIOUS
  <2> QED BY <2>1
<1>2. PICK d \in D : \A y \in D : d <= y
  BY <1>1, Earliest
<1>3. PICK x \in T : d = n - x
  OBVIOUS
<1>4. \A y \in T : x >= y
  <2> TAKE y \in T
  <2>1. n - y \in D
    OBVIOUS
  <2>2. n - x <= n - y /\ x \in Int /\ y \in Int
    BY <1>2, <1>3, <2>1
  <2> QED BY <2>2
<1> QED BY <1>4 DEF Max

(* The front frame of a queue is later than the one taken last, and the    *)
(* ones behind it are later still.                                         *)
LEMMA Front ==
  ASSUME SyncAssumption, SyncTypeOK, NEW r \in pending
  PROVE  /\ r \in Readers /\ inputQueue[r] \in Seq(Times) /\ inputQueue[r] # <<>>
         /\ getCurrentTime(r) \in Times /\ getCurrentTime(r) > taken[r]
         /\ getCurrentTime(r) = inputQueue[r][1]
         /\ Tail(inputQueue[r]) \in Seq(Times)
         /\ Len(Tail(inputQueue[r])) <= QueueSize
         /\ Increasing(Tail(inputQueue[r]))
         /\ \A i \in 1 .. Len(Tail(inputQueue[r])) :
              Tail(inputQueue[r])[i] \in getCurrentTime(r) + 1 .. last[r]
<1>1. /\ r \in Readers /\ inputQueue[r] \in Seq(Times) /\ inputQueue[r] # <<>>
      /\ last[r] \in Times /\ taken[r] \in Times /\ Len(inputQueue[r]) <= QueueSize
  BY DEF SyncTypeOK, pending
<1>2. /\ \A i \in 1 .. Len(inputQueue[r]) : inputQueue[r][i] \in taken[r] + 1 .. last[r]
      /\ \A i, j \in 1 .. Len(inputQueue[r]) :
           i < j => inputQueue[r][i] < inputQueue[r][j]
  BY <1>1 DEF SyncTypeOK, Increasing
<1> DEFINE q == inputQueue[r]
           t == Tail(q)
<1> HIDE DEF q
<1>3. q \in Seq(Times) /\ q # <<>>
  BY <1>1 DEF q
<1>4. /\ t \in Seq(Times) /\ Len(t) = Len(q) - 1 /\ Len(q) \in Nat \ {0}
      /\ \A i \in 1 .. Len(t) : t[i] = q[i + 1] /\ i + 1 \in 1 .. Len(q)
      /\ \A i \in 1 .. Len(q) : q[i] \in Times
      /\ Head(q) = q[1] /\ 1 \in 1 .. Len(q)
  BY <1>3
<1>5. Head(q) \in Times /\ Head(q) > taken[r]
  BY <1>1, <1>2, <1>4 DEF q, Times
<1>6. Len(t) <= QueueSize
  BY <1>1, <1>4 DEF q, SyncAssumption
<1>7. Increasing(t)
  <2>1. SUFFICES ASSUME NEW i \in 1 .. Len(t), NEW j \in 1 .. Len(t), i < j
                 PROVE  t[i] < t[j]
    BY DEF Increasing
  <2>2. q[i + 1] < q[j + 1]
    BY <1>2, <1>4, <2>1 DEF q
  <2> QED
    BY <1>4, <2>2
<1> HIDE DEF t
<1>8. ASSUME NEW i \in 1 .. Len(t) PROVE t[i] \in Head(q) + 1 .. last[r]
  <2>1. q[i + 1] \in taken[r] + 1 .. last[r] /\ q[1] < q[i + 1]
    BY <1>2, <1>4 DEF q
  <2> QED BY <1>1, <1>4, <2>1 DEF Times
<1> QED BY <1>1, <1>4, <1>5, <1>6, <1>7, <1>8 DEF q, t, getCurrentTime
-----------------------------------------------------------------------------
LEMMA InitSyncInv == ASSUME SyncAssumption PROVE SyncInit => SyncInv
<1> SUFFICES ASSUME SyncInit PROVE SyncInv
  OBVIOUS
<1>1. SyncTypeOK
  <2>1. 0 \in Times
    BY DEF SyncAssumption, Times
  <2>2. inputs \subseteq Readers /\ sync \in BOOLEAN
    BY DEF SyncInit
  <2>3. inputQueue \in [Readers -> Seq(Times)]
    BY DEF SyncInit
  <2> QED BY <2>1, <2>2, <2>3 DEF SyncInit, SyncTypeOK, Increasing, SyncAssumption
<1>2. Behind
  BY DEF SyncInit, Behind, SyncAssumption
<1>3. RateBounded
  BY DEF SyncInit, RateBounded, SyncAssumption
<1> QED BY <1>1, <1>2, <1>3 DEF SyncInv

(* A frame that comes is the latest of its reader, in a queue with room at *)
(* its end, in a full one in the place of the newest.                      *)
LEMMA AddFrameSyncInv ==
  ASSUME SyncAssumption, SyncInv, NEW r \in Readers, addFrameTo(r) PROVE SyncInv'
<1> USE DEF SyncInv, SyncAssumption
<1>1. PICK gap \in Gaps :
        /\ last[r] + gap <= MaxTime
        /\ last' = [last EXCEPT ![r] = last[r] + gap]
        /\ inputQueue' = [inputQueue EXCEPT ![r] =
             IF Len(@) < QueueSize THEN Append(@, last[r] + gap)
                                   ELSE [@ EXCEPT ![QueueSize] = last[r] + gap]]
  BY DEF addFrameTo
<1>2. /\ UNCHANGED <<inputs, sync, stage, wallClock, syncTs, passes, taken, ahead>>
  BY DEF addFrameTo
<1> DEFINE q == inputQueue[r]
           t == last[r] + gap
           n == IF Len(q) < QueueSize THEN Append(q, t) ELSE [q EXCEPT ![QueueSize] = t]
<1>3. /\ q \in Seq(Times) /\ Len(q) <= QueueSize /\ Len(q) \in Nat
      /\ last[r] \in Times /\ taken[r] \in Times /\ gap \in Nat \ {0}
      /\ \A i \in 1 .. Len(q) : q[i] \in Times
  BY DEF SyncTypeOK
<1>4. t \in Times /\ t > last[r]
  BY <1>1, <1>3 DEF Times
<1>5. \A i \in 1 .. Len(q) : q[i] \in taken[r] + 1 .. last[r]
  BY DEF SyncTypeOK
<1>6. \A i, j \in 1 .. Len(q) : i < j => q[i] < q[j]
  BY DEF SyncTypeOK, Increasing
<1>7. t > taken[r]
  <2>1. taken[r] <= last[r]
    BY DEF SyncTypeOK
  <2> QED BY <1>3, <1>4, <2>1 DEF Times
<1>8. last[r] \in Nat /\ taken[r] \in Nat /\ t \in Nat /\ Len(q) \in Nat
  BY <1>3, <1>4 DEF Times
<1> HIDE DEF q, t
<1>9. /\ n \in Seq(Times) /\ Len(n) <= QueueSize /\ Increasing(n)
      /\ \A i \in 1 .. Len(n) : n[i] \in taken[r] + 1 .. t
  <2>1. CASE Len(q) < QueueSize
    <3>1. /\ n = Append(q, t) /\ Len(n) = Len(q) + 1 /\ n \in Seq(Times)
          /\ \A i \in 1 .. Len(n) : n[i] = IF i = Len(q) + 1 THEN t ELSE q[i]
      <4>1. n = Append(q, t)
        BY <2>1 DEF n
      <4> HIDE DEF n
      <4> QED BY <1>3, <1>4, <4>1
    <3> HIDE DEF n
    <3>2. Len(n) <= QueueSize /\ n \in Seq(Times)
      BY <1>3, <3>1, <2>1
    <3>3. Increasing(n)
      <4> SUFFICES ASSUME NEW i \in 1 .. Len(n), NEW j \in 1 .. Len(n), i < j
                   PROVE  n[i] < n[j]
        BY DEF Increasing
      <4>1. i \in 1 .. Len(q) /\ n[i] = q[i]
        BY <1>3, <3>1
      <4>2. CASE j \in 1 .. Len(q)
        BY <1>3, <1>6, <3>1, <4>1, <4>2
      <4>3. CASE j = Len(q) + 1
        <5>1. n[j] = t /\ q[i] \in taken[r] + 1 .. last[r]
          BY <1>5, <3>1, <4>1, <4>3
        <5> QED BY <1>4, <1>8, <4>1, <5>1
      <4> QED BY <1>3, <3>1, <4>2, <4>3
    <3>4. ASSUME NEW i \in 1 .. Len(n) PROVE n[i] \in taken[r] + 1 .. t
      <4>1. n[i] = t \/ (i \in 1 .. Len(q) /\ n[i] = q[i])
        BY <1>3, <3>1
      <4> QED BY <1>4, <1>5, <1>7, <1>8, <4>1
    <3> QED BY <3>2, <3>3, <3>4
  <2>2. CASE Len(q) = QueueSize
    <3>1. /\ n = [q EXCEPT ![QueueSize] = t] /\ Len(n) = Len(q) /\ n \in Seq(Times)
          /\ \A i \in 1 .. Len(n) : n[i] = IF i = Len(q) THEN t ELSE q[i]
      <4>1. n = [q EXCEPT ![QueueSize] = t]
        BY <2>2 DEF n
      <4> HIDE DEF n
      <4> QED BY <1>3, <1>4, <2>2, <4>1
    <3> HIDE DEF n
    <3>2. Increasing(n)
      <4> SUFFICES ASSUME NEW i \in 1 .. Len(n), NEW j \in 1 .. Len(n), i < j
                   PROVE  n[i] < n[j]
        BY DEF Increasing
      <4>1. i \in 1 .. Len(q) /\ j \in 1 .. Len(q) /\ n[i] = q[i] /\ q[i] < q[j]
        <5>1. i \in 1 .. Len(q) /\ j \in 1 .. Len(q) /\ i # Len(q)
          <6>1. Len(n) = Len(q)
            BY <3>1
          <6> QED BY <1>8, <6>1
        <5> QED BY <1>6, <3>1, <5>1
      <4>2. q[i] < t
        BY <1>4, <1>5, <1>8, <4>1
      <4> QED BY <3>1, <4>1, <4>2
    <3>3. ASSUME NEW i \in 1 .. Len(n) PROVE n[i] \in taken[r] + 1 .. t
      <4>1. i \in 1 .. Len(q) /\ (n[i] = t \/ n[i] = q[i])
        BY <3>1
      <4> QED BY <1>4, <1>5, <1>7, <1>8, <4>1
    <3> QED BY <1>3, <2>2, <3>1, <3>2, <3>3
  <2> QED BY <1>3, <2>1, <2>2
<1> HIDE DEF n
<1>10. inputQueue' = [inputQueue EXCEPT ![r] = n] /\ last' = [last EXCEPT ![r] = t]
  BY <1>1 DEF n, q, t
<1>11. SyncTypeOK'
  <2>1. /\ inputQueue' \in [Readers -> Seq(Times)] /\ last' \in [Readers -> Times]
        /\ inputs' \subseteq Readers /\ sync' \in BOOLEAN /\ stage' \in {"idle", "decide"}
        /\ wallClock' \in Times /\ syncTs' \in Nat /\ passes' \in Nat
        /\ taken' \in [Readers -> Times] /\ ahead' \in [Readers -> Times]
    BY <1>2, <1>4, <1>9, <1>10 DEF SyncTypeOK
  <2>2. ASSUME NEW x \in Readers
        PROVE  /\ taken'[x] <= last'[x] /\ Len(inputQueue'[x]) <= QueueSize
               /\ Increasing(inputQueue'[x])
               /\ \A i \in 1 .. Len(inputQueue'[x]) :
                    inputQueue'[x][i] \in taken'[x] + 1 .. last'[x]
    <3>1. CASE x = r
      <4>1. inputQueue'[x] = n /\ last'[x] = t /\ taken'[x] = taken[r]
        BY <1>2, <1>10, <3>1 DEF SyncTypeOK
      <4> QED BY <1>3, <1>4, <1>7, <1>9, <4>1 DEF Times
    <3>2. CASE x # r
      <4>1. inputQueue'[x] = inputQueue[x] /\ last'[x] = last[x] /\ taken'[x] = taken[x]
        BY <1>2, <1>10, <3>2 DEF SyncTypeOK
      <4> QED BY <4>1 DEF SyncTypeOK
    <3> QED BY <3>1, <3>2
  <2> QED BY <2>1, <2>2 DEF SyncTypeOK, Increasing
<1>12. Behind' /\ RateBounded'
  BY <1>2 DEF Behind, RateBounded
<1> QED BY <1>11, <1>12

(* Taking the front frames of some readers keeps every queue in order and  *)
(* later than what was taken.                                              *)
LEMMA RemovedInOrder ==
  ASSUME SyncAssumption, SyncTypeOK, NEW S, S \subseteq pending, remove(S), UNCHANGED last
  PROVE  /\ inputQueue' \in [Readers -> Seq(Times)] /\ taken' \in [Readers -> Times]
         /\ \A r \in Readers :
              /\ taken'[r] = IF r \in S THEN getCurrentTime(r) ELSE taken[r]
              /\ taken'[r] >= taken[r] /\ taken'[r] <= last'[r]
              /\ Len(inputQueue'[r]) <= QueueSize
              /\ \A i, j \in 1 .. Len(inputQueue'[r]) :
                   i < j => inputQueue'[r][i] < inputQueue'[r][j]
              /\ \A i \in 1 .. Len(inputQueue'[r]) :
                   inputQueue'[r][i] \in taken'[r] + 1 .. last'[r]
<1>1. /\ inputQueue' = [r \in Readers |-> IF r \in S THEN Tail(inputQueue[r]) ELSE inputQueue[r]]
      /\ taken' = [r \in Readers |-> IF r \in S THEN getCurrentTime(r) ELSE taken[r]]
  BY DEF remove
<1>2. ASSUME NEW r \in S
      PROVE  /\ r \in Readers /\ getCurrentTime(r) \in Times /\ getCurrentTime(r) > taken[r]
             /\ getCurrentTime(r) <= last[r]
             /\ Tail(inputQueue[r]) \in Seq(Times)
             /\ Len(Tail(inputQueue[r])) <= QueueSize
             /\ Increasing(Tail(inputQueue[r]))
             /\ \A i \in 1 .. Len(Tail(inputQueue[r])) :
                  Tail(inputQueue[r])[i] \in getCurrentTime(r) + 1 .. last[r]
  <2>1. r \in pending /\ r \in Readers
    BY DEF pending, SyncTypeOK
  <2>2. /\ inputQueue[r] \in Seq(Times) /\ inputQueue[r] # <<>>
        /\ getCurrentTime(r) = inputQueue[r][1]
    BY <2>1, Front
  <2>3. 1 \in 1 .. Len(inputQueue[r])
    BY <2>2
  <2>4. inputQueue[r][1] \in taken[r] + 1 .. last[r]
    BY <2>1, <2>3 DEF SyncTypeOK
  <2>5. getCurrentTime(r) <= last[r]
    BY <2>1, <2>2, <2>4 DEF SyncTypeOK, Times
  <2> QED BY <2>1, <2>5, Front
<1>3. inputQueue' \in [Readers -> Seq(Times)] /\ taken' \in [Readers -> Times]
  BY <1>1, <1>2 DEF SyncTypeOK
<1>4. ASSUME NEW r \in Readers
      PROVE  /\ taken'[r] = IF r \in S THEN getCurrentTime(r) ELSE taken[r]
             /\ taken'[r] >= taken[r] /\ taken'[r] <= last'[r]
             /\ Len(inputQueue'[r]) <= QueueSize
             /\ \A i, j \in 1 .. Len(inputQueue'[r]) :
                  i < j => inputQueue'[r][i] < inputQueue'[r][j]
             /\ \A i \in 1 .. Len(inputQueue'[r]) :
                  inputQueue'[r][i] \in taken'[r] + 1 .. last'[r]
  <2>1. last' = last /\ taken[r] \in Nat /\ last[r] \in Nat
    BY DEF SyncTypeOK, Times
  <2>2. CASE r \in S
    <3>1. inputQueue'[r] = Tail(inputQueue[r]) /\ taken'[r] = getCurrentTime(r)
      BY <1>1, <2>2
    <3>2. taken'[r] >= taken[r] /\ taken'[r] <= last'[r]
      BY <1>2, <2>1, <2>2, <3>1 DEF Times
    <3> QED BY <1>2, <2>1, <2>2, <3>1, <3>2 DEF Increasing
  <2>3. CASE r \notin S
    <3>1. inputQueue'[r] = inputQueue[r] /\ taken'[r] = taken[r]
      BY <1>1, <2>3
    <3> QED BY <2>1, <2>3, <3>1 DEF SyncTypeOK, Increasing
  <2> QED BY <2>2, <2>3
<1> QED BY <1>3, <1>4

LEMMA ReadClockSyncInv == ASSUME SyncAssumption, SyncInv, readClock PROVE SyncInv'
<1> USE DEF SyncInv
<1>1. wallClock' \in Times
  <2> DEFINE T == {getCurrentTime(r) : r \in pending}
  <2>1. T \subseteq 0 .. MaxTime /\ T # {} /\ MaxTime \in Nat
    BY Front DEF readClock, SyncAssumption, Times
  <2> HIDE DEF T
  <2>2. Max(T) \in T
    BY <2>1, Latest
  <2>3. wallClock' = Max(T)
    BY DEF readClock, T
  <2> QED BY <2>1, <2>2, <2>3 DEF Times
<1>2. SyncTypeOK'
  BY <1>1 DEF readClock, SyncTypeOK
<1>3. Behind' /\ RateBounded'
  BY DEF readClock, Behind, RateBounded
<1> QED BY <1>2, <1>3

(* framesSync: if a frame is passed that neither fills its queue nor is    *)
(* late, every reader has one, and none of them is late.                   *)
LEMMA InMargin ==
  ASSUME SyncAssumption, SyncTypeOK, NEW r \in framesSync, ~isFull(r),
         getCurrentTime(r) \in wallClock - SyncMargin .. wallClock
  PROVE  framesSync = inputs /\ inputs = pending /\ framesToPass = {}
<1>1. r \notin framesToPass
  <2>1. wallClock \in Int /\ SyncMargin \in Int
    BY DEF SyncTypeOK, Times, SyncAssumption
  <2> QED BY <2>1 DEF framesToPass
<1> QED BY <1>1 DEF framesSync

LEMMA BestEffortSyncInv ==
  ASSUME SyncAssumption, SyncInv, demandOriginFramesBestEffort PROVE SyncInv'
<1> USE DEF SyncInv, demandOriginFramesBestEffort
<1>1. framesSync \subseteq pending
  BY DEF framesSync, framesToPass
<1>2. /\ inputQueue' \in [Readers -> Seq(Times)] /\ taken' \in [Readers -> Times]
      /\ \A r \in Readers :
           /\ taken'[r] = IF r \in framesSync THEN getCurrentTime(r) ELSE taken[r]
           /\ taken'[r] >= taken[r] /\ taken'[r] <= last'[r]
           /\ Len(inputQueue'[r]) <= QueueSize
           /\ \A i, j \in 1 .. Len(inputQueue'[r]) :
                i < j => inputQueue'[r][i] < inputQueue'[r][j]
           /\ \A i \in 1 .. Len(inputQueue'[r]) :
                inputQueue'[r][i] \in taken'[r] + 1 .. last'[r]
  BY <1>1, RemovedInOrder
<1>3. \A r \in framesSync : r \in Readers /\ getCurrentTime(r) \in Times
  BY <1>1, Front
<1>4. ahead' \in [Readers -> Times]
  BY <1>3 DEF SyncTypeOK
<1>5. passes' \in Nat /\ stage' = "idle" /\ UNCHANGED <<inputs, sync, last, wallClock, syncTs>>
  BY DEF SyncTypeOK
<1>6. SyncTypeOK'
  BY <1>2, <1>4, <1>5 DEF SyncTypeOK, Increasing
<1>7. Behind'
  <2> SUFFICES ASSUME NEW r \in inputs, NEW s \in inputs
               PROVE  taken'[s] >= ahead'[r] - SyncMargin
    BY <1>5 DEF Behind
  <2>1. /\ r \in Readers /\ s \in Readers /\ SyncMargin \in Nat /\ wallClock \in Nat
        /\ ahead[r] \in Nat /\ taken[s] \in Nat /\ taken'[s] \in Nat
    BY <1>2 DEF SyncTypeOK, Times, SyncAssumption
  <2>2. CASE /\ r \in framesSync /\ ~isFull(r)
             /\ getCurrentTime(r) \in wallClock - SyncMargin .. wallClock
    <3>1. s \in framesSync /\ s \in pending /\ s \notin framesToPass
      BY <2>2, InMargin
    <3>2. wallClock - SyncMargin <= getCurrentTime(s) /\ taken'[s] = getCurrentTime(s)
      BY <1>2, <1>3, <2>1, <3>1 DEF framesToPass, Times
    <3>3. ahead'[r] = getCurrentTime(r)
      BY <2>1, <2>2
    <3> QED BY <2>1, <2>2, <3>2, <3>3
  <2>3. CASE ~(/\ r \in framesSync /\ ~isFull(r)
               /\ getCurrentTime(r) \in wallClock - SyncMargin .. wallClock)
    <3>1. ahead'[r] = ahead[r]
      BY <2>1, <2>3
    <3>2. taken[s] >= ahead[r] - SyncMargin /\ taken'[s] >= taken[s]
      BY <1>2, <2>1 DEF Behind
    <3> QED BY <2>1, <3>1, <3>2
  <2> QED BY <2>2, <2>3
<1>9. RateBounded'
  BY <1>5 DEF RateBounded
<1> QED BY <1>6, <1>7, <1>9

(* demandOriginFramesFrameTime: the clock moves one frame time on, stays,  *)
(* or jumps over at least one to the earliest of the frames.               *)
LEMMA Clock ==
  ASSUME SyncAssumption, SyncTypeOK, pending # {}
  PROVE  /\ nextSyncTs \in Nat /\ nextSyncTs >= syncTs
         /\ valid => nextSyncTs >= syncTs + FrameTime
         /\ ~valid => nextSyncTs = syncTs
<1>1. syncTs \in Nat /\ FrameTime \in Nat \ {0}
  BY DEF SyncTypeOK, SyncAssumption
<1>2. \A r \in pending : getCurrentTime(r) \in Nat
  BY Front DEF Times
<1>3. CASE \E r \in pending : inScope(r)
  BY <1>1, <1>3 DEF nextSyncTs, valid
<1>4. CASE ~(\E r \in pending : inScope(r)) /\ \E r \in pending : outDated(r)
  BY <1>1, <1>4 DEF nextSyncTs, valid
<1>5. CASE \A r \in pending : ~inScope(r) /\ ~outDated(r)
  <2> DEFINE T == {getCurrentTime(r) : r \in pending}
  <2>1. T \subseteq Nat /\ T # {}
    BY <1>2
  <2>2. \A x \in T : x > syncTs + FrameTime
    BY <1>1, <1>2, <1>5 DEF inScope, outDated
  <2>3. nextSyncTs = Min(T)
    BY <1>5 DEF nextSyncTs
  <2> HIDE DEF T
  <2>4. Min(T) \in T
    BY <2>1, Earliest
  <2>5. valid
    BY <1>5 DEF valid
  <2>6. /\ nextSyncTs \in Nat /\ nextSyncTs >= syncTs
        /\ nextSyncTs >= syncTs + FrameTime
    <3>1. nextSyncTs \in T
      BY <2>3, <2>4
    <3>2. nextSyncTs \in Nat /\ nextSyncTs > syncTs + FrameTime
      BY <2>1, <2>2, <3>1
    <3> QED BY <1>1, <3>2
  <2> QED BY <2>5, <2>6
<1> QED BY <1>3, <1>4, <1>5

LEMMA FrameTimeSyncInv ==
  ASSUME SyncAssumption, SyncInv, demandOriginFramesFrameTime PROVE SyncInv'
<1> USE DEF SyncInv, demandOriginFramesFrameTime
<1>1. /\ inputQueue' \in [Readers -> Seq(Times)] /\ taken' \in [Readers -> Times]
      /\ \A r \in Readers :
           /\ taken'[r] = IF r \in pending THEN getCurrentTime(r) ELSE taken[r]
           /\ taken'[r] >= taken[r] /\ taken'[r] <= last'[r]
           /\ Len(inputQueue'[r]) <= QueueSize
           /\ \A i, j \in 1 .. Len(inputQueue'[r]) :
                i < j => inputQueue'[r][i] < inputQueue'[r][j]
           /\ \A i \in 1 .. Len(inputQueue'[r]) :
                inputQueue'[r][i] \in taken'[r] + 1 .. last'[r]
  BY RemovedInOrder
<1>2. passes' \in Nat /\ UNCHANGED <<inputs, sync, last, stage, wallClock, ahead>>
  BY DEF SyncTypeOK
<1>3. syncTs' \in Nat
  BY Clock
<1>4. SyncTypeOK'
  BY <1>1, <1>2, <1>3 DEF SyncTypeOK, Increasing
<1>5. Behind'
  BY <1>2 DEF Behind
<1>6. RateBounded'
  <2>1. /\ passes * FrameTime <= syncTs /\ passes \in Nat /\ syncTs \in Nat
        /\ FrameTime \in Nat /\ syncTs' = nextSyncTs
    BY DEF RateBounded, SyncTypeOK, SyncAssumption
  <2>2. CASE valid
    <3>1. passes' = passes + 1 /\ syncTs' >= syncTs + FrameTime
      BY <2>1, <2>2, Clock
    <3>2. (passes + 1) * FrameTime = passes * FrameTime + FrameTime
      BY <2>1
    <3>3. passes * FrameTime \in Nat
      BY <2>1
    <3> QED BY <1>3, <2>1, <3>1, <3>2, <3>3 DEF RateBounded
  <2>3. CASE ~valid
    <3>1. passes' = passes /\ syncTs' = syncTs
      BY <2>1, <2>3, Clock
    <3> QED BY <2>1, <3>1 DEF RateBounded
  <2> QED BY <2>2, <2>3
<1> QED BY <1>4, <1>5, <1>6

LEMMA NextSyncInv == ASSUME SyncAssumption PROVE SyncInv /\ [SyncNext]_syncVars => SyncInv'
<1> SUFFICES ASSUME SyncInv, [SyncNext]_syncVars PROVE SyncInv'
  OBVIOUS
<1>1. CASE Source
  BY <1>1, AddFrameSyncInv DEF Source
<1>2. CASE SyncFilter
  BY <1>2, ReadClockSyncInv, BestEffortSyncInv, FrameTimeSyncInv DEF SyncFilter
<1>3. CASE UNCHANGED syncVars
  BY <1>3 DEF syncVars, SyncInv, SyncTypeOK, Behind, RateBounded, Increasing
<1> QED BY <1>1, <1>2, <1>3 DEF SyncNext

LEMMA SyncInvariance == ASSUME SyncAssumption PROVE SyncSpec => []SyncInv
<1>1. SyncInit => SyncInv
  BY InitSyncInv
<1>2. SyncInv /\ [SyncNext]_syncVars => SyncInv'
  BY NextSyncInv
<1> QED BY <1>1, <1>2, PTL DEF SyncSpec
-----------------------------------------------------------------------------
(* framesSync, demandOriginFramesFrameTime: whatever the times of the      *)
(* frames, synchronised readers stay within the margin, and a filter with  *)
(* a frame rate passes no more frames than its rate allows.                *)
THEOREM ReadersInStep == ASSUME SyncAssumption PROVE SyncSpec => []InStep
<1>1. SyncInv => InStep
  <2> SUFFICES ASSUME SyncInv PROVE InStep
    OBVIOUS
  <2>1. SyncTypeOK /\ RateBounded
    BY DEF SyncInv
  <2>2. WithinMargin
    <3> SUFFICES ASSUME sync, NEW r \in inputs, NEW s \in pending
                 PROVE  getCurrentTime(s) >= ahead[r] - SyncMargin
      BY DEF WithinMargin
    <3>1. getCurrentTime(s) \in Times /\ getCurrentTime(s) > taken[s]
      BY <2>1, Front
    <3>2. /\ s \in inputs /\ taken[s] \in Times /\ ahead[r] \in Times
          /\ SyncMargin \in Nat /\ Times \subseteq Nat
      BY <2>1 DEF SyncAssumption, SyncTypeOK, Times, pending
    <3>3. taken[s] >= ahead[r] - SyncMargin
      BY <3>2 DEF SyncInv, Behind
    <3>4. taken[s] \in Nat /\ ahead[r] \in Nat /\ getCurrentTime(s) \in Nat
      BY <3>1, <3>2
    <3> QED BY <3>1, <3>2, <3>3, <3>4
  <2> QED BY <2>1, <2>2 DEF InStep
<1> QED BY <1>1, SyncInvariance, PTL
-----------------------------------------------------------------------------
(* A filter with a frame rate has one reader, unless it is Mixed.          *)
OneReader == ~sync => \E r \in Readers : inputs = {r}

LEMMA OneReaderKept ==
  ASSUME SyncAssumption, ~Mixed PROVE SyncSpec => []OneReader
<1>1. SyncInit => OneReader
  <2> SUFFICES ASSUME SyncInit, ~sync PROVE \E r \in Readers : inputs = {r}
    BY DEF OneReader
  <2>1. inputs \subseteq Readers /\ Cardinality(inputs) = 1
    BY DEF SyncInit
  <2>2. IsFiniteSet(inputs)
    BY <2>1, FS_Subset DEF SyncAssumption
  <2> QED BY <2>1, <2>2, FS_Singleton
<1>2. OneReader /\ [SyncNext]_syncVars => OneReader'
  BY DEF OneReader, SyncNext, Source, SyncFilter, addFrameTo, readClock,
         demandOriginFramesBestEffort, demandOriginFramesFrameTime, syncVars
<1> QED BY <1>1, <1>2, PTL DEF SyncSpec

(* demandOriginFramesFrameTime: the one reader of a filter with a frame    *)
(* rate loses a frame only when it is late, and has none passed before its *)
(* time.                                                                   *)
THEOREM FramesInScope == ASSUME SyncAssumption, ~Mixed PROVE SyncSpec => InScope
<1> DEFINE Kept == ~sync => \A r \in inputs : taken'[r] # taken[r] =>
                     /\ taken'[r] <= syncTs'
                     /\ passes' = passes => taken'[r] < syncTs
<1>1. SyncInv /\ OneReader /\ [SyncNext]_syncVars => [Kept]_syncVars
  <2> SUFFICES ASSUME SyncInv, OneReader, SyncNext, ~sync, NEW r \in inputs,
                      taken'[r] # taken[r]
               PROVE  taken'[r] <= syncTs' /\ (passes' = passes => taken'[r] < syncTs)
    OBVIOUS
  <2>1. demandOriginFramesFrameTime
    BY DEF SyncNext, Source, SyncFilter, addFrameTo, readClock, demandOriginFramesBestEffort
  <2>2. r \in Readers /\ inputs = {r}
    BY DEF OneReader
  <2>3. r \in pending /\ pending = {r} /\ taken'[r] = getCurrentTime(r)
    BY <2>1, <2>2 DEF demandOriginFramesFrameTime, remove, pending
  <2>4. /\ getCurrentTime(r) \in Nat /\ syncTs \in Nat /\ FrameTime \in Nat /\ passes \in Nat
        /\ syncTs' = nextSyncTs /\ passes' = IF valid THEN passes + 1 ELSE passes
    BY <2>1, <2>3, Front
       DEF SyncInv, SyncTypeOK, Times, SyncAssumption, demandOriginFramesFrameTime
  <2>5. CASE inScope(r)
    BY <2>3, <2>4, <2>5 DEF nextSyncTs, valid, inScope
  <2>6. CASE outDated(r)
    BY <2>3, <2>4, <2>6 DEF nextSyncTs, valid, inScope, outDated
  <2>7. CASE ~inScope(r) /\ ~outDated(r)
    <3>1. valid /\ nextSyncTs = Min({getCurrentTime(r)})
      <4>1. {getCurrentTime(x) : x \in pending} = {getCurrentTime(r)}
        BY <2>3
      <4> QED BY <2>3, <2>7, <4>1 DEF nextSyncTs, valid
    <3>2. Min({getCurrentTime(r)}) \in {getCurrentTime(r)}
      BY <2>4, Earliest
    <3> QED BY <2>3, <2>4, <3>1, <3>2
  <2> QED BY <2>5, <2>6, <2>7
<1>2. SyncSpec => [][Kept]_syncVars
  BY <1>1, SyncInvariance, OneReaderKept, PTL DEF SyncSpec
<1> QED BY <1>2 DEF InScope
=============================================================================
