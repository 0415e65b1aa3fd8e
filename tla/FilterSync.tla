----------------------------- MODULE FilterSync -----------------------------
(***************************************************************************)
(* Which frames a filter takes from its readers each time it runs          *)
(* (Filter.cpp): framesSync and demandOriginFramesBestEffort for the tail  *)
(* filters, which hold an input back while another is behind, and          *)
(* demandOriginFramesFrameTime for the filters with a frame rate, which    *)
(* drop frames that are late for it.  Tail filters have no frame rate, the *)
(* others do not synchronise.                                              *)
(*                                                                         *)
(* A frame is its time.  The filter finds the newest front frame in one    *)
(* pass over its readers and decides in a second one; producers add frames *)
(* in between, since a queue has no lock.                                  *)
(***************************************************************************)
EXTENDS Integers, Sequences, FiniteSetsExt

CONSTANTS
  Readers,
  QueueSize,   \* frames a queue holds
  FullAt,      \* frames from which isFull() holds; more than QueueSize if never
  SyncMargin,
  FrameTime,
  Mixed,       \* whether a filter with a frame rate has more than one reader
  Gaps,        \* time between two frames of a source
  MaxTime      \* bound: time of the last frame

SyncAssumption ==
  /\ IsFiniteSet(Readers) /\ QueueSize \in Nat /\ QueueSize >= 2 /\ FullAt \in Nat \ {0}
  /\ SyncMargin \in Nat /\ FrameTime \in Nat \ {0} /\ Mixed \in BOOLEAN
  /\ Gaps \subseteq Nat \ {0} /\ MaxTime \in Nat

VARIABLES
  inputs,     \* readers of the filter
  sync,       \* the filter synchronises them (otherwise it has a frame rate)
  inputQueue, \* of each reader: times of the frames in it
  last,       \* of each source: time of its newest frame
  stage,      \* "idle", or "decide" between the two passes of framesSync
  wallClock,
  syncTs,
  passes,     \* history: times frames were passed to doProcessFrame
  taken,      \* history: time of the newest frame taken from each reader
  ahead       \* history: newest frame passed of each reader that was neither
              \* full nor late, and that the first pass had seen

syncVars == <<inputs, sync, inputQueue, last, stage, wallClock, syncTs, passes, taken, ahead>>

SyncInit ==
  /\ \/ sync = TRUE /\ inputs = Readers
     \/ /\ sync = FALSE
        /\ inputs \in (SUBSET Readers) \ {{}}
        /\ Mixed \/ Cardinality(inputs) = 1
  /\ inputQueue = [r \in Readers |-> <<>>] /\ last = [r \in Readers |-> 0]
  /\ stage = "idle" /\ wallClock = 0 /\ syncTs = 0
  /\ passes = 0
  /\ taken = [r \in Readers |-> 0] /\ ahead = [r \in Readers |-> 0]
-----------------------------------------------------------------------------
isFull(r) == Len(inputQueue[r]) >= FullAt

getCurrentTime(r) == Head(inputQueue[r])

pending == {r \in inputs : inputQueue[r] # <<>>}

(* A frame that finds no room takes the place of the newest one.           *)
addFrameTo(r) ==
  /\ r \in inputs
  /\ \E gap \in Gaps :
       /\ last[r] + gap <= MaxTime
       /\ last' = [last EXCEPT ![r] = last[r] + gap]
       /\ inputQueue' = [inputQueue EXCEPT ![r] =
            IF Len(@) < QueueSize THEN Append(@, last[r] + gap)
                                  ELSE [@ EXCEPT ![QueueSize] = last[r] + gap]]
  /\ UNCHANGED <<inputs, sync, stage, wallClock, syncTs, passes, taken, ahead>>

(* removeFrames for the frames of readers S.                               *)
remove(S) ==
  /\ inputQueue' = [r \in Readers |-> IF r \in S THEN Tail(inputQueue[r]) ELSE inputQueue[r]]
  /\ taken' = [r \in Readers |-> IF r \in S THEN getCurrentTime(r) ELSE taken[r]]

(* The first pass of framesSync.                                           *)
readClock ==
  /\ sync /\ stage = "idle" /\ pending # {}
  /\ wallClock' = Max({getCurrentTime(r) : r \in pending})
  /\ stage' = "decide"
  /\ UNCHANGED <<inputs, sync, inputQueue, last, syncTs, passes, taken, ahead>>

(* Mutant of framesToPass: a full queue has to wait as well.               *)
framesToPassLate == {r \in pending : wallClock - SyncMargin > getCurrentTime(r)}

(* Mutant of framesToPass: one empty queue does not hold the others back.  *)
framesToPassAny ==
  {r \in pending : isFull(r) \/ wallClock - SyncMargin <= getCurrentTime(r)}

framesToPass ==
  {r \in pending : isFull(r) \/ wallClock - SyncMargin > getCurrentTime(r)}

(* The readers whose frames pass: full or late ones; if there are none and *)
(* all queues have a frame, all of them.                                   *)
framesSync ==
  IF pending # inputs \/ framesToPass # {} THEN framesToPass ELSE inputs

demandOriginFramesBestEffort ==
  /\ sync /\ stage = "decide"
  /\ remove(framesSync)
  /\ passes' = IF framesSync = {} THEN passes ELSE passes + 1
  /\ ahead' = [r \in Readers |->
       IF /\ r \in framesSync /\ ~isFull(r)
          /\ getCurrentTime(r) \in wallClock - SyncMargin .. wallClock
         THEN getCurrentTime(r) ELSE ahead[r]]
  /\ stage' = "idle"
  /\ UNCHANGED <<inputs, sync, last, wallClock, syncTs>>

inScope(r) == getCurrentTime(r) >= syncTs /\ getCurrentTime(r) <= syncTs + FrameTime

outDated(r) == getCurrentTime(r) < syncTs

(* Mutant of nextSyncTs: a frame ahead of the clock does not move it.      *)
nextSyncTsNoJump ==
  IF \E r \in pending : inScope(r) THEN syncTs + FrameTime ELSE syncTs

(* The clock moves one frame on, or up to the frames if all are ahead.     *)
nextSyncTs ==
  IF \E r \in pending : inScope(r) THEN syncTs + FrameTime
  ELSE IF \E r \in pending : outDated(r) THEN syncTs
  ELSE Min({getCurrentTime(r) : r \in pending})

(* Whether the frames are passed on, and not just removed.                 *)
valid == (\E r \in pending : inScope(r)) \/ \A r \in pending : ~outDated(r)

demandOriginFramesFrameTime ==
  /\ ~sync /\ pending # {}
  /\ syncTs' = nextSyncTs
  /\ passes' = IF valid THEN passes + 1 ELSE passes
  /\ remove(pending)
  /\ UNCHANGED <<inputs, sync, last, stage, wallClock, ahead>>
-----------------------------------------------------------------------------
Source == \E r \in Readers : addFrameTo(r)

SyncFilter == readClock \/ demandOriginFramesBestEffort \/ demandOriginFramesFrameTime

SyncNext == Source \/ SyncFilter

SyncSpec == SyncInit /\ [][SyncNext]_syncVars

(* A filter with frames in its queues is queued in the pool of threads and *)
(* every queued filter is run (NoLostJob and QueuedIsRun of WorkersPool).  *)
SyncFairSpec == SyncSpec /\ WF_syncVars(SyncFilter)
-----------------------------------------------------------------------------
Times == 0..MaxTime

Increasing(s) == \A i, j \in 1..Len(s) : i < j => s[i] < s[j]

(* The frames of a queue are in order and later than the one taken last.   *)
SyncTypeOK ==
  /\ inputs \subseteq Readers /\ sync \in BOOLEAN /\ stage \in {"idle", "decide"}
  /\ wallClock \in Times /\ syncTs \in Nat /\ passes \in Nat
  /\ inputQueue \in [Readers -> Seq(Times)] /\ last \in [Readers -> Times]
  /\ taken \in [Readers -> Times] /\ ahead \in [Readers -> Times]
  /\ \A r \in Readers :
       /\ taken[r] <= last[r]
       /\ Len(inputQueue[r]) <= QueueSize /\ Increasing(inputQueue[r])
       /\ \A i \in 1..Len(inputQueue[r]) : inputQueue[r][i] \in taken[r] + 1..last[r]

(* Of two synchronised readers, one whose frame waited for the other gets  *)
(* no further ahead than the margin: no frame of the other that is still   *)
(* to be passed is older than that.                                        *)
WithinMargin ==
  sync => \A r, s \in inputs :
            s \in pending => getCurrentTime(s) >= ahead[r] - SyncMargin

late(r) == \E s \in pending : getCurrentTime(s) - SyncMargin > getCurrentTime(r)

(* framesSync: a reader whose queue is full, or that is behind another by  *)
(* more than the margin, does not stay so: its frames are passed on.       *)
Progress ==
  \A r \in Readers :
    (sync /\ r \in pending /\ (isFull(r) \/ late(r)))
      ~> (r \notin pending \/ (~isFull(r) /\ ~late(r)))

(* A filter with a frame rate never passes more frames than its rate allows *)
(* for the time that it has covered.                                       *)
RateBounded == ~sync => passes * FrameTime <= syncTs

(* framesSync, demandOriginFramesFrameTime: the readers stay within the    *)
(* margin; with a frame rate, no more frames are passed than it allows.    *)
InStep == SyncTypeOK /\ WithinMargin /\ RateBounded

(* demandOriginFramesFrameTime: a frame is only dropped when it is late    *)
(* for its time, and never passed before it.                               *)
InScope ==
  [][~sync => \A r \in inputs : taken'[r] # taken[r] =>
       /\ taken'[r] <= syncTs'
       /\ passes' = passes => taken'[r] < syncTs]_syncVars
=============================================================================
