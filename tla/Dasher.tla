------------------------------- MODULE Dasher -------------------------------
(***************************************************************************)
(* The DASH output (Dasher.cpp with its segmenters and i2libdash.c), with  *)
(* its MPD, and the encoders before it (VideoEncoderX264or5.cpp).          *)
(* Each reader of the filter is a representation.  Its segmenter collects  *)
(* frames into segments that start with an intra frame.  When each video   *)
(* representation has a complete segment they are written, all under the   *)
(* time of the first one, the audio so far is made into segments too, and  *)
(* the MPD lists the last maxSeg times.  If the video segments do not end  *)
(* at the same frame, the encoders are told when to start the next group.  *)
(*                                                                         *)
(* Times count frames from the first one.  A frame stands for all its NAL  *)
(* units.  Readers come and go, and the depth of the MPD is changed,       *)
(* between two runs of the filter only.                                    *)
(***************************************************************************)
EXTENDS MpdManager, SequencesExt

CONSTANTS
  Video, Audio, \* representations, numbers: the order of the maps
  First,        \* those that are there from the start
  SegDur,       \* of a segment
  GopTime,      \* between the intra frames of an encoder
  Depths,       \* segments that the MPD may be configured to list
  MayShrink,    \* whether it may be configured to list less than before
  SyncMargin,   \* of framesSync
  Lag,          \* bound: frames in a queue, less than make it full
  MaxTime,      \* bound: time of the last frame
  MaxTroubles   \* bound: readers added and deleted, depths changed, files
                \* not written

DasherAssumption ==
  /\ Video \cup Audio \subseteq Nat \ {0} /\ Video \cap Audio = {}
  /\ First \subseteq Video \cup Audio
  /\ Depths \cup {SegDur, GopTime, Lag} \subseteq Nat \ {0} /\ SyncMargin \in Nat
  /\ {MaxTime, MaxTroubles} \subseteq Nat

VARIABLES
  readers,
  next, refTime, \* of each source: time of its next frame, and of the next
                 \* intra frame if it is an encoder
  queue,         \* of each reader
  pc, batch,     \* step of doProcessFrame; readers whose frame is to be managed
  tmpFrame,      \* of each video segmenter: the frame being put together
  ctx,           \* of each segmenter: first and last frame and duration
  seg,           \* of each representation: its segment
  mpd,           \* the MPD on disk
  files,         \* the segments on disk
  changes, failures,
  since,         \* history: time of the first file of each representation
  settled        \* history: video writes since the last change or failure

vars == <<readers, next, refTime, queue, pc, batch, tmpFrame, ctx, seg, mpdVars,
          mpd, files, changes, failures, since, settled>>

sources == <<next, refTime, queue>>
disk == <<mpd, files, failures, since, settled>>

Reps == Video \cup Audio
NoTime == -1
NoFrame == [t |-> NoTime, intra |-> FALSE]
NoSample == [first |-> NoTime, last |-> NoTime, dur |-> 0]
NoSegment == [complete |-> FALSE, ts |-> 0, dur |-> 0, last |-> 0]

Init ==
  /\ readers = First
  /\ next = [r \in Reps |-> 0] /\ refTime = [r \in Reps |-> NoTime]
  /\ queue = [r \in Reps |-> <<>>]
  /\ pc = "idle" /\ batch = {}
  /\ tmpFrame = [r \in Reps |-> NoFrame] /\ ctx = [r \in Reps |-> NoSample]
  /\ seg = [r \in Reps |-> NoSegment]
  /\ \E n \in Depths : MpdInit(n)
  /\ mpd = toMpd(adaptationSets) /\ files = {}
  /\ changes = 0 /\ failures = 0
  /\ since = [r \in Reps |-> NoTime] /\ settled = 0
-----------------------------------------------------------------------------
(* The sources.  An encoder makes the frame at its reference time, or the  *)
(* first one after it, an intra frame, and moves the time by one group.    *)
encode(r) ==
  LET ref == IF refTime[r] = NoTime THEN next[r] ELSE refTime[r]
      intra == r \in Video /\ ref <= next[r]
  IN  /\ r \in readers /\ next[r] <= MaxTime /\ Len(queue[r]) < Lag
      /\ queue' = [queue EXCEPT ![r] = Append(@, [t |-> next[r], intra |-> intra])]
      /\ next' = [next EXCEPT ![r] = @ + 1]
      /\ refTime' = [refTime EXCEPT ![r] = IF intra THEN ref + GopTime ELSE ref]
      /\ UNCHANGED <<readers, pc, batch, tmpFrame, ctx, seg, mpdVars, disk, changes>>
-----------------------------------------------------------------------------
(* The readers and the configuration.                                      *)

kindOf(r) == IF r \in Video THEN "video" ELSE "audio"

forget(r) ==
  /\ queue' = [queue EXCEPT ![r] = <<>>]
  /\ tmpFrame' = [tmpFrame EXCEPT ![r] = NoFrame]
  /\ ctx' = [ctx EXCEPT ![r] = NoSample] /\ seg' = [seg EXCEPT ![r] = NoSegment]
  /\ since' = [since EXCEPT ![r] = NoTime]
  /\ settled' = 0

(* specificReaderConfig.  The new source starts with the current frame.    *)
addReader(r) ==
  /\ pc = "idle" /\ r \notin readers /\ changes + failures < MaxTroubles
  /\ readers' = readers \cup {r} /\ changes' = changes + 1
  /\ forget(r)
  /\ next' = [next EXCEPT ![r] = Max({next[s] : s \in Reps})]
  /\ refTime' = [refTime EXCEPT ![r] = NoTime]
  /\ UNCHANGED <<pc, batch, mpdVars, mpd, files, failures>>

(* specificReaderDelete.                                                   *)
deleteReader(r) ==
  /\ pc = "idle" /\ r \in readers /\ changes + failures < MaxTroubles
  /\ readers' = readers \ {r} /\ changes' = changes + 1
  /\ forget(r)
  /\ adaptationSets' = removeRepresentation(adaptationSets, kindOf(r), r)
  /\ mpd' = toMpd(adaptationSets')
  /\ UNCHANGED <<next, refTime, pc, batch, maxSeg, files, failures>>

(* configureEvent: the depth of the MPD changes.                           *)
configureEvent(segments) ==
  /\ pc = "idle" /\ changes + failures < MaxTroubles
  /\ atLeast(segments) # maxSeg /\ (MayShrink \/ segments > maxSeg)
  /\ maxSeg' = atLeast(segments) /\ changes' = changes + 1
  /\ UNCHANGED <<readers, sources, pc, batch, tmpFrame, ctx, seg, adaptationSets, disk>>
-----------------------------------------------------------------------------
(* doProcessFrame.                                                         *)

pending == {r \in readers : queue[r] # <<>>}

behind ==
  {r \in pending : \E s \in pending : Head(queue[s]).t - SyncMargin > Head(queue[r]).t}

(* framesSync.                                                             *)
framesToPass == IF behind = {} /\ pending = readers THEN readers ELSE behind

demandOriginFrames ==
  /\ pc = "idle" /\ framesToPass # {}
  /\ batch' = framesToPass /\ pc' = "frames"
  /\ UNCHANGED <<readers, sources, tmpFrame, ctx, seg, mpdVars, disk, changes>>

(* The frame f after the samples of c: the time since the last of them,    *)
(* and whether it closes the segment.  The difference to the duration of a *)
(* segment is unsigned.                                                    *)
gap(c, f) == f.t - c.last

closesVideo(c, f) ==
  /\ c # NoSample /\ f.intra
  /\ gap(c, f) <= SegDur /\ SegDur - gap(c, f) <= c.dur + gap(c, f)

appended(c, f) ==
  IF c = NoSample THEN [first |-> f.t, last |-> f.t, dur |-> 0]
  ELSE [c EXCEPT !.last = f.t, !.dur = @ + gap(c, f)]

complete(c, dur, last) ==
  [complete |-> TRUE, ts |-> c.first, dur |-> dur, last |-> last]

(* A representation is listed from its first segment on.                   *)
withRepresentation(sets, r) ==
  updateRepresentation(updateAdaptationSet(sets, kindOf(r)), kindOf(r), r)

(* A video frame f has been put together.                                  *)
videoFrame(r, f) ==
  IF closesVideo(ctx[r], f)
    THEN /\ seg' = [seg EXCEPT ![r] =
              complete(ctx[r], ctx[r].dur + gap(ctx[r], f), @.last)]
         /\ adaptationSets' = withRepresentation(adaptationSets, r)
         /\ ctx' = [ctx EXCEPT ![r] = appended(NoSample, f)]
    ELSE /\ seg' = [seg EXCEPT ![r].last = f.t]
         /\ ctx' = [ctx EXCEPT ![r] =
              IF @ = NoSample /\ ~f.intra THEN @ ELSE appended(@, f)]
         /\ UNCHANGED adaptationSets

appendedAudio(c, f) == [appended(c, f) EXCEPT !.dur = c.dur + 1]

hasVideo == readers \cap Video # {}

(* Audio frames only close a segment if there is no video.                 *)
audioFrame(r, f) ==
  IF ~hasVideo /\ ctx[r].dur >= SegDur
    THEN /\ seg' = [seg EXCEPT ![r] = complete(ctx[r], ctx[r].dur, @.last)]
         /\ adaptationSets' = withRepresentation(adaptationSets, r)
         /\ ctx' = [ctx EXCEPT ![r] = appendedAudio(NoSample, f)]
    ELSE /\ ctx' = [ctx EXCEPT ![r] = appendedAudio(@, f)]
         /\ UNCHANGED <<seg, adaptationSets>>

(* The next frame completes the one before it.                             *)
manageFrame(r) ==
  LET f == Head(queue[r]) IN
  /\ pc = "frames" /\ r = Min(batch)
  /\ queue' = [queue EXCEPT ![r] = Tail(@)]
  /\ batch' = batch \ {r} /\ pc' = IF batch = {r} THEN "video" ELSE "frames"
  /\ IF r \in Video
       THEN /\ tmpFrame' = [tmpFrame EXCEPT ![r] = f]
            /\ IF tmpFrame[r] # NoFrame THEN videoFrame(r, tmpFrame[r])
               ELSE UNCHANGED <<ctx, seg, adaptationSets>>
       ELSE audioFrame(r, f) /\ UNCHANGED tmpFrame
  /\ UNCHANGED <<readers, next, refTime, maxSeg, disk, changes>>
-----------------------------------------------------------------------------
(* The segments of representations S under the time ts: those before bad   *)
(* are written, none if the write of the first one fails.                  *)
Failures(S) == {NoTime} \cup (IF changes + failures < MaxTroubles THEN S ELSE {})

writtenBefore(S, bad) == {r \in S : bad = NoTime \/ r < bad}

(* Mutant of store: each representation under its own time.                *)
storeOwn(S, ts) ==
  files \cup {[rep |-> r, ts |-> seg[r].ts, start |-> seg[r].ts, dur |-> seg[r].dur] : r \in S}

store(S, ts) ==
  {f \in files : f.rep \notin S \/ f.ts # ts}
    \cup {[rep |-> r, ts |-> ts, start |-> seg[r].ts, dur |-> seg[r].dur] : r \in S}

cleared(s) == [NoSegment EXCEPT !.last = s.last]

(* The MPD is written and the files of the segment that left the list go.  *)
publish(sets, k, S, ts, dur) ==
  LET gone == removedTimestamp(sets, k)
  IN  /\ adaptationSets' = updateTimestamp(sets, k, ts, dur)
      /\ mpd' = toMpd(adaptationSets')
      /\ files' = {f \in store(S, ts) : gone = 0 \/ f.rep \notin S \/ f.ts # gone}

writeSegmentsToDisk(sets, k, S, bad) ==
  LET W == writtenBefore(S, bad)
      ts == seg[Min(S)].ts
  IN  /\ since' = [r \in Reps |-> IF r \in W /\ since[r] = NoTime THEN ts ELSE since[r]]
      /\ IF bad = NoTime
           THEN publish(sets, k, S, ts, seg[Min(S)].dur) /\ UNCHANGED failures
           ELSE /\ files' = store(W, ts) /\ failures' = failures + 1
                /\ adaptationSets' = sets /\ UNCHANGED mpd

ready(S) == S # {} /\ \A r \in S : seg[r].complete

(* forceAudioSegmentsGeneration: stops at the first one without a sample.  *)
forced == {r \in readers \cap Audio :
             \A q \in readers \cap Audio : q <= r => ctx[q] # NoSample}

withForced(sets) ==
  FoldSet(LAMBDA r, acc : withRepresentation(acc, r), sets, forced)

misaligned(S) == \E r \in S : seg[r].last # seg[Min(S)].last

(* Mutant of sendSetReferenceEvent: not to the encoder of the first one.   *)
sendSetReferenceEventOthers(S) ==
  refTime' = [r \in Reps |->
    IF r \in S \ {Min(S)} /\ misaligned(S) THEN seg[Min(S)].last + SegDur ELSE refTime[r]]

(* The new reference time for the encoders, sent as an event to each.      *)
sendSetReferenceEvent(S) ==
  refTime' = [r \in Reps |->
    IF r \in S /\ misaligned(S) THEN seg[Min(S)].last + SegDur ELSE refTime[r]]

writeVideoSegments ==
  LET V == readers \cap Video IN
  /\ pc = "video" /\ pc' = "audio"
  /\ IF ready(V)
       THEN \E bad \in Failures(V) :
              /\ sendSetReferenceEvent(V)
              /\ ctx' = [r \in Reps |-> IF r \in forced THEN NoSample ELSE ctx[r]]
              /\ seg' = [r \in Reps |->
                   IF r \in forced THEN complete(ctx[r], ctx[r].dur, seg[r].last)
                   ELSE IF r \in writtenBefore(V, bad) THEN cleared(seg[r]) ELSE seg[r]]
              /\ writeSegmentsToDisk(withForced(adaptationSets), "video", V, bad)
              /\ settled' = IF bad = NoTime THEN settled + 1 ELSE 0
       ELSE UNCHANGED <<refTime, ctx, seg, adaptationSets, disk>>
  /\ UNCHANGED <<readers, next, queue, batch, maxSeg, tmpFrame, changes>>

writeAudioSegments ==
  LET A == readers \cap Audio IN
  /\ pc = "audio" /\ pc' = "idle"
  /\ IF ready(A)
       THEN \E bad \in Failures(A) :
              /\ seg' = [r \in Reps |->
                   IF r \in writtenBefore(A, bad) THEN cleared(seg[r]) ELSE seg[r]]
              /\ writeSegmentsToDisk(adaptationSets, "audio", A, bad)
       ELSE UNCHANGED <<seg, adaptationSets, mpd, files, failures, since>>
  /\ UNCHANGED <<readers, sources, batch, tmpFrame, ctx, maxSeg, changes, settled>>
-----------------------------------------------------------------------------
Process == demandOriginFrames \/ (\E r \in batch : manageFrame(r))
             \/ writeVideoSegments \/ writeAudioSegments

Next ==
  \/ \E r \in Reps : encode(r) \/ addReader(r) \/ deleteReader(r)
  \/ \E segments \in Depths : configureEvent(segments)
  \/ Process

Spec == Init /\ [][Next]_vars
-----------------------------------------------------------------------------
(* The times that the MPD on disk, or the one in memory, lists for r.      *)
listedTimes(sets, r) == {s.ts : s \in ToSet(sets[kindOf(r)].timestamps)}

fileOf(r, ts) == {f \in files : f.rep = r /\ f.ts = ts}

(* writeSegmentsToDisk, cleanSegments: a segment that the MPD on disk      *)
(* lists can be fetched in each representation that the MPD lists, from    *)
(* the first segment on that was written for it.                           *)
Published ==
  \A r \in Reps : r \in mpd[kindOf(r)].representations /\ since[r] # NoTime =>
    \A ts \in listedTimes(mpd, r) : ts >= since[r] => fileOf(r, ts) # {}

(* cleanSegments: the files of a representation that is there are those    *)
(* that the MPD lists, but for the segment of time 0, which is never       *)
(* cleaned, and what a write that failed left behind.                      *)
Cleaned ==
  failures = 0 => \A f \in files :
    f.rep \in readers /\ since[f.rep] \in 0 .. f.ts /\ f.ts # 0
      => f.ts \in listedTimes(toMpd(adaptationSets), f.rep)

(* sendSetReferenceEvent: the segments of all video representations start  *)
(* and end together again, a few segments after one joined or was lost.    *)
K == 4
Realigned ==
  settled >= K =>
    \A r \in readers \cap Video : LET e == Last(adaptationSets["video"].timestamps) IN
      \A f \in fileOf(r, e.ts) : f.start = e.ts /\ f.dur = e.dur

(* updateTimestamp: the segments that the MPD lists do not overlap.        *)
Ordered ==
  \A k \in DOMAIN mpd : LET list == mpd[k].timestamps IN
    \A i \in 1 .. Len(list) - 1 : list[i].ts + list[i].dur <= list[i + 1].ts

(* What the MPD on disk says can be relied on: what it lists is there, in  *)
(* order, and what it does not list is not kept.                           *)
OnDisk == Published /\ Cleaned /\ Ordered
=============================================================================
