------------------------ MODULE VideoEncoderX264or5 ------------------------
(***************************************************************************)
(* The H.264 and H.265 encoder filters (VideoEncoderX264or5, VideoEncoder- *)
(* X264, VideoEncoderX265).  A raw frame goes into the library under the   *)
(* number inPts, and its times wait in qFTP until the library gives back a *)
(* picture, later and in another order.  With a GOP time, a frame is       *)
(* forced to be an IDR each time the reference time is reached, which is   *)
(* how encoders of one source, whose segments are interchangeable, cut at  *)
(* the same instants.  The library itself (x264, x265) is external.        *)
(***************************************************************************)
EXTENDS Integers, FiniteSets

CONSTANTS
  RawGaps,      \* time from a raw frame to the next one
  GopTimes,     \* GOP times a client configures, 0 for none
  References,   \* reference times a client sets
  Delay,        \* frames by which B-frames put decoding times back
  Lookahead,    \* frames the library keeps before it gives a picture
  NalCounts,    \* NAL units of a picture
  MAX_SLICES,   \* NAL units that a SlicedVideoFrame holds
  MaxRaw,       \* bound: raw frames
  MaxClientEvents  \* bound: events of the client and changes of size

VideoEncoderAssumption ==
  /\ RawGaps \subseteq Nat \ {0} /\ GopTimes \subseteq Nat /\ References \subseteq Nat
  /\ Delay \in Nat /\ Lookahead \in Nat /\ NalCounts \subseteq Nat /\ MAX_SLICES \in Nat
  /\ MaxRaw \in Nat /\ MaxClientEvents \in Nat

VARIABLES
  now,              \* presentation time of the last raw frame (its origin
                    \* time and sequence number travel with it)
  encoderNeedsConfig, gopTime, refTime, forceIntra,
  inPts, qFTP,      \* number of the next frame, and times by number
  pointedSliceNum,  \* slices that the destination frame holds
  lib,              \* the library: the frames in it, how many pictures it
                    \* gave since it was opened, and from which frame on
  codedPicture,     \* the picture that was handed on last
  forced,           \* history: the last raw frame was forced
  origin,           \* history: time from which the GOPs are counted
  raw,              \* history: the times of every frame that went in
  rawFrames, clientEvents  \* counted for the bounds

videoEncoderVars == <<now, encoderNeedsConfig, gopTime, refTime, forceIntra, inPts, qFTP,
                      pointedSliceNum, lib, codedPicture, forced, origin, raw, rawFrames,
                      clientEvents>>

(* What a std::map gives for a key that it does not have. *)
timeIn(map, n) == IF n \in DOMAIN map THEN map[n] ELSE 0
with(map, n, time) == [k \in DOMAIN map \cup {n} |-> IF k = n THEN time ELSE map[k]]
without(map, n) == [k \in DOMAIN map \ {n} |-> map[k]]

VideoEncoderInit ==
  /\ now = 1
  /\ encoderNeedsConfig = TRUE /\ gopTime \in GopTimes /\ refTime = 0 /\ forceIntra = FALSE
  /\ inPts = 0 /\ qFTP = [n \in {} |-> 0]
  /\ pointedSliceNum = 0
  /\ lib = [in |-> {}, given |-> 0, start |-> 0]
  /\ codedPicture = [of |-> -1, pTime |-> 0, dTime |-> 0]
  /\ forced = FALSE /\ origin = 0 /\ raw = [n \in {} |-> 0]
  /\ rawFrames = 0 /\ clientEvents = 0
-----------------------------------------------------------------------------
(* The library: a picture comes out once more than Lookahead frames are    *)
(* in.  The n-th one is decoded in the place of the n-th frame, Delay      *)
(* earlier, and none is decoded after it is shown.  reconfigure starts     *)
(* from default parameters, of no size, so it always opens the library     *)
(* anew, and the frames inside are lost.                                   *)
opened == IF encoderNeedsConfig THEN [in |-> {}, given |-> 0, start |-> inPts] ELSE lib
inside == opened.in \cup {inPts}
dts == opened.start + opened.given - Delay

ready ==
  IF Cardinality(inside) <= Lookahead THEN {}
  ELSE {p \in inside : p >= dts /\ \A q \in inside \ {p} : q > dts}

-----------------------------------------------------------------------------
(* doProcessFrame: whether a frame of time t reaches the reference time.   *)
reference(t) == IF refTime = 0 THEN t ELSE refTime
reached(t) == gopTime > 0 /\ reference(t) <= t

(* Mutant of nextReference: the next reference is counted from the frame. *)
countedFrom(t) == IF reached(t) THEN t + gopTime ELSE reference(t)

nextReference(t) == IF reached(t) THEN reference(t) + gopTime ELSE reference(t)

(* encodeFrame lost the frame: its times are those of the next one. *)
lostFrame == UNCHANGED <<inPts, pointedSliceNum, codedPicture>> /\ lib' = opened

(* encodeFrame took the frame and gave nothing. *)
keptFrame ==
  /\ ready = {}
  /\ inPts' = inPts + 1 /\ lib' = [opened EXCEPT !.in = inside]
  /\ UNCHANGED <<pointedSliceNum, codedPicture>>

(* Mutant of timesOfPicture: they are the times of the frame that went in. *)
timesOfInput(times, p) ==
  [of |-> p, pTime |-> timeIn(times, inPts), dTime |-> timeIn(times, dts)]

timesOfPicture(times, p) ==
  [of |-> p, pTime |-> timeIn(times, p), dTime |-> timeIn(times, dts)]

forget(times, p) == without(times, dts)

(* encodeFrame gave picture p, in n NAL units that a SlicedVideoFrame can  *)
(* hold: it is handed on, and the queue empties the SlicedVideoFrame.      *)
gavePicture(times, p, n) ==
  /\ inPts' = inPts + 1
  /\ lib' = [opened EXCEPT !.in = inside \ {p}, !.given = @ + 1]
  /\ IF pointedSliceNum + n <= MAX_SLICES
       THEN /\ codedPicture' = timesOfPicture(times, p)
            /\ qFTP' = forget(times, p)
            /\ pointedSliceNum' = 0
       ELSE /\ qFTP' = times /\ UNCHANGED codedPicture
            /\ pointedSliceNum' = MAX_SLICES

encodeRaw ==
  /\ rawFrames < MaxRaw /\ rawFrames' = rawFrames + 1
  /\ \E gap \in RawGaps : now' = now + gap
  /\ encoderNeedsConfig' = FALSE
  /\ refTime' = IF gopTime > 0 THEN nextReference(now') ELSE refTime
  /\ forced' = (forceIntra \/ reached(now'))
  /\ forceIntra' = FALSE
  /\ origin' = IF gopTime > 0 THEN (IF origin = 0 THEN now' ELSE origin) ELSE 0
  /\ LET times == with(qFTP, inPts, now')
     IN /\ raw' = with(raw, inPts, now')
        /\ \/ lostFrame /\ qFTP' = times
           \/ keptFrame /\ qFTP' = times
           \/ \E p \in ready, n \in NalCounts : gavePicture(times, p, n)
  /\ UNCHANGED <<gopTime, clientEvents>>

-----------------------------------------------------------------------------
(* Events run before a frame, on the thread of the filter.                 *)
clientEvent ==
  /\ clientEvents < MaxClientEvents /\ clientEvents' = clientEvents + 1
  /\ UNCHANGED <<now, inPts, qFTP, pointedSliceNum, lib, codedPicture, forced,
                 raw, rawFrames>>

encoderConfigEvent ==
  /\ clientEvent
  /\ gopTime' \in GopTimes /\ encoderNeedsConfig' = TRUE
  /\ origin' = IF gopTime' > 0 THEN refTime ELSE 0
  /\ UNCHANGED <<refTime, forceIntra>>

forceIntraEvent ==
  /\ clientEvent
  /\ forceIntra' = TRUE
  /\ UNCHANGED <<gopTime, refTime, encoderNeedsConfig, origin>>

setGopReferenceTimeEvent ==
  /\ clientEvent
  /\ refTime' \in References
  /\ origin' = IF gopTime > 0 THEN refTime' ELSE 0
  /\ UNCHANGED <<gopTime, forceIntra, encoderNeedsConfig>>

(* The frames get another size: reconfigure opens the library again. *)
resize ==
  /\ clientEvent
  /\ encoderNeedsConfig' = TRUE
  /\ UNCHANGED <<gopTime, refTime, forceIntra, origin>>

VideoEncoderNext ==
  \/ encodeRaw
  \/ encoderConfigEvent \/ forceIntraEvent \/ setGopReferenceTimeEvent \/ resize

VideoEncoderSpec == VideoEncoderInit /\ [][VideoEncoderNext]_videoEncoderVars
-----------------------------------------------------------------------------
(* doProcessFrame: a picture carries the times of the frame it is of, is   *)
(* not decoded after it is shown, nor before the one handed on before it.  *)
ownTimes ==
  codedPicture' # codedPicture =>
    /\ codedPicture'.pTime = raw'[codedPicture'.of]
    /\ codedPicture'.dTime \in codedPicture.dTime .. codedPicture'.pTime

(* setGopReferenceTimeEvent: a frame that nobody asked to be an IDR is one *)
(* exactly when it is the first on or after a multiple of the GOP time     *)
(* from the reference.                                                     *)
crosses ==
  \E k \in 0 .. now' : LET at == origin' + k * gopTime IN now < at /\ at <= now'

gopKept ==
  rawFrames' # rawFrames /\ gopTime > 0 /\ ~forceIntra /\ (refTime = 0 \/ refTime > now)
    => (forced' <=> crosses)

(* doProcessFrame: pictures carry the times of their own frames, however   *)
(* the library reorders, loses or keeps them; and encoders that have one   *)
(* reference cut at the same times, whatever times their frames have.      *)
CodedInTime == [][ownTimes /\ gopKept]_videoEncoderVars
=============================================================================
