------------------------ MODULE AudioCircularBuffer -------------------------
(***************************************************************************)
(* The buffer of raw audio between two filters (AudioCircularBuffer.cpp).  *)
(* A sample has its place in the buffer by its time: the writer fills gaps *)
(* with silence, discards frames that come too late and starts over when   *)
(* the gap is too long; the reader takes frames of a size of its own and   *)
(* computes their time from their place.                                   *)
(*                                                                         *)
(* Times, counters and sizes are in samples of one channel.  A sample is   *)
(* its number among those that were accepted and its time; silence has the *)
(* number of the last sample before it.  The writer copies into the buffer *)
(* without the mutex that the reader holds, and both change the count of   *)
(* elements.                                                               *)
(***************************************************************************)
EXTENDS Integers, SequencesExt

CONSTANTS
  MaxSamples,   \* chMaxSamples
  Scale,        \* sampleRate / 1000: the buffer has so many times MaxSamples
  Threshold,    \* tsDeviationThreshold
  InSamples,    \* samples in a frame of the writer
  OutSamples,   \* samples in a frame of the reader
  Gaps,         \* between the times of two frames of the writer
  Atomic,       \* whether each change of the count of elements is atomic
  MaxInputs     \* bound: frames of the writer

BufferAssumption ==
  /\ {MaxSamples, Scale, InSamples, OutSamples} \subseteq Nat \ {0}
  /\ Threshold \in Nat /\ Gaps \subseteq Int /\ Atomic \in BOOLEAN /\ MaxInputs \in Nat

channelMaxLength == MaxSamples * Scale

Places == 0 .. channelMaxLength - 1

VARIABLES
  data, rear, front, elements,
  synchronized, syncTimestamp,
  inputTs,       \* time of the frame being added
  fillNewFrame,
  outputFrame,   \* its time and samples, and the number of the first one
  pc,            \* of the writer "W" and the reader "R"
  read,          \* value of elements that each found when it checked it
  frames,        \* frames added
  accepted,      \* history: samples accepted
  nextOut        \* history: number of the sample to come out next

bufferVars == <<data, rear, front, elements, synchronized, syncTimestamp, inputTs,
          fillNewFrame, outputFrame, pc, read, frames, accepted, nextOut>>

countVars == <<rear, front, elements>>
syncVars == <<synchronized, syncTimestamp, inputTs, frames>>
readerVars == <<fillNewFrame, outputFrame>>

sampleAt(number, time) == [no |-> number, ts |-> time, real |-> TRUE]
silenceAfter(number) == [no |-> number, ts |-> 0, real |-> FALSE]

BufferInit ==
  /\ data = [p \in Places |-> silenceAfter(0)]
  /\ rear = 0 /\ front = 0 /\ elements = 0
  /\ synchronized = FALSE /\ syncTimestamp = 0 /\ inputTs = 0
  /\ fillNewFrame = TRUE /\ outputFrame = [ts |-> 0, samples |-> <<>>, first |-> 1]
  /\ pc = [t \in {"W", "R"} |-> "idle"]
  /\ read = [t \in {"W", "R"} |-> 0]
  /\ frames = 0 /\ accepted = 0 /\ nextOut = 1
-----------------------------------------------------------------------------
goto(t, label) == pc' = [pc EXCEPT ![t] = label]

(* Mutant of place: the end of the buffer comes one sample early.          *)
placeShort(n) == n % (channelMaxLength - 1)

place(n) == n % channelMaxLength

(* Mutant of room: a buffer that is not empty always has room.             *)
roomAny(n) == n <= channelMaxLength

room(n) == n <= channelMaxLength - elements

(* pushBack, up to the end of its memcpy.                                  *)
copyIn(samples) ==
  /\ data' = [p \in Places |->
       LET S == {i \in 1..Len(samples) : place(rear + i - 1) = p}
       IN  IF S = {} THEN data[p] ELSE samples[Max(S)]]
  /\ read' = [read EXCEPT !["W"] = elements]

silence(n) == [i \in 1..n |-> silenceAfter(accepted)]

samplesOf(ts) == [i \in 1..InSamples |-> sampleAt(accepted + i, ts + i - 1)]

(* The frame is pushed if there is room and discarded if there is not.     *)
pushFrame(ts) ==
  IF room(InSamples)
    THEN /\ copyIn(samplesOf(ts)) /\ accepted' = accepted + InSamples
         /\ goto("W", "frame")
    ELSE /\ UNCHANGED <<data, read, accepted>> /\ goto("W", "idle")

(* Time of the frame minus the time of the place it would have.            *)
deviation(ts) == IF synchronized THEN ts - (rear + syncTimestamp) ELSE -rear

late(ts) == deviation(ts) < -Threshold

early(ts) == deviation(ts) > Threshold

(* addFrame with a frame of time ts that is not discarded for its time.    *)
begin(ts) ==
  /\ pc["W"] = "idle" /\ frames < MaxInputs /\ ts >= 0
  /\ frames' = frames + 1 /\ inputTs' = ts

synchronize(ts) ==
  /\ synchronized' = TRUE
  /\ syncTimestamp' = IF synchronized THEN syncTimestamp ELSE ts

addFrame(ts) ==
  /\ begin(ts) /\ synchronize(ts) /\ ~late(ts) /\ ~early(ts)
  /\ pushFrame(ts)
  /\ UNCHANGED <<countVars, readerVars, nextOut>>

discardFrame(ts) ==
  /\ begin(ts) /\ synchronize(ts) /\ late(ts)
  /\ UNCHANGED <<data, countVars, read, readerVars, pc, accepted, nextOut>>

(* A gap is filled with silence first, if there is room for it.            *)
addPadding(ts) ==
  /\ begin(ts) /\ synchronize(ts) /\ early(ts) /\ deviation(ts) < MaxSamples
  /\ IF room(deviation(ts))
       THEN copyIn(silence(deviation(ts))) /\ goto("W", "padding")
       ELSE UNCHANGED <<data, read, pc>>
  /\ UNCHANGED <<countVars, readerVars, accepted, nextOut>>

doFlush ==
  /\ rear' = 0 /\ front' = 0 /\ elements' = 0
  /\ synchronized' = FALSE
  /\ UNCHANGED syncTimestamp

(* A long one makes the buffer start over.  flush takes the mutex.         *)
flush(ts) ==
  /\ begin(ts) /\ early(ts) /\ deviation(ts) >= MaxSamples
  /\ pc["R"] # "copied"
  /\ doFlush
  /\ nextOut' = accepted + 1
  /\ UNCHANGED <<data, read, readerVars, pc, accepted>>

(* elements += n.  If it is not atomic it may use the value that the same  *)
(* thread read for its check.                                              *)
addToElements(t, n) ==
  /\ elements' \in {elements + n} \cup (IF Atomic THEN {} ELSE {read[t] + n})
  /\ UNCHANGED read

(* The end of pushBack for the silence and for the frame.                  *)
padded ==
  /\ pc["W"] = "padding"
  /\ LET n == inputTs - (rear + syncTimestamp) IN
       addToElements("W", n) /\ rear' = rear + n
  /\ goto("W", "push")
  /\ UNCHANGED <<data, front, syncVars, readerVars, accepted, nextOut>>

pushPadded ==
  /\ pc["W"] = "push"
  /\ pushFrame(inputTs)
  /\ UNCHANGED <<countVars, syncVars, readerVars, nextOut>>

added ==
  /\ pc["W"] = "frame"
  /\ addToElements("W", InSamples) /\ rear' = rear + InSamples
  /\ goto("W", "idle")
  /\ UNCHANGED <<data, front, syncVars, readerVars, accepted, nextOut>>
-----------------------------------------------------------------------------
frontTs == front + syncTimestamp

available == elements >= OutSamples

(* getFront, up to the end of its memcpy, when it needs a new frame.       *)
getFront ==
  /\ pc["R"] = "idle" /\ fillNewFrame /\ available
  /\ outputFrame' = [ts |-> frontTs,
                     samples |-> [i \in 1..OutSamples |-> data[place(front + i - 1)]],
                     first |-> nextOut]
  /\ nextOut' = outputFrame'.samples[OutSamples].no + 1
  /\ read' = [read EXCEPT !["R"] = elements]
  /\ goto("R", "copied")
  /\ UNCHANGED <<data, countVars, syncVars, fillNewFrame, accepted>>

(* Without enough data only the time of the frame is changed.              *)
getNothing ==
  /\ pc["R"] = "idle" /\ fillNewFrame /\ ~available
  /\ outputFrame' = [outputFrame EXCEPT !.ts = frontTs]
  /\ UNCHANGED <<data, countVars, read, syncVars, fillNewFrame, pc, accepted, nextOut>>

gotFront ==
  /\ pc["R"] = "copied"
  /\ addToElements("R", -OutSamples) /\ front' = front + OutSamples
  /\ fillNewFrame' = FALSE
  /\ goto("R", "idle")
  /\ UNCHANGED <<data, rear, syncVars, outputFrame, accepted, nextOut>>

removeFrame ==
  /\ pc["R"] = "idle" /\ ~fillNewFrame
  /\ fillNewFrame' = TRUE
  /\ UNCHANGED <<data, countVars, read, syncVars, outputFrame, pc, accepted, nextOut>>
-----------------------------------------------------------------------------
Input == \E gap \in Gaps :
  LET ts == inputTs + gap
  IN  addFrame(ts) \/ discardFrame(ts) \/ addPadding(ts) \/ flush(ts)

Writer == Input \/ padded \/ pushPadded \/ added

Reader == getFront \/ getNothing \/ gotFront \/ removeFrame

BufferNext == Writer \/ Reader

BufferSpec == BufferInit /\ [][BufferNext]_bufferVars
-----------------------------------------------------------------------------
inFlight(t) ==
  CASE pc[t] = "frame" -> InSamples
    [] pc[t] = "padding" -> inputTs - (rear + syncTimestamp)
    [] pc[t] = "copied" -> OutSamples
    [] OTHER -> 0

(* pushBack and fillOutputBuffers: the count of elements is that of the    *)
(* samples between the two ends, and the buffer never holds more than fit, *)
(* those that are being copied included.                                   *)
ElementsExact ==
  /\ elements = rear - front
  /\ elements + inFlight("W") <= channelMaxLength /\ inFlight("R") <= elements

(* fillOutputBuffers: what the reader gets is every accepted sample once   *)
(* and in order, but for those that a flush threw away.                    *)
InOrder ==
  \A i \in 1..Len(outputFrame.samples) :
    LET before == IF i = 1 THEN outputFrame.first - 1 ELSE outputFrame.samples[i - 1].no
        sample == outputFrame.samples[i]
    IN  sample.no = before + (IF sample.real THEN 1 ELSE 0)

(* addFrame, getFront: each sample comes out at its own time, but for the  *)
(* deviation that is tolerated.                                            *)
InTime ==
  ~fillNewFrame => \A i \in 1..Len(outputFrame.samples) :
    outputFrame.samples[i].real =>
      outputFrame.samples[i].ts - (outputFrame.ts + i - 1) \in -Threshold .. Threshold

(* The samples that come out are those that went in, each once, in order,  *)
(* and at its time, with silence where there were none.                    *)
SamplesKept == ElementsExact /\ InOrder /\ InTime
=============================================================================
