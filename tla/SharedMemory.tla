---------------------------- MODULE SharedMemory ----------------------------
(***************************************************************************)
(* The filter that shows frames to another process (SharedMemory.cpp),     *)
(* behind the queue of an encoder.  A byte says whose turn it is: the      *)
(* filter writes while it is CHAR_WRITING and leaves CHAR_READING, and the *)
(* reader turns it back; neither ever waits, the filter leaves frames out. *)
(* Coded units are gathered into a picture, which is shown when the first  *)
(* slice of the next one comes.  The reader is that of the tests           *)
(* (SharedMemoryDummyReader), and external.                                *)
(*                                                                         *)
(* A copy takes two steps, so that what is read while it is written shows. *)
(* The stores of one process are seen in their order.                      *)
(***************************************************************************)
EXTENDS SlicedVideoFrameQueue

VARIABLES
  numbered,    \* what sequence numbers count: "pictures" or "units"
  access,      \* the byte: "writing" or "reading"
  header,      \* payload: the unit it was written for, and the length
  buffer,      \* the two halves of the data
  frameData,   \* units gathered, newFrame: a delimiter came last
  newFrame, seqNum,
  rd,          \* the reader: its step, and its copy
  copy,
  read         \* history: the last picture that was read, as it was read

shared == <<access, header, buffer>>
writer == <<frameData, newFrame, seqNum>>
vars == <<queueVars, rs, numbered, shared, writer, rd, copy, read>>

Blank == [header |-> [of |-> NoUnit, length |-> 0], data |-> << <<>>, <<>> >>]

Init ==
  /\ QueueInit
  /\ numbered \in {"pictures", "units"}
  /\ access = "writing" /\ header = Blank.header /\ buffer = Blank.data
  /\ frameData = <<>> /\ newFrame = FALSE /\ seqNum = 1
  /\ rd = "idle" /\ copy = Blank /\ read = Blank
-----------------------------------------------------------------------------
unit == slots[front]   \* the frame "org" of doProcessFrame

(* HeadFilter numbers what it makes from 0: raw frames, whose number the   *)
(* encoder hands on with all units, or the units that were received.       *)
getSequenceNumber(u) ==
  IF numbered = "pictures" THEN u.pic - 1 ELSE u.pic * 10 + u.nal

startsPicture == delimited /\ getSequenceNumber(unit) # seqNum /\ newFrame

(* parseNal and appendNalToFrame, on what was gathered so far.             *)
parseNal(data) ==
  /\ newFrame' = (unit.nal = 0)
  /\ frameData' = IF unit.nal = 0 THEN data ELSE Append(data, unit)

gathered == IF startsPicture THEN <<>> ELSE frameData

(* The end of doProcessFrame for the unit. *)
processed ==
  /\ rs' = "done"
  /\ IF delimited
       THEN /\ parseNal(gathered)
            /\ seqNum' = IF startsPicture THEN getSequenceNumber(unit) ELSE seqNum
       ELSE UNCHANGED writer

(* Mutant of isWritable: the byte is not looked at. *)
writesAnyway == TRUE

isWritable == access = "writing"

(* Not the filter's turn, or nothing to show yet. *)
gather ==
  /\ rs = "got"
  /\ ~isWritable \/ (delimited /\ ~startsPicture)
  /\ processed
  /\ UNCHANGED <<queueVars, numbered, shared, rd, copy, read>>

writeFramePayload ==
  /\ rs = "got"
  /\ isWritable /\ (startsPicture \/ ~delimited)
  /\ header' = [of |-> unit, length |-> 1]
  /\ rs' = "payload"
  /\ UNCHANGED <<queueVars, numbered, access, buffer, writer, rd, copy, read>>

shown == IF delimited THEN frameData ELSE <<unit>>

(* writeSharedMemoryH264 and writeSharedMemoryRAW. *)
writeNothing ==
  /\ rs = "payload" /\ shown = <<>>
  /\ processed
  /\ UNCHANGED <<queueVars, numbered, shared, rd, copy, read>>

writeLength ==
  /\ rs = "payload" /\ shown # <<>>
  /\ access' = "writing"
  /\ header' = [header EXCEPT !.length = Len(shown)]
  /\ rs' = "length"
  /\ UNCHANGED <<queueVars, numbered, buffer, writer, rd, copy, read>>

writeHalf(n, from, to) ==
  /\ rs = from /\ rs' = to
  /\ buffer' = [buffer EXCEPT ![n] = shown]
  /\ UNCHANGED <<queueVars, numbered, access, header, writer, rd, copy, read>>

writeData == writeHalf(1, "length", "half") \/ writeHalf(2, "half", "data")

writeDone ==
  /\ rs = "data"
  /\ access' = "reading"
  /\ processed
  /\ UNCHANGED <<queueVars, numbered, header, buffer, rd, copy, read>>

doProcessFrame ==
  gather \/ writeFramePayload \/ writeNothing \/ writeLength \/ writeData \/ writeDone
-----------------------------------------------------------------------------
(* The reader process: isReadable, readFramePayload, readSharedFrame.      *)
readFramePayload ==
  /\ rd = "idle" /\ access = "reading"
  /\ copy' = [copy EXCEPT !.header = header]
  /\ rd' = "payload"
  /\ UNCHANGED <<shared, read>>

readHalf(n, from, to) ==
  /\ rd = from /\ rd' = to
  /\ copy' = [copy EXCEPT !.data[n] = buffer[n]]
  /\ UNCHANGED <<shared, read>>

readDone ==
  /\ rd = "data" /\ rd' = "idle"
  /\ access' = "writing"
  /\ read' = copy
  /\ UNCHANGED <<header, buffer, copy>>

reader ==
  /\ readFramePayload \/ readHalf(1, "payload", "half") \/ readHalf(2, "half", "data")
     \/ readDone
  /\ UNCHANGED <<queueVars, rs, numbered, writer>>

-----------------------------------------------------------------------------
step(action) == action /\ UNCHANGED <<numbered, shared, writer, rd, copy, read>>

Next ==
  \/ step(pushBackSliceGroup) \/ step(getFront) \/ step(removeFrame)
  \/ doProcessFrame
  \/ reader

Spec == Init /\ [][Next]_vars
-----------------------------------------------------------------------------
units == read.data[1]
content == {units[i] : i \in DOMAIN units}
before(u, v) == u.pic < v.pic \/ (u.pic = v.pic /\ u.nal < v.nal)

(* appendNalToFrame, pushBackSliceGroup: a picture is shown with all its   *)
(* slices in order, and nothing of another one, but for what the full      *)
(* queue dropped; a lost delimiter is what can run two pictures together.  *)
WholePicture ==
  /\ \A i, j \in DOMAIN units : i < j => before(units[i], units[j])
  /\ \A u \in content :
       /\ \A v \in made[u.pic] : v.nal > 0 => v \in content \cup dropped
       /\ \A v \in content : u.pic < v.pic => [pic |-> v.pic, nal |-> 0] \in dropped

(* What was read was written as a whole, under its own length, and under   *)
(* its own header when it is a raw frame.                                  *)
Untorn ==
  /\ read.data[2] = units /\ read.header.length = Len(units)
  /\ units # <<>> /\ ~delimited => read.header.of = units[1]

(* doProcessFrame, isWritable: what the other process reads is one whole   *)
(* picture that the filter wrote, and pictures are read in their order,    *)
(* none of them twice.                                                     *)
ReadsFrames ==
  [][read' # read =>
       WholePicture' /\ Untorn' /\ \A u \in content, v \in content' : before(u, v)]_vars
=============================================================================
