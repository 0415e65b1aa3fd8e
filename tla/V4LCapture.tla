----------------------------- MODULE V4LCapture -----------------------------
(***************************************************************************)
(* The capture of a video device (V4LCapture.cpp).  An event, run by the   *)
(* control thread, takes the device through its states: it is opened, set  *)
(* up with buffers that are mapped, and started; one that captures is      *)
(* stopped and set up again.  Any call of the device may fail, and then it *)
(* is released.  The worker of the filter takes filled buffers from the    *)
(* driver, copies them to frames and gives them back.  It shares no mutex  *)
(* with the events of a head filter.                                       *)
(*                                                                         *)
(* The pace of the frames and the average of their duration are left out.  *)
(***************************************************************************)
EXTENDS Integers, Sequences, SequencesExt

CONSTANTS
  Granted,      \* numbers of buffers that the driver may grant
  Formats,      \* of pixels, "YUYV" among them
  Rates,        \* frames per second that the driver supports
  WhileRunning, \* whether a filter with a writer is ever configured
  MaxFrames,    \* bound: frames that are captured
  MaxEvents,    \* bound: configurations
  MaxFailures   \* bound: calls of the device that fail

CaptureAssumption ==
  /\ Granted \subseteq Nat \ {0} /\ "YUYV" \in Formats /\ Rates \subseteq Nat \ {0}
  /\ WhileRunning \in BOOLEAN /\ {MaxFrames, MaxEvents, MaxFailures} \subseteq Nat

VARIABLES
  status,
  fd,             \* whether the device is open
  mapped,         \* the buffers that are mapped, counted from 1
  n_buffers,
  format,         \* of the device, and of the frames
  frameDuration,  \* as the frames per second, 0 before the first configuration
  step, asked,    \* of the event that runs, and what it asks the device for
  streaming, queued, filled, captured, buffers,
                  \* the driver: what it may fill and what it has filled, in
                  \* order, the number of the last frame, and what the buffers
                  \* hold
  connected,
  held,           \* the buffer that the worker copies, or None
  frame,          \* the last frame that was put out
  lost,           \* history: buffers that could not be given back
  events, failures

device == <<status, fd, mapped, n_buffers, format>>
control == <<frameDuration, step, asked, events>>
driver == <<streaming, queued, filled, captured, buffers>>
worker == <<held, frame, lost>>
captureVars == <<device, control, driver, worker, connected, failures>>

None == 0
Idle == step = "idle"
nothing == [n |-> 0, format |-> "YUYV"]

CaptureInit ==
  /\ status = "CLOSE" /\ fd = FALSE /\ mapped = {} /\ n_buffers = 0 /\ format = "YUYV"
  /\ frameDuration = 0 /\ step = "idle" /\ asked = [fps |-> 0, format |-> "YUYV", force |-> TRUE]
  /\ streaming = FALSE /\ queued = <<>> /\ filled = <<>> /\ captured = 0 /\ buffers = <<>>
  /\ connected = FALSE /\ held = None /\ frame = nothing /\ lost = {}
  /\ events = 0 /\ failures = 0
-----------------------------------------------------------------------------
(* A call of the device fails, and the event goes on at the step next.     *)
fails(next) ==
  /\ failures < MaxFailures /\ failures' = failures + 1
  /\ step' = next

works == UNCHANGED failures

(* The step of configure that the state of the device calls for.           *)
firstStep ==
  CASE status = "CLOSE" -> "open" [] status = "OPEN" -> "init"
    [] status = "INIT" -> "start" [] OTHER -> "stop"

configureEvent ==
  /\ Idle /\ events < MaxEvents /\ events' = events + 1
  /\ connected => WhileRunning
  /\ \E fps \in Rates, f \in Formats, force \in BOOLEAN :
       asked' = [fps |-> fps, format |-> f, force |-> force]
  /\ step' = firstStep
  /\ UNCHANGED <<device, frameDuration, driver, worker, connected, failures>>

(* configure calls itself for a device that it has stopped, with its last  *)
(* argument, the flag, in the place of the frames per second.              *)
askedAgain ==
  [fps |-> IF asked.force THEN 1 ELSE 0, format |-> "YUYV", force |-> TRUE]

openDevice ==
  /\ step = "open"
  /\ \/ works /\ status' = "OPEN" /\ fd' = TRUE /\ step' = "init"
     \/ fails("idle") /\ UNCHANGED <<status, fd>>
  /\ UNCHANGED <<mapped, n_buffers, format, frameDuration, asked, events, driver, worker,
                 connected>>

(* The driver sets what it can of a format and of a rate it is asked for.  *)
setFormat ==
  /\ format' \in IF asked.force /\ asked.format \in Formats THEN Formats ELSE {format}
  /\ \E fps \in Rates :
       /\ asked.fps \in Rates => fps = asked.fps
       /\ asked' = [asked EXCEPT !.fps = fps]

(* Mutant of init_mmap: the buffers are mapped, but for the last one.      *)
init_mmapOneLess ==
  /\ n_buffers' \in {n \in Granted : n >= 2}
  /\ mapped' = 1 .. n_buffers' - 1

(* Buffers are asked for and mapped, one by one.                           *)
init_mmap ==
  /\ n_buffers' \in {n \in Granted : n >= 2}
  /\ mapped' = 1 .. n_buffers'

(* What a failure in between has mapped stays mapped.                      *)
init_mmapFails ==
  \/ UNCHANGED <<mapped, n_buffers>>
  \/ \E n \in Granted : \E k \in 0 .. n - 1 :
       n_buffers' = k /\ mapped' = mapped \cup 1 .. k

initDevice ==
  /\ step = "init"
  /\ \/ works /\ setFormat /\ init_mmap
        /\ status' = "INIT" /\ step' = "start"
     \/ fails("release") /\ (setFormat \/ UNCHANGED <<format, asked>>) /\ init_mmapFails
        /\ UNCHANGED status
  /\ UNCHANGED <<fd, frameDuration, events, driver, worker, connected>>

(* All buffers are queued before the stream is on.                         *)
startCapturing ==
  /\ step = "start"
  /\ \/ /\ works
        /\ queued' = [i \in 1 .. n_buffers |-> i]
        /\ streaming' = TRUE /\ status' = "CAPTURE"
        /\ step' = "idle" /\ frameDuration' = asked.fps
     \/ /\ fails("release")
        /\ \E k \in 0 .. n_buffers : queued' = [i \in 1 .. k |-> i]
        /\ UNCHANGED <<streaming, status, frameDuration>>
  /\ UNCHANGED <<fd, mapped, n_buffers, format, asked, events, filled, captured, buffers, worker,
                 connected>>

(* The driver forgets its buffers.                                         *)
streamOff ==
  /\ streaming' = FALSE /\ queued' = <<>> /\ filled' = <<>>
  /\ lost' = {}
  /\ UNCHANGED <<captured, buffers, held, frame>>

(* configure says that it has succeeded when it could not stop.            *)
stopCapturing ==
  /\ step = "stop"
  /\ \/ works /\ streamOff /\ status' = "INIT" /\ step' = "uninit" /\ UNCHANGED frameDuration
     \/ fails("idle") /\ frameDuration' = asked.fps /\ UNCHANGED <<driver, worker, status>>
  /\ UNCHANGED <<fd, mapped, n_buffers, format, asked, events, connected>>

unmapped == mapped \ (1 .. n_buffers)

uninitDevice ==
  /\ step = "uninit"
  /\ mapped' = unmapped /\ status' = "OPEN"
  /\ asked' = askedAgain /\ step' = "init"
  /\ UNCHANGED <<fd, n_buffers, format, frameDuration, events, driver, worker, connected,
                 failures>>

(* Mutant of releaseDevice: the device is left in the state it is in.      *)
leaveDevice == UNCHANGED <<status, fd, mapped, driver, worker>>

(* A device that did not start or was not set up is closed.                *)
releaseDevice ==
  /\ status' = "CLOSE" /\ fd' = FALSE
  /\ mapped' = IF status = "INIT" THEN unmapped ELSE mapped
  /\ streamOff

release ==
  /\ step = "release" /\ step' = "idle"
  /\ releaseDevice
  /\ UNCHANGED <<n_buffers, format, frameDuration, asked, events, connected, failures>>

configure ==
  \/ openDevice \/ initDevice \/ startCapturing \/ stopCapturing \/ uninitDevice \/ release
-----------------------------------------------------------------------------
(* The driver fills the buffers in the order they were queued in, and      *)
(* drops the frame if there is none.                                       *)
capture ==
  /\ streaming /\ captured < MaxFrames
  /\ captured' = captured + 1
  /\ IF queued = <<>> THEN UNCHANGED <<queued, filled, buffers>>
     ELSE /\ queued' = Tail(queued) /\ filled' = Append(filled, Head(queued))
          /\ buffers' = [i \in 1 .. n_buffers |->
               IF i = Head(queued) THEN [n |-> captured', format |-> format]
               ELSE IF i \in DOMAIN buffers THEN buffers[i] ELSE nothing]
  /\ UNCHANGED <<device, control, streaming, worker, connected, failures>>

(* A device that does not capture has no writer.                           *)
specificWriterConfig ==
  /\ Idle /\ status = "CAPTURE" /\ ~connected
  /\ connected' = TRUE
  /\ UNCHANGED <<device, control, driver, worker, failures>>

disconnect ==
  /\ Idle /\ connected /\ held = None
  /\ connected' = FALSE
  /\ UNCHANGED <<device, control, driver, worker, failures>>

(* Mutant of dequeued: the buffer is given back before it is copied.       *)
dequeuedAndBack(i) == Append(queued, i)

(* VIDIOC_DQBUF: the driver does not fill the buffer i for now.            *)
dequeued(i) == queued

(* doProcessFrame: a filled buffer is waited for and taken.  Nothing       *)
(* happens if the wait or the call fails.                                  *)
getFrame ==
  /\ connected /\ status = "CAPTURE" /\ held = None
  /\ filled # <<>>
  /\ held' = Head(filled) /\ filled' = Tail(filled)
  /\ queued' = dequeued(held')
  /\ UNCHANGED <<device, control, streaming, captured, buffers, frame, lost, connected,
                 failures>>

(* The buffer is copied and given back; a frame whose buffer could not be  *)
(* given back is not put out.                                              *)
readFrame ==
  /\ held # None /\ held' = None
  /\ \/ /\ works
        /\ queued' = Append(queued, held)
        /\ frame' = buffers[held]
        /\ UNCHANGED lost
     \/ /\ failures < MaxFailures /\ failures' = failures + 1
        /\ lost' = lost \cup {held}
        /\ UNCHANGED <<queued, frame>>
  /\ UNCHANGED <<device, control, streaming, filled, captured, buffers, connected>>

doProcessFrame == getFrame \/ readFrame
-----------------------------------------------------------------------------
CaptureNext ==
  \/ configureEvent \/ configure
  \/ capture
  \/ specificWriterConfig \/ disconnect \/ doProcessFrame

CaptureSpec == CaptureInit /\ [][CaptureNext]_captureVars
-----------------------------------------------------------------------------
(* configure, releaseDevice, startCapturing: an event leaves the device    *)
(* capturing, with all its buffers mapped and each of them with the        *)
(* driver, filled, being copied or lost, or it leaves it closed; it never  *)
(* stops halfway, whichever call fails.                                    *)
NeverHalfway ==
  Idle =>
    \/ status = "CLOSE" /\ fd = FALSE /\ streaming = FALSE /\ queued = <<>>
    \/ /\ status = "CAPTURE" /\ fd /\ streaming
       /\ 1 .. n_buffers \subseteq mapped
       /\ ToSet(queued \o filled) \cup lost \cup ({held} \ {None}) = 1 .. n_buffers

(* getFrame, readFrame: frames are put out in the order in which they were *)
(* captured, each of them once, in the format of the device, and out of    *)
(* memory that is mapped.                                                  *)
FramesForward ==
  frame' # frame => frame'.n > frame.n /\ frame'.format = format /\ held \in mapped
=============================================================================
