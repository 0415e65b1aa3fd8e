----------------------------- MODULE Media_proofs -----------------------------
(***************************************************************************)
(* Proofs about media on their way in and through.                         *)
(*                                                                         *)
(* - The capture of a video device, for any buffers the driver grants,     *)
(*   formats and rates, and any calls of the device that fail, as long as  *)
(*   a filter with a writer is not configured (Configured).                *)
(* - The circular buffer of samples, for any sizes of it, of the frames    *)
(*   that go in and of those that go out, and any order of the steps of    *)
(*   the writer and the reader, as long as they count samples in one step  *)
(*   each (Counted).                                                       *)
(* - The converters of pictures and of samples, for any frames, sizes and  *)
(*   formats, and any failures of the codecs.                              *)
(* - The video encoder, for any gaps between frames, GOP times, references *)
(*   and depths of the library.                                            *)
(***************************************************************************)
EXTENDS V4LCapture, AudioCircularBuffer, MediaConverters, VideoEncoderX264or5,
  SequenceTheorems, TLAPS

(* A filter with a writer is not configured.                               *)
Configured == CaptureAssumption /\ ~WhileRunning

ConfigureSteps == {"idle", "open", "init", "start", "stop", "uninit", "release"}

DeviceTypeOK ==
  /\ step \in ConfigureSteps /\ status \in {"CLOSE", "OPEN", "INIT", "CAPTURE"}
  /\ fd \in BOOLEAN /\ streaming \in BOOLEAN
  /\ n_buffers \in Nat /\ captured \in Nat
  /\ queued \in Seq(Nat \ {0}) /\ filled \in Seq(Nat \ {0})
  /\ held \in Nat /\ frame.n \in Nat /\ connected \in BOOLEAN

(* Nothing is with the driver: it forgets its buffers when a stream ends.  *)
Off ==
  /\ streaming = FALSE /\ queued = <<>> /\ filled = <<>>
  /\ lost = {} /\ held = None

(* The buffers are all mapped, and each of them is somewhere.              *)
Capturing ==
  /\ status = "CAPTURE" /\ fd /\ streaming
  /\ 1 .. n_buffers \subseteq mapped
  /\ ToSet(queued) \cup ToSet(filled) \cup lost \cup ({held} \ {None}) = 1 .. n_buffers

(* How far the device is set up at each step of an event.                  *)
SetUp ==
  /\ step = "open" => Off /\ status = "CLOSE" /\ ~fd
  /\ step = "init" => Off /\ status = "OPEN" /\ fd
  /\ step = "start" => Off /\ status = "INIT" /\ fd /\ 1 .. n_buffers \subseteq mapped
  /\ step = "stop" => Capturing
  /\ step = "uninit" => Off /\ status = "INIT" /\ fd
  /\ step = "release" => ~streaming /\ filled = <<>> /\ held = None
  /\ Idle => (Off /\ status = "CLOSE" /\ ~fd) \/ Capturing

(* A worker only runs when no event does.                                  *)
Alone ==
  /\ connected => Idle /\ status = "CAPTURE"
  /\ held # None => connected

DeviceInv == DeviceTypeOK /\ SetUp /\ Alone
(* The buffers of the driver, no one of which is queued twice or both      *)
(* queued and filled or copied.                                            *)
Apart ==
  /\ \A i, j \in 1 .. Len(queued) : i # j => queued[i] # queued[j]
  /\ \A i \in 1 .. Len(queued) : queued[i] \notin ToSet(filled) /\ queued[i] # held

number(i) == buffers[i].n

(* The frames that were captured and not put out come after the one that   *)
(* was put out last, in their order.                                       *)
InTurn ==
  /\ frame.n <= captured
  /\ \A i \in 1 .. Len(filled) : number(filled[i]) \in frame.n + 1 .. captured
  /\ \A i, j \in 1 .. Len(filled) : i < j => number(filled[i]) < number(filled[j])
  /\ held # None =>
       /\ number(held) \in frame.n + 1 .. captured
       /\ \A i \in 1 .. Len(filled) : number(held) < number(filled[i])

(* Their buffers hold them, in the format that the device has now.         *)
OfFormat ==
  \A i \in ToSet(filled) \cup ({held} \ {None}) :
    i \in DOMAIN buffers /\ buffers[i] = [n |-> number(i), format |-> format]

OrderInv == Apart /\ InTurn /\ OfFormat
-----------------------------------------------------------------------------
LEMMA Together ==
  ASSUME NEW S, NEW s \in Seq(S), NEW t \in Seq(S)
  PROVE  ToSet(s \o t) = ToSet(s) \cup ToSet(t)
<1>1. /\ Len(s \o t) = Len(s) + Len(t) /\ Len(s) \in Nat /\ Len(t) \in Nat
      /\ \A i \in 1 .. Len(s) + Len(t) :
           (s \o t)[i] = IF i <= Len(s) THEN s[i] ELSE t[i - Len(s)]
      /\ DOMAIN (s \o t) = 1 .. Len(s) + Len(t)
      /\ DOMAIN s = 1 .. Len(s) /\ DOMAIN t = 1 .. Len(t)
  OBVIOUS
<1>2. ASSUME NEW x \in ToSet(s \o t) PROVE x \in ToSet(s) \cup ToSet(t)
  <2>1. PICK i \in 1 .. Len(s) + Len(t) : (s \o t)[i] = x
    BY <1>1 DEF ToSet
  <2>2. CASE i <= Len(s)
    BY <1>1, <2>1, <2>2 DEF ToSet
  <2>3. CASE i > Len(s)
    <3>1. i - Len(s) \in 1 .. Len(t) /\ t[i - Len(s)] = x
      BY <1>1, <2>1, <2>3
    <3> QED BY <1>1, <3>1 DEF ToSet
  <2> QED BY <1>1, <2>2, <2>3
<1>3. ASSUME NEW x \in ToSet(s) PROVE x \in ToSet(s \o t)
  <2>1. PICK i \in 1 .. Len(s) : s[i] = x
    BY <1>1 DEF ToSet
  <2>2. i \in 1 .. Len(s) + Len(t) /\ (s \o t)[i] = x
    BY <1>1, <2>1
  <2> QED BY <1>1, <2>2 DEF ToSet
<1>4. ASSUME NEW x \in ToSet(t) PROVE x \in ToSet(s \o t)
  <2>1. PICK i \in 1 .. Len(t) : t[i] = x
    BY <1>1 DEF ToSet
  <2>2. i + Len(s) \in 1 .. Len(s) + Len(t) /\ (s \o t)[i + Len(s)] = x
    BY <1>1, <2>1
  <2> QED BY <1>1, <2>2 DEF ToSet
<1> QED BY <1>2, <1>3, <1>4

LEMMA Appended ==
  ASSUME NEW S, NEW s \in Seq(S), NEW e \in S
  PROVE  /\ Append(s, e) \in Seq(S) /\ Len(Append(s, e)) = Len(s) + 1 /\ Len(s) \in Nat
         /\ \A i \in 1 .. Len(s) : Append(s, e)[i] = s[i]
         /\ Append(s, e)[Len(s) + 1] = e
         /\ ToSet(Append(s, e)) = ToSet(s) \cup {e}
<1>1. /\ Append(s, e) \in Seq(S) /\ Len(Append(s, e)) = Len(s) + 1 /\ Len(s) \in Nat
      /\ \A i \in 1 .. Len(s) : Append(s, e)[i] = s[i]
      /\ Append(s, e)[Len(s) + 1] = e
      /\ DOMAIN Append(s, e) = 1 .. Len(s) + 1 /\ DOMAIN s = 1 .. Len(s)
  OBVIOUS
<1>2. \A i \in 1 .. Len(s) + 1 : i \in 1 .. Len(s) \/ i = Len(s) + 1
  BY <1>1
<1>3. \A i \in 1 .. Len(s) : i \in 1 .. Len(s) + 1
  BY <1>1
<1>4. Len(s) + 1 \in 1 .. Len(s) + 1
  BY <1>1
<1> HIDE <1>1
<1>5. ToSet(Append(s, e)) = ToSet(s) \cup {e}
  <2>1. ASSUME NEW x \in ToSet(Append(s, e)) PROVE x \in ToSet(s) \cup {e}
    BY <1>1, <1>2 DEF ToSet
  <2>2. ASSUME NEW x \in ToSet(s) PROVE x \in ToSet(Append(s, e))
    BY <1>1, <1>3 DEF ToSet
  <2>3. e \in ToSet(Append(s, e))
    BY <1>1, <1>4 DEF ToSet
  <2> QED BY <2>1, <2>2, <2>3
<1> QED BY <1>1, <1>5

LEMMA Taken ==
  ASSUME NEW S, NEW s \in Seq(S), s # <<>>
  PROVE  /\ Head(s) \in S /\ Head(s) = s[1] /\ 1 \in 1 .. Len(s)
         /\ Tail(s) \in Seq(S) /\ Len(Tail(s)) = Len(s) - 1 /\ Len(s) \in Nat \ {0}
         /\ \A i \in 1 .. Len(Tail(s)) : Tail(s)[i] = s[i + 1] /\ i + 1 \in 2 .. Len(s)
         /\ ToSet(s) = {Head(s)} \cup ToSet(Tail(s))
<1>1. /\ Head(s) \in S /\ Head(s) = s[1] /\ 1 \in 1 .. Len(s)
      /\ Tail(s) \in Seq(S) /\ Len(Tail(s)) = Len(s) - 1 /\ Len(s) \in Nat \ {0}
      /\ \A i \in 1 .. Len(Tail(s)) : Tail(s)[i] = s[i + 1] /\ i + 1 \in 2 .. Len(s)
      /\ DOMAIN s = 1 .. Len(s) /\ DOMAIN Tail(s) = 1 .. Len(Tail(s))
  OBVIOUS
<1>2. \A i \in 1 .. Len(s) : i = 1 \/ (i - 1 \in 1 .. Len(Tail(s)) /\ s[i] = Tail(s)[i - 1])
  BY <1>1
<1>3. \A i \in 1 .. Len(Tail(s)) : i + 1 \in 1 .. Len(s) /\ Tail(s)[i] = s[i + 1]
  BY <1>1
<1>4. ASSUME NEW x \in ToSet(s) PROVE x \in {Head(s)} \cup ToSet(Tail(s))
  <2>1. PICK i \in 1 .. Len(s) : s[i] = x
    BY <1>1 DEF ToSet
  <2>2. CASE i = 1
    BY <1>1, <2>1, <2>2
  <2>3. CASE i # 1
    <3>1. i - 1 \in DOMAIN Tail(s) /\ Tail(s)[i - 1] = x
      BY <1>1, <1>2, <2>1, <2>3
    <3> QED BY <3>1 DEF ToSet
  <2> QED BY <2>2, <2>3
<1>5. ASSUME NEW x \in ToSet(Tail(s)) PROVE x \in ToSet(s)
  BY <1>1, <1>3 DEF ToSet
<1>6. Head(s) \in ToSet(s)
  BY <1>1 DEF ToSet
<1> QED BY <1>1, <1>4, <1>5, <1>6

LEMMA Empty ==
  ToSet(<<>>) = {} /\ Len(<<>>) = 0 /\ \A S : <<>> \in Seq(S)
BY DEF ToSet

(* The numbers up to n, as a sequence.                                     *)
LEMMA UpTo ==
  ASSUME NEW n \in Nat, NEW s, s = [i \in 1 .. n |-> i]
  PROVE  s \in Seq(Nat \ {0}) /\ Len(s) = n /\ ToSet(s) = 1 .. n
<1>1. s \in [1 .. n -> Nat \ {0}]
  OBVIOUS
<1>2. s \in Seq(Nat \ {0}) /\ Len(s) = n
  BY <1>1, SeqDef
<1> QED BY <1>2 DEF ToSet
-----------------------------------------------------------------------------
LEMMA DeviceStart == ASSUME Configured PROVE CaptureInit => DeviceInv
<1> SUFFICES ASSUME CaptureInit PROVE DeviceInv
  OBVIOUS
<1>1. DeviceTypeOK
  BY Empty DEF CaptureInit, DeviceTypeOK, ConfigureSteps, None, nothing
<1>2. SetUp
  BY DEF CaptureInit, SetUp, Off, Idle, None
<1>3. Alone
  BY DEF CaptureInit, Alone, None
<1> QED BY <1>1, <1>2, <1>3 DEF DeviceInv

LEMMA ConfigureEventStep == ASSUME Configured, DeviceInv, configureEvent PROVE DeviceInv'
<1>1. /\ Idle /\ ~connected /\ step' = firstStep /\ held = None
      /\ UNCHANGED <<status, fd, mapped, n_buffers, streaming, queued, filled, captured,
                     held, frame, lost, connected>>
  BY DEF configureEvent, Configured, DeviceInv, Alone, device, driver, worker
<1>2. \/ status = "CLOSE" /\ Off /\ ~fd /\ step' = "open"
      \/ Capturing /\ step' = "stop"
  BY <1>1 DEF DeviceInv, SetUp, firstStep, Capturing
<1>3. DeviceTypeOK'
  BY <1>1, <1>2 DEF DeviceInv, DeviceTypeOK, ConfigureSteps
<1>4. SetUp'
  BY <1>1, <1>2 DEF SetUp, Off, Capturing, Idle
<1>5. Alone'
  BY <1>1 DEF Alone
<1> QED BY <1>3, <1>4, <1>5 DEF DeviceInv

LEMMA OpenDeviceStep == ASSUME Configured, DeviceInv, openDevice PROVE DeviceInv'
<1>1. /\ step = "open" /\ Off /\ status = "CLOSE" /\ ~fd /\ ~connected /\ held = None
      /\ \/ status' = "OPEN" /\ fd' = TRUE /\ step' = "init"
         \/ step' = "idle" /\ UNCHANGED <<status, fd>>
      /\ UNCHANGED <<mapped, n_buffers, streaming, queued, filled, captured,
                     held, frame, lost, connected>>
  BY DEF openDevice, fails, DeviceInv, SetUp, Alone, Idle, driver, worker, Off
<1>2. DeviceTypeOK'
  BY <1>1 DEF DeviceInv, DeviceTypeOK, ConfigureSteps
<1>3. SetUp'
  BY <1>1 DEF SetUp, Off, Idle
<1>4. Alone'
  BY <1>1 DEF Alone
<1> QED BY <1>2, <1>3, <1>4 DEF DeviceInv

LEMMA InitDeviceStep == ASSUME Configured, DeviceInv, initDevice PROVE DeviceInv'
<1>1. /\ step = "init" /\ Off /\ status = "OPEN" /\ fd /\ ~connected /\ held = None
      /\ \/ /\ status' = "INIT" /\ step' = "start" /\ mapped' = 1 .. n_buffers'
            /\ n_buffers' \in Nat
         \/ step' = "release" /\ status' = status /\ n_buffers' \in Nat
      /\ UNCHANGED <<fd, streaming, queued, filled, captured, held, frame, lost, connected>>
  <2>1. step = "init" /\ UNCHANGED <<fd, driver, worker, connected>>
    BY DEF initDevice
  <2>2. Off /\ status = "OPEN" /\ fd /\ ~connected /\ held = None
    BY <2>1 DEF DeviceInv, SetUp, Alone, Idle, Off
  <2>3. \/ status' = "INIT" /\ step' = "start" /\ init_mmap
        \/ step' = "release" /\ status' = status /\ init_mmapFails
    BY DEF initDevice, fails
  <2>4. init_mmap => mapped' = 1 .. n_buffers' /\ n_buffers' \in Nat
    BY DEF init_mmap, Configured, CaptureAssumption
  <2>5. init_mmapFails => n_buffers' \in Nat
    BY DEF init_mmapFails, DeviceInv, DeviceTypeOK, Configured, CaptureAssumption
  <2> QED BY <2>1, <2>2, <2>3, <2>4, <2>5 DEF driver, worker
<1>2. DeviceTypeOK'
  BY <1>1 DEF DeviceInv, DeviceTypeOK, ConfigureSteps
<1>3. SetUp'
  BY <1>1 DEF SetUp, Off, Idle
<1>4. Alone'
  BY <1>1 DEF Alone
<1> QED BY <1>2, <1>3, <1>4 DEF DeviceInv

LEMMA StartCapturingStep == ASSUME Configured, DeviceInv, startCapturing PROVE DeviceInv'
<1>1. /\ step = "start" /\ Off /\ status = "INIT" /\ fd /\ 1 .. n_buffers \subseteq mapped
      /\ ~connected /\ held = None /\ n_buffers \in Nat
      /\ UNCHANGED <<fd, mapped, n_buffers, filled, captured, held, frame, lost, connected>>
  BY DEF startCapturing, DeviceInv, DeviceTypeOK, SetUp, Alone, Idle, worker, Off
<1>2. CASE /\ queued' = [i \in 1 .. n_buffers |-> i] /\ streaming' = TRUE
           /\ status' = "CAPTURE" /\ step' = "idle"
  <2>1. queued' \in Seq(Nat \ {0}) /\ ToSet(queued') = 1 .. n_buffers
    BY <1>1, <1>2, UpTo
  <2>2. DeviceTypeOK'
    BY <1>1, <1>2, <2>1 DEF DeviceInv, DeviceTypeOK, ConfigureSteps
  <2>3. Capturing'
    BY <1>1, <1>2, <2>1, Empty DEF Capturing, Off, None
  <2>4. SetUp' /\ Alone'
    BY <1>1, <1>2, <2>3 DEF SetUp, Alone, Idle
  <2> QED BY <2>2, <2>4 DEF DeviceInv
<1>3. CASE /\ \E k \in 0 .. n_buffers : queued' = [i \in 1 .. k |-> i]
           /\ step' = "release" /\ UNCHANGED <<streaming, status>>
  <2>1. queued' \in Seq(Nat \ {0})
    BY <1>1, <1>3, UpTo
  <2>2. DeviceTypeOK'
    BY <1>1, <1>3, <2>1 DEF DeviceInv, DeviceTypeOK, ConfigureSteps
  <2>3. SetUp' /\ Alone'
    BY <1>1, <1>3 DEF SetUp, Alone, Idle, Off
  <2> QED BY <2>2, <2>3 DEF DeviceInv
<1> QED BY <1>2, <1>3 DEF startCapturing, fails

LEMMA StopCapturingStep == ASSUME Configured, DeviceInv, stopCapturing PROVE DeviceInv'
<1>1. /\ step = "stop" /\ Capturing /\ ~connected /\ held = None
      /\ UNCHANGED <<fd, mapped, n_buffers, connected>>
  BY DEF stopCapturing, DeviceInv, SetUp, Alone, Idle
<1>2. CASE streamOff /\ status' = "INIT" /\ step' = "uninit"
  <2>1. DeviceTypeOK'
    BY <1>1, <1>2, Empty DEF DeviceInv, DeviceTypeOK, ConfigureSteps, streamOff
  <2>2. SetUp' /\ Alone'
    BY <1>1, <1>2 DEF SetUp, Alone, Idle, Off, Capturing, streamOff
  <2> QED BY <2>1, <2>2 DEF DeviceInv
<1>3. CASE step' = "idle" /\ UNCHANGED <<driver, worker, status>>
  <2>1. DeviceTypeOK'
    BY <1>1, <1>3 DEF DeviceInv, DeviceTypeOK, ConfigureSteps, driver, worker
  <2>2. SetUp' /\ Alone'
    BY <1>1, <1>3 DEF SetUp, Alone, Idle, Capturing, driver, worker
  <2> QED BY <2>1, <2>2 DEF DeviceInv
<1> QED BY <1>2, <1>3 DEF stopCapturing, fails

LEMMA UninitDeviceStep == ASSUME Configured, DeviceInv, uninitDevice PROVE DeviceInv'
<1>1. /\ step = "uninit" /\ Off /\ fd /\ ~connected /\ held = None
      /\ status' = "OPEN" /\ step' = "init"
      /\ UNCHANGED <<fd, n_buffers, streaming, queued, filled, captured, held, frame, lost,
                     connected>>
  BY DEF uninitDevice, DeviceInv, SetUp, Alone, Idle, driver, worker, Off
<1>2. DeviceTypeOK'
  BY <1>1 DEF DeviceInv, DeviceTypeOK, ConfigureSteps
<1>3. SetUp' /\ Alone'
  BY <1>1 DEF SetUp, Alone, Idle, Off
<1> QED BY <1>2, <1>3 DEF DeviceInv

LEMMA ReleaseStep == ASSUME Configured, DeviceInv, release PROVE DeviceInv'
<1>1. /\ step = "release" /\ held = None /\ ~connected
      /\ status' = "CLOSE" /\ fd' = FALSE /\ step' = "idle" /\ streamOff
      /\ UNCHANGED <<n_buffers, connected>>
  BY DEF release, releaseDevice, DeviceInv, SetUp, Alone, Idle
<1>2. DeviceTypeOK'
  BY <1>1, Empty DEF DeviceInv, DeviceTypeOK, ConfigureSteps, streamOff
<1>3. SetUp' /\ Alone'
  BY <1>1 DEF SetUp, Alone, Idle, Off, streamOff
<1> QED BY <1>2, <1>3 DEF DeviceInv

(* The device captures while there is a stream, and only then.             *)
LEMMA Streaming ==
  ASSUME DeviceInv, streaming
  PROVE  /\ Capturing /\ step \in {"idle", "stop"}
         /\ queued # <<>> => Head(queued) \in 1 .. n_buffers
<1>1. Capturing /\ step \in {"idle", "stop"}
  BY DEF DeviceInv, DeviceTypeOK, ConfigureSteps, SetUp, Off, Idle
<1>2. queued # <<>> => Head(queued) \in ToSet(queued)
  BY Taken DEF DeviceInv, DeviceTypeOK
<1> QED BY <1>1, <1>2 DEF Capturing

LEMMA CaptureStep == ASSUME Configured, DeviceInv, capture PROVE DeviceInv'
<1>1. /\ Capturing /\ step \in {"idle", "stop"}
      /\ captured' = captured + 1
      /\ UNCHANGED <<status, fd, mapped, n_buffers, step, streaming, held, frame, lost,
                     connected>>
  BY Streaming DEF capture, device, control, worker
<1>2. /\ queued' \in Seq(Nat \ {0}) /\ filled' \in Seq(Nat \ {0})
      /\ ToSet(queued') \cup ToSet(filled') = ToSet(queued) \cup ToSet(filled)
  <2>1. CASE queued = <<>>
    BY <2>1 DEF capture, DeviceInv, DeviceTypeOK
  <2>2. CASE queued # <<>>
    <3>1. queued' = Tail(queued) /\ filled' = Append(filled, Head(queued))
      BY <2>2 DEF capture
    <3>2. queued \in Seq(Nat \ {0}) /\ filled \in Seq(Nat \ {0})
      BY DEF DeviceInv, DeviceTypeOK
    <3>3. /\ Head(queued) \in Nat \ {0} /\ Tail(queued) \in Seq(Nat \ {0})
          /\ ToSet(queued) = {Head(queued)} \cup ToSet(Tail(queued))
      BY <2>2, <3>2, Taken
    <3>4. /\ Append(filled, Head(queued)) \in Seq(Nat \ {0})
          /\ ToSet(Append(filled, Head(queued))) = ToSet(filled) \cup {Head(queued)}
      BY <3>2, <3>3, Appended
    <3> QED BY <3>1, <3>3, <3>4
  <2> QED BY <2>1, <2>2
<1>3. DeviceTypeOK'
  BY <1>1, <1>2 DEF DeviceInv, DeviceTypeOK
<1>4. Capturing'
  BY <1>1, <1>2 DEF Capturing
<1>5. SetUp' /\ Alone'
  BY <1>1, <1>4 DEF DeviceInv, SetUp, Alone, Idle
<1> QED BY <1>3, <1>5 DEF DeviceInv

LEMMA WriterStep ==
  ASSUME Configured, DeviceInv, specificWriterConfig \/ disconnect PROVE DeviceInv'
<1>1. /\ Idle /\ (connected' => status = "CAPTURE") /\ held = None /\ connected' \in BOOLEAN
      /\ UNCHANGED <<device, control, driver, worker>>
  BY DEF specificWriterConfig, disconnect, DeviceInv, Alone
<1>2. DeviceTypeOK'
  BY <1>1 DEF DeviceInv, DeviceTypeOK, device, control, driver, worker
<1>3. SetUp' /\ Alone'
  BY <1>1 DEF DeviceInv, SetUp, Alone, Idle, Off, Capturing, device, control, driver, worker
<1> QED BY <1>2, <1>3 DEF DeviceInv

(* The worker has buffers of a device that captures.                       *)
LEMMA Works ==
  ASSUME DeviceInv, connected
  PROVE  Idle /\ Capturing
BY DEF DeviceInv, SetUp, Alone, Capturing

LEMMA GetFrameStep == ASSUME Configured, DeviceInv, getFrame PROVE DeviceInv'
<1>1. /\ Idle /\ Capturing /\ connected /\ filled # <<>> /\ held = None
      /\ held' = Head(filled) /\ filled' = Tail(filled) /\ queued' = queued
      /\ UNCHANGED <<device, control, streaming, captured, frame, lost, connected>>
  BY Works DEF getFrame, dequeued
<1>2. /\ held' \in Nat \ {0} /\ filled' \in Seq(Nat \ {0})
      /\ ToSet(filled) = {held'} \cup ToSet(filled')
  BY <1>1, Taken DEF DeviceInv, DeviceTypeOK
<1>3. DeviceTypeOK'
  BY <1>1, <1>2 DEF DeviceInv, DeviceTypeOK, device, control
<1>4. Capturing'
  BY <1>1, <1>2 DEF Capturing, device, None
<1>5. SetUp' /\ Alone'
  BY <1>1, <1>4 DEF DeviceInv, SetUp, Alone, Idle, device, control, Capturing
<1> QED BY <1>3, <1>5 DEF DeviceInv

LEMMA ReadFrameStep ==
  ASSUME Configured, DeviceInv, OrderInv, readFrame PROVE DeviceInv'
<1>1. /\ Idle /\ Capturing /\ connected /\ held # None /\ held' = None
      /\ UNCHANGED <<device, control, streaming, filled, captured, connected>>
      /\ held \in Nat \ {0}
  BY Works DEF readFrame, DeviceInv, Alone, DeviceTypeOK, None
<1>2. /\ queued' \in Seq(Nat \ {0}) /\ frame'.n \in Nat
      /\ ToSet(queued') \cup lost' = ToSet(queued) \cup lost \cup {held}
  <2>1. CASE queued' = Append(queued, held) /\ frame' = buffers[held] /\ UNCHANGED lost
    <3>1. queued' \in Seq(Nat \ {0}) /\ ToSet(queued') = ToSet(queued) \cup {held}
      <4>1. queued \in Seq(Nat \ {0})
        BY DEF DeviceInv, DeviceTypeOK
      <4> QED BY <1>1, <2>1, <4>1, Appended
    <3>2. frame'.n \in Nat
      <4>1. frame'.n \in frame.n + 1 .. captured
        BY <1>1, <2>1 DEF OrderInv, InTurn, number
      <4>2. frame.n \in Nat /\ captured \in Nat
        BY DEF DeviceInv, DeviceTypeOK
      <4> QED BY <4>1, <4>2
    <3> QED BY <2>1, <3>1, <3>2
  <2>2. CASE lost' = lost \cup {held} /\ UNCHANGED <<queued, frame>>
    BY <2>2 DEF DeviceInv, DeviceTypeOK
  <2> QED BY <2>1, <2>2 DEF readFrame
<1>3. DeviceTypeOK'
  BY <1>1, <1>2 DEF DeviceInv, DeviceTypeOK, device, control, None
<1>4. Capturing'
  BY <1>1, <1>2 DEF Capturing, device, None
<1>5. SetUp' /\ Alone'
  BY <1>1, <1>4 DEF DeviceInv, SetUp, Alone, Idle, device, control, Capturing
<1> QED BY <1>3, <1>5 DEF DeviceInv

LEMMA DeviceStep ==
  ASSUME Configured PROVE DeviceInv /\ OrderInv /\ [CaptureNext]_captureVars => DeviceInv'
<1> SUFFICES ASSUME DeviceInv, OrderInv, [CaptureNext]_captureVars PROVE DeviceInv'
  OBVIOUS
<1>1. CASE configureEvent \/ configure
  BY <1>1, ConfigureEventStep, OpenDeviceStep, InitDeviceStep, StartCapturingStep,
     StopCapturingStep, UninitDeviceStep, ReleaseStep
     DEF configure
<1>2. CASE capture \/ specificWriterConfig \/ disconnect \/ doProcessFrame
  BY <1>2, CaptureStep, WriterStep, GetFrameStep, ReadFrameStep DEF doProcessFrame
<1>3. CASE UNCHANGED captureVars
  BY <1>3
     DEF captureVars, device, control, driver, worker, DeviceInv, DeviceTypeOK, SetUp,
         Alone, Idle, Off, Capturing
<1> QED BY <1>1, <1>2, <1>3 DEF CaptureNext
-----------------------------------------------------------------------------
LEMMA OrderStart == ASSUME Configured PROVE CaptureInit => OrderInv
<1> SUFFICES ASSUME CaptureInit PROVE OrderInv
  OBVIOUS
<1>1. queued = <<>> /\ filled = <<>> /\ held = None /\ frame.n = 0 /\ captured = 0
  BY DEF CaptureInit, nothing
<1> QED BY <1>1, Empty DEF OrderInv, Apart, InTurn, OfFormat

(* A step that touches no buffer and leaves the format as it is.           *)
LEMMA KeptOrderInv ==
  ASSUME OrderInv, UNCHANGED <<queued, filled, captured, buffers, held, frame, format>>
  PROVE  OrderInv'
BY DEF OrderInv, Apart, InTurn, OfFormat, number

(* A step with no frame between the driver and the worker.                 *)
LEMMA QuietOrderInv ==
  ASSUME DeviceInv, OrderInv, NEW k \in Nat, queued' = [i \in 1 .. k |-> i],
         filled' = <<>>, held' = None, UNCHANGED <<captured, frame>>
  PROVE  OrderInv'
<1>1. Len(queued') = k /\ \A i \in 1 .. k : queued'[i] = i /\ i # None
  BY UpTo DEF None
<1>2. Apart'
  BY <1>1, Empty DEF Apart
<1>3. InTurn' /\ OfFormat'
  BY Empty DEF OrderInv, InTurn, OfFormat
<1> QED BY <1>2, <1>3 DEF OrderInv

LEMMA EventOrderInv ==
  ASSUME Configured, DeviceInv, OrderInv, configureEvent \/ configure PROVE OrderInv'
<1>1. <<>> = [i \in 1 .. 0 |-> i]
  OBVIOUS
<1>2. CASE configureEvent \/ openDevice \/ uninitDevice
  BY <1>2, KeptOrderInv DEF configureEvent, openDevice, uninitDevice, device, driver, worker
<1>3. CASE initDevice
  <2>1. UNCHANGED <<queued, filled, captured, held, frame>> /\ Off
    BY <1>3 DEF initDevice, driver, worker, DeviceInv, SetUp
  <2> QED BY <1>1, <2>1, QuietOrderInv DEF Off
<1>4. CASE startCapturing
  <2>1. /\ UNCHANGED <<filled, captured, held, frame>> /\ Off
        /\ \E k \in 0 .. n_buffers : queued' = [i \in 1 .. k |-> i]
    BY <1>4 DEF startCapturing, worker, DeviceInv, SetUp, DeviceTypeOK
  <2>2. PICK k \in 0 .. n_buffers : queued' = [i \in 1 .. k |-> i]
    BY <2>1
  <2>3. k \in Nat
    BY DEF DeviceInv, DeviceTypeOK
  <2> QED BY <2>1, <2>2, <2>3, QuietOrderInv DEF Off
<1>5. CASE streamOff /\ held = None
  BY <1>1, <1>5, QuietOrderInv DEF streamOff
<1>6. CASE stopCapturing
  <2>1. held = None
    BY <1>6 DEF stopCapturing, DeviceInv, Alone, Idle
  <2>2. CASE UNCHANGED <<driver, worker, format>>
    BY <2>2, KeptOrderInv DEF driver, worker
  <2> QED BY <1>5, <1>6, <2>1, <2>2 DEF stopCapturing
<1>7. CASE release
  <2>1. held = None /\ streamOff
    BY <1>7 DEF release, releaseDevice, DeviceInv, SetUp
  <2> QED BY <1>5, <2>1
<1> QED BY <1>2, <1>3, <1>4, <1>6, <1>7 DEF configure

(* The driver fills the buffer b: those that wait for the worker are       *)
(* others, and stay as they are.                                           *)
LEMMA CaptureOrderInv == ASSUME Configured, DeviceInv, OrderInv, capture PROVE OrderInv'
<1>1. /\ captured' = captured + 1 /\ captured \in Nat /\ frame.n \in Nat
      /\ UNCHANGED <<held, frame, format, n_buffers>>
      /\ queued \in Seq(Nat \ {0}) /\ filled \in Seq(Nat \ {0})
  BY DEF capture, device, worker, DeviceInv, DeviceTypeOK
<1>2. captured' = captured + 1 /\ captured \in Nat /\ frame.n \in Nat
  BY <1>1
<1>3. CASE queued = <<>>
  <2>1. UNCHANGED <<queued, filled, buffers>>
    BY <1>3 DEF capture
  <2>2. InTurn'
    <3>1. frame.n <= captured'
      BY <1>2 DEF OrderInv, InTurn
    <3>2. \A i \in 1 .. Len(filled) : number(filled[i]) \in frame.n + 1 .. captured'
      BY <1>2 DEF OrderInv, InTurn
    <3>3. held # None => number(held) \in frame.n + 1 .. captured'
      BY <1>2 DEF OrderInv, InTurn
    <3> QED BY <1>1, <2>1, <3>1, <3>2, <3>3 DEF OrderInv, InTurn, number
  <2> QED BY <1>1, <2>1, <2>2 DEF OrderInv, Apart, OfFormat, number
<1>4. CASE queued # <<>>
  <2> DEFINE b == Head(queued)
             waiting == ToSet(filled) \cup ({held} \ {None})
  <2>1. /\ b \in 1 .. n_buffers /\ b \in Nat \ {0} /\ Capturing
        /\ waiting \subseteq 1 .. n_buffers
    BY <1>1, <1>4, Streaming, Taken DEF capture, Capturing
  <2>2. /\ queued' = Tail(queued) /\ filled' = Append(filled, b)
        /\ buffers' = [i \in 1 .. n_buffers |->
             IF i = b THEN [n |-> captured', format |-> format]
             ELSE IF i \in DOMAIN buffers THEN buffers[i] ELSE nothing]
    BY <1>4 DEF capture
  <2>3. /\ Len(queued') = Len(queued) - 1 /\ Len(queued) \in Nat \ {0} /\ b = queued[1]
        /\ 1 \in 1 .. Len(queued)
        /\ \A i \in 1 .. Len(queued') :
             queued'[i] = queued[i + 1] /\ i + 1 \in 2 .. Len(queued)
    BY <1>1, <1>4, <2>2, Taken
  <2>4. /\ Len(filled') = Len(filled) + 1 /\ Len(filled) \in Nat
        /\ \A i \in 1 .. Len(filled) : filled'[i] = filled[i]
        /\ filled'[Len(filled) + 1] = b
        /\ ToSet(filled') = ToSet(filled) \cup {b}
    <3>1. filled \in Seq(Nat \ {0}) /\ b \in Nat \ {0} /\ filled' = Append(filled, b)
      BY <1>1, <2>1, <2>2
    <3> HIDE DEF b
    <3> QED BY <3>1, Appended
  <2>5. b \notin waiting
    <3>1. queued[1] \notin ToSet(filled) /\ queued[1] # held
      BY <2>3 DEF OrderInv, Apart
    <3> QED BY <2>3, <3>1
  <2> HIDE DEF b
  <2>6. \A i \in 1 .. n_buffers : i \in DOMAIN buffers'
    BY <2>2
  <2>7. buffers'[b] = [n |-> captured + 1, format |-> format]
    BY <1>1, <2>1, <2>2
  <2>8. \A i \in waiting : buffers'[i] = buffers[i]
    BY <2>1, <2>2, <2>5 DEF OrderInv, OfFormat
  <2>9. \A i \in 1 .. Len(filled) : filled[i] \in waiting
    BY <1>1 DEF ToSet
  <2>10. held # None => held \in waiting
    OBVIOUS
  <2>11. OfFormat'
    <3>1. ASSUME NEW i \in ToSet(filled') \cup ({held'} \ {None})
          PROVE  i \in DOMAIN buffers' /\ buffers'[i] = [n |-> buffers'[i].n, format |-> format]
      <4>1. CASE i = b
        BY <2>1, <2>6, <2>7, <4>1
      <4>2. CASE i \in waiting
        BY <2>1, <2>6, <2>8, <4>2 DEF OrderInv, OfFormat, number
      <4> QED BY <1>1, <2>4, <4>1, <4>2
    <3> QED BY <1>1, <3>1 DEF OfFormat, number
  <2>12. Apart'
    <3>1. \A i, j \in 1 .. Len(queued') : i # j => queued'[i] # queued'[j]
      <4> SUFFICES ASSUME NEW i \in 1 .. Len(queued'), NEW j \in 1 .. Len(queued'), i # j
                   PROVE  queued'[i] # queued'[j]
        OBVIOUS
      <4>1. i + 1 \in 1 .. Len(queued) /\ j + 1 \in 1 .. Len(queued) /\ i + 1 # j + 1
        <5>1. Len(queued') = Len(queued) - 1 /\ Len(queued) \in Nat
          BY <2>3
        <5> QED BY <5>1
      <4>2. queued'[i] = queued[i + 1] /\ queued'[j] = queued[j + 1]
        BY <2>3
      <4>3. queued[i + 1] # queued[j + 1]
        BY <4>1 DEF OrderInv, Apart
      <4> QED BY <4>2, <4>3
    <3>2. ASSUME NEW i \in 1 .. Len(queued')
          PROVE  queued'[i] \notin ToSet(filled') /\ queued'[i] # held'
      <4>1. i + 1 \in 1 .. Len(queued) /\ i + 1 # 1 /\ queued'[i] = queued[i + 1]
        BY <2>3
      <4>2. queued[i + 1] # b
        BY <2>3, <4>1 DEF OrderInv, Apart
      <4> QED BY <1>1, <2>4, <4>1, <4>2 DEF OrderInv, Apart
    <3> QED BY <3>1, <3>2 DEF Apart
  <2> HIDE DEF waiting
  <2>13. InTurn'
    <3>1. frame.n <= captured
      BY DEF OrderInv, InTurn
    <3>2. ASSUME NEW i \in 1 .. Len(filled)
          PROVE  /\ filled'[i] = filled[i]
                 /\ buffers'[filled[i]].n = number(filled[i])
                 /\ number(filled[i]) \in frame.n + 1 .. captured
      BY <2>4, <2>8, <2>9 DEF OrderInv, InTurn, number
    <3>3. \A i \in 1 .. Len(filled') : i \in 1 .. Len(filled) \/ i = Len(filled) + 1
      BY <2>4
    <3>4. ASSUME NEW i \in 1 .. Len(filled')
          PROVE  buffers'[filled'[i]].n \in frame.n + 1 .. captured + 1
      <4>1. CASE i \in 1 .. Len(filled)
        <5>1. buffers'[filled'[i]].n \in frame.n + 1 .. captured
          BY <3>2, <4>1
        <5> QED BY <1>2, <5>1
      <4>2. CASE i = Len(filled) + 1
        <5>1. buffers'[filled'[i]].n = captured + 1
          BY <2>4, <2>7, <4>2
        <5> QED BY <1>2, <3>1, <5>1
      <4> QED BY <3>3, <4>1, <4>2
    <3>5. ASSUME NEW i \in 1 .. Len(filled'), NEW j \in 1 .. Len(filled'), i < j
          PROVE  buffers'[filled'[i]].n < buffers'[filled'[j]].n
      <4>1. i \in 1 .. Len(filled)
        BY <2>4, <3>5
      <4>2. CASE j \in 1 .. Len(filled)
        BY <3>2, <3>5, <4>1, <4>2 DEF OrderInv, InTurn
      <4>3. CASE j = Len(filled) + 1
        <5>1. buffers'[filled'[j]].n = captured + 1
          BY <2>4, <2>7, <4>3
        <5>2. buffers'[filled'[i]].n \in frame.n + 1 .. captured
          BY <3>2, <4>1
        <5> QED BY <1>2, <5>1, <5>2
      <4> QED BY <3>3, <4>2, <4>3
    <3>6. ASSUME held # None
          PROVE  /\ buffers'[held].n \in frame.n + 1 .. captured + 1
                 /\ \A i \in 1 .. Len(filled') : buffers'[held].n < buffers'[filled'[i]].n
      <4>1. buffers'[held].n = number(held) /\ number(held) \in frame.n + 1 .. captured
        BY <2>8, <2>10, <3>6 DEF OrderInv, InTurn, number
      <4>2. ASSUME NEW i \in 1 .. Len(filled')
            PROVE  buffers'[held].n < buffers'[filled'[i]].n
        <5>1. CASE i \in 1 .. Len(filled)
          BY <3>2, <3>6, <4>1, <5>1 DEF OrderInv, InTurn
        <5>2. CASE i = Len(filled) + 1
          BY <1>2, <2>4, <2>7, <4>1, <5>2
        <5> QED BY <3>3, <5>1, <5>2
      <4> QED BY <1>2, <4>1, <4>2
    <3> QED BY <1>1, <3>1, <3>4, <3>5, <3>6 DEF InTurn, number
  <2> QED BY <2>11, <2>12, <2>13 DEF OrderInv
<1> QED BY <1>3, <1>4

LEMMA GetFrameOrderInv == ASSUME Configured, DeviceInv, OrderInv, getFrame PROVE OrderInv'
<1>1. /\ held = None /\ filled # <<>> /\ held' = Head(filled) /\ filled' = Tail(filled)
      /\ queued' = queued /\ filled \in Seq(Nat \ {0})
      /\ UNCHANGED <<captured, buffers, frame, format>>
  BY DEF getFrame, dequeued, device, DeviceInv, DeviceTypeOK
<1>2. /\ held' = filled[1] /\ 1 \in 1 .. Len(filled)
      /\ Len(filled') = Len(filled) - 1 /\ Len(filled) \in Nat \ {0}
      /\ \A i \in 1 .. Len(filled') : filled'[i] = filled[i + 1] /\ i + 1 \in 2 .. Len(filled)
      /\ ToSet(filled) = {held'} \cup ToSet(filled')
  BY <1>1, Taken
<1>3. \A i \in 1 .. Len(filled') : i + 1 \in 1 .. Len(filled) /\ 1 < i + 1
  BY <1>2
<1>4. Apart'
  BY <1>1, <1>2 DEF OrderInv, Apart
<1>5. OfFormat'
  BY <1>1, <1>2 DEF OrderInv, OfFormat, number
<1>6. InTurn'
  <2>1. \A i \in 1 .. Len(filled') : number(filled'[i]) \in frame.n + 1 .. captured
    BY <1>2, <1>3 DEF OrderInv, InTurn
  <2>2. ASSUME NEW i \in 1 .. Len(filled'), NEW j \in 1 .. Len(filled'), i < j
        PROVE  number(filled'[i]) < number(filled'[j])
    <3>1. i + 1 \in 1 .. Len(filled) /\ j + 1 \in 1 .. Len(filled) /\ i + 1 < j + 1
      BY <1>3, <2>2
    <3> QED BY <1>2, <3>1 DEF OrderInv, InTurn
  <2>3. /\ number(held') \in frame.n + 1 .. captured
        /\ \A i \in 1 .. Len(filled') : number(held') < number(filled'[i])
    BY <1>2, <1>3 DEF OrderInv, InTurn
  <2> QED BY <1>1, <2>1, <2>2, <2>3 DEF OrderInv, InTurn, number
<1> QED BY <1>4, <1>5, <1>6 DEF OrderInv

LEMMA ReadFrameOrderInv == ASSUME Configured, DeviceInv, OrderInv, readFrame PROVE OrderInv'
<1>1. /\ held # None /\ held' = None /\ held \in Nat \ {0}
      /\ UNCHANGED <<filled, captured, buffers, format>>
      /\ queued \in Seq(Nat \ {0}) /\ filled \in Seq(Nat \ {0})
      /\ captured \in Nat /\ frame.n \in Nat
  BY DEF readFrame, device, DeviceInv, DeviceTypeOK, None
<1>2. OfFormat'
  BY <1>1 DEF OrderInv, OfFormat, number
<1>3. CASE queued' = Append(queued, held) /\ frame' = buffers[held]
  <2>1. /\ Len(queued') = Len(queued) + 1 /\ Len(queued) \in Nat
        /\ \A i \in 1 .. Len(queued) : queued'[i] = queued[i]
        /\ queued'[Len(queued) + 1] = held
    BY <1>1, <1>3, Appended
  <2>2. \A i \in 1 .. Len(queued') : i \in 1 .. Len(queued) \/ i = Len(queued) + 1
    BY <2>1
  <2>3. held \notin ToSet(filled)
    <3> SUFFICES ASSUME NEW i \in 1 .. Len(filled), filled[i] = held PROVE FALSE
      BY <1>1 DEF ToSet
    <3>1. number(held) < number(held) /\ number(held) \in Int
      BY <1>1 DEF OrderInv, InTurn
    <3> QED BY <3>1
  <2>4. Apart'
    <3>1. ASSUME NEW i \in 1 .. Len(queued'), NEW j \in 1 .. Len(queued'), i # j
          PROVE  queued'[i] # queued'[j]
      BY <2>1, <2>2, <3>1 DEF OrderInv, Apart
    <3>2. ASSUME NEW i \in 1 .. Len(queued')
          PROVE  queued'[i] \notin ToSet(filled) /\ queued'[i] # None
      <4>1. CASE i \in 1 .. Len(queued)
        <5>1. queued[i] \in Nat \ {0}
          BY <1>1, <4>1
        <5> QED BY <2>1, <4>1, <5>1 DEF OrderInv, Apart, None
      <4>2. CASE i = Len(queued) + 1
        BY <1>1, <2>1, <2>3, <4>2
      <4> QED BY <2>2, <4>1, <4>2
    <3> QED BY <1>1, <3>1, <3>2 DEF Apart
  <2>5. InTurn'
    <3>1. frame'.n = number(held) /\ number(held) \in frame.n + 1 .. captured
      BY <1>1, <1>3 DEF OrderInv, InTurn, number
    <3>2. ASSUME NEW i \in 1 .. Len(filled)
          PROVE  number(filled[i]) \in frame'.n + 1 .. captured
      <4>1. number(held) < number(filled[i]) /\ number(filled[i]) \in frame.n + 1 .. captured
        BY <1>1 DEF OrderInv, InTurn
      <4> QED BY <1>1, <3>1, <4>1
    <3> QED BY <1>1, <3>1, <3>2 DEF OrderInv, InTurn, number
  <2> QED BY <1>2, <2>4, <2>5 DEF OrderInv
<1>4. CASE UNCHANGED <<queued, frame>>
  <2>1. Apart'
    <3>1. \A i \in 1 .. Len(queued) : queued[i] # None
      BY <1>1 DEF None
    <3> QED BY <1>1, <1>4, <3>1 DEF OrderInv, Apart
  <2>2. InTurn'
    BY <1>1, <1>4 DEF OrderInv, InTurn, number
  <2> QED BY <1>2, <2>1, <2>2 DEF OrderInv
<1> QED BY <1>3, <1>4 DEF readFrame

LEMMA OrderStep ==
  ASSUME Configured PROVE DeviceInv /\ OrderInv /\ [CaptureNext]_captureVars => OrderInv'
<1> SUFFICES ASSUME DeviceInv, OrderInv, [CaptureNext]_captureVars PROVE OrderInv'
  OBVIOUS
<1>1. CASE configureEvent \/ configure
  BY <1>1, EventOrderInv
<1>2. CASE capture \/ doProcessFrame
  BY <1>2, CaptureOrderInv, GetFrameOrderInv, ReadFrameOrderInv DEF doProcessFrame
<1>3. CASE specificWriterConfig \/ disconnect
  BY <1>3, KeptOrderInv DEF specificWriterConfig, disconnect, device, driver, worker
<1>4. CASE UNCHANGED captureVars
  BY <1>4, KeptOrderInv DEF captureVars, device, driver, worker
<1> QED BY <1>1, <1>2, <1>3, <1>4 DEF CaptureNext

LEMMA DeviceInvariance == ASSUME Configured PROVE CaptureSpec => [](DeviceInv /\ OrderInv)
<1>1. CaptureInit => DeviceInv /\ OrderInv
  BY DeviceStart, OrderStart
<1>2. (DeviceInv /\ OrderInv) /\ [CaptureNext]_captureVars => (DeviceInv /\ OrderInv)'
  BY DeviceStep, OrderStep
<1> QED BY <1>1, <1>2, PTL DEF CaptureSpec
-----------------------------------------------------------------------------
(* configure, releaseDevice: whatever call of the device fails, an event   *)
(* leaves it capturing, with all its buffers mapped and accounted for, or  *)
(* closed and without a stream.                                            *)
THEOREM CapturesOrCloses == ASSUME Configured PROVE CaptureSpec => []NeverHalfway
<1>1. DeviceInv => NeverHalfway
  <2> SUFFICES ASSUME DeviceInv, Idle PROVE NeverHalfway
    BY DEF NeverHalfway
  <2>1. (Off /\ status = "CLOSE" /\ ~fd) \/ Capturing
    BY DEF DeviceInv, SetUp
  <2>2. ToSet(queued \o filled) = ToSet(queued) \cup ToSet(filled)
    BY Together DEF DeviceInv, DeviceTypeOK
  <2>3. fd \in BOOLEAN
    BY DEF DeviceInv, DeviceTypeOK
  <2> QED BY <2>1, <2>2, <2>3 DEF NeverHalfway, Off, Capturing
<1> QED BY <1>1, DeviceInvariance, PTL

(* getFrame, readFrame: frames are put out in the order they were captured *)
(* in and in the format of the device, out of memory that is mapped, also  *)
(* when buffers cannot be given back and the driver has none left.         *)
THEOREM FramesInOrder ==
  ASSUME Configured PROVE CaptureSpec => [][FramesForward]_captureVars
<1>1. DeviceInv /\ OrderInv /\ [CaptureNext]_captureVars => [FramesForward]_captureVars
  <2> SUFFICES ASSUME DeviceInv, OrderInv, CaptureNext, frame' # frame
               PROVE  frame'.n > frame.n /\ frame'.format = format /\ held \in mapped
    BY DEF FramesForward
  <2>1. readFrame /\ frame' = buffers[held] /\ held # None
    BY DEF CaptureNext, configureEvent, configure, openDevice, initDevice, startCapturing,
           stopCapturing, uninitDevice, release, releaseDevice, streamOff, capture,
           specificWriterConfig, disconnect, doProcessFrame, getFrame, readFrame, driver,
           worker
  <2>2. frame'.n \in frame.n + 1 .. captured /\ frame.n \in Nat /\ captured \in Nat
    BY <2>1 DEF OrderInv, InTurn, number, DeviceInv, DeviceTypeOK
  <2>3. frame'.format = format
    <3>1. held \in ToSet(filled) \cup ({held} \ {None})
      BY <2>1
    <3>2. buffers[held] = [n |-> number(held), format |-> format]
      BY <3>1 DEF OrderInv, OfFormat
    <3> QED BY <2>1, <3>2
  <2>4. held \in mapped
    BY <2>1, Works DEF DeviceInv, Alone, Capturing
  <2> QED BY <2>2, <2>3, <2>4
<1> QED BY <1>1, DeviceInvariance, PTL DEF CaptureSpec
-----------------------------------------------------------------------------
(* No change of the count of elements is lost.                             *)
Counted == BufferAssumption /\ Atomic

Samples == [no : Nat, ts : Nat, real : BOOLEAN]

(* The first sample that the reader has not taken, and the one behind the  *)
(* last that the writer has put in, those being copied included.           *)
taken == front + (IF pc["R"] = "copied" THEN OutSamples ELSE 0)
put == rear + (IF pc["W"] = "frame" THEN InSamples
               ELSE IF pc["W"] = "padding" THEN inputTs - (rear + syncTimestamp) ELSE 0)

one(sample) == IF sample.real THEN 1 ELSE 0

Counters ==
  /\ rear \in Nat /\ front \in Nat /\ elements \in Int
  /\ syncTimestamp \in Nat /\ inputTs \in Nat /\ accepted \in Nat /\ nextOut \in Int

Labels ==
  /\ pc = [t \in {"W", "R"} |-> pc[t]]
  /\ pc["W"] \in {"idle", "padding", "push", "frame"} /\ pc["R"] \in {"idle", "copied"}
  /\ synchronized \in BOOLEAN /\ fillNewFrame \in BOOLEAN

Output == outputFrame \in [ts : Nat, samples : Seq(Samples), first : Int]

BufferTypeOK == Counters /\ Labels /\ Output /\ data \in [Places -> Samples]

(* The ends of what is in the buffer, with what is being copied.           *)
Ends ==
  /\ elements = rear - front /\ taken <= rear /\ put <= front + channelMaxLength
  /\ pc["W"] # "idle" => synchronized
  /\ pc["W"] = "padding" => inputTs - (rear + syncTimestamp) > 0
  /\ pc["W"] = "push" => inputTs = rear + syncTimestamp
  /\ ~synchronized => rear = 0 /\ front = 0 /\ pc["R"] = "idle"

(* Each of its places tells how many samples came up to it.                *)
Numbered ==
  /\ \A p \in taken .. put - 1 :
       data[place(p)].no =
         (IF p = taken THEN nextOut - 1 ELSE data[place(p - 1)].no) + one(data[place(p)])
  /\ accepted = IF put = taken THEN nextOut - 1 ELSE data[place(put - 1)].no

InPlace ==
  \A p \in taken .. put - 1 :
    data[place(p)].real => data[place(p)].ts - (p + syncTimestamp) \in -Threshold .. Threshold

(* What was copied out.                                                    *)
OutInTime ==
  pc["R"] = "copied" \/ ~fillNewFrame =>
    \A i \in 1 .. Len(outputFrame.samples) :
      outputFrame.samples[i].real =>
        outputFrame.samples[i].ts - (outputFrame.ts + i - 1) \in -Threshold .. Threshold

Content == Ends /\ Numbered /\ InPlace
BufferInv == BufferTypeOK /\ Content /\ InOrder /\ OutInTime

LEMMA Length == ASSUME Counted PROVE channelMaxLength \in Nat \ {0}
BY DEF Counted, BufferAssumption, channelMaxLength

(* Less than a length apart, numbers have remainders of their own.         *)
LEMMA Wraps ==
  ASSUME NEW l \in Nat \ {0}, NEW m \in Nat, NEW n \in Nat, m < n, n < m + l
  PROVE  m % l # n % l /\ m % l \in 0 .. l - 1
<1>1. m = l * (m \div l) + (m % l) /\ m % l \in 0 .. l - 1 /\ m \div l \in Int
  OBVIOUS
<1>2. n = l * (n \div l) + (n % l) /\ n % l \in 0 .. l - 1 /\ n \div l \in Int
  OBVIOUS
<1>3. SUFFICES ASSUME m % l = n % l PROVE FALSE
  BY <1>1
<1>4. DEFINE k == n \div l - m \div l
<1>5. k \in Int /\ l * k = n - m
  BY <1>1, <1>2, <1>3
<1>6. l * k > 0 /\ l * k < l
  BY <1>5
<1> HIDE DEF k
<1>7. CASE k <= 0
  BY <1>5, <1>6, <1>7
<1>8. CASE k >= 1
  BY <1>5, <1>6, <1>8
<1> QED BY <1>5, <1>7, <1>8

(* No two samples in the buffer have the same place.                       *)
LEMMA OwnPlaces ==
  ASSUME Counted, NEW m \in Nat, NEW n \in Nat, m < n + channelMaxLength,
         n < m + channelMaxLength
  PROVE  place(m) \in Places /\ (place(m) = place(n) => m = n)
<1>1. channelMaxLength \in Nat \ {0}
  BY Length
<1>2. m % channelMaxLength \in 0 .. channelMaxLength - 1
  BY <1>1
<1>3. CASE m < n
  BY <1>1, <1>2, <1>3, Wraps DEF place, Places
<1>4. CASE n < m
  BY <1>1, <1>2, <1>4, Wraps DEF place, Places
<1> QED BY <1>2, <1>3, <1>4 DEF place, Places

(* pushBack: what it copies comes behind what is in the buffer.            *)
LEMMA CopiedIn ==
  ASSUME Counted, BufferTypeOK, NEW samples \in Seq(Samples), copyIn(samples),
         front <= rear, rear + Len(samples) <= front + channelMaxLength
  PROVE  /\ data' \in [Places -> Samples]
         /\ \A p \in front .. rear + Len(samples) - 1 :
              data'[place(p)] = IF p < rear THEN data[place(p)] ELSE samples[p - rear + 1]
<1> DEFINE n == Len(samples)
           S(x) == {i \in 1 .. n : place(rear + i - 1) = x}
<1>1. n \in Nat /\ \A i \in 1 .. n : samples[i] \in Samples
  OBVIOUS
<1>2. /\ rear \in Nat /\ front \in Nat /\ channelMaxLength \in Nat \ {0}
      /\ data \in [Places -> Samples]
  BY Length DEF BufferTypeOK, Counters
<1>3. data' = [x \in Places |-> IF S(x) = {} THEN data[x] ELSE samples[Max(S(x))]]
  BY DEF copyIn
<1>4. n <= channelMaxLength /\ rear + n <= front + channelMaxLength
  BY <1>1, <1>2
<1> HIDE DEF n
<1>5. ASSUME NEW x \in Places, NEW i \in S(x)
      PROVE  S(x) = {i} /\ Max(S(x)) = i /\ i \in 1 .. n
  <2>1. ASSUME NEW j \in S(x) PROVE j = i
    <3>1. /\ rear + i - 1 \in Nat /\ rear + j - 1 \in Nat
          /\ rear + i - 1 < rear + j - 1 + channelMaxLength
          /\ rear + j - 1 < rear + i - 1 + channelMaxLength
      BY <1>1, <1>2, <1>4
    <3>2. place(rear + i - 1) = place(rear + j - 1)
      OBVIOUS
    <3> QED BY <1>1, <1>2, <3>1, <3>2, OwnPlaces
  <2>2. S(x) = {i} /\ i \in 1 .. n
    BY <2>1
  <2>3. Max({i}) = i
    BY <1>1, <2>2 DEF Max
  <2> QED BY <2>2, <2>3
<1>6. data' \in [Places -> Samples]
  <2> SUFFICES ASSUME NEW x \in Places
               PROVE  (IF S(x) = {} THEN data[x] ELSE samples[Max(S(x))]) \in Samples
    BY <1>3
  <2>1. CASE S(x) = {}
    BY <1>2, <2>1
  <2>2. CASE S(x) # {}
    <3>1. PICK i : i \in S(x)
      BY <2>2
    <3>2. Max(S(x)) = i /\ i \in 1 .. n
      BY <1>5, <3>1
    <3> QED BY <1>1, <2>2, <3>2
  <2> QED BY <2>1, <2>2
<1>7. ASSUME NEW p \in front .. rear + n - 1
      PROVE  data'[place(p)] = IF p < rear THEN data[place(p)] ELSE samples[p - rear + 1]
  <2>1. p \in Nat /\ place(p) \in Places
    BY <1>1, <1>2, OwnPlaces
  <2>2. data'[place(p)] = IF S(place(p)) = {} THEN data[place(p)] ELSE samples[Max(S(place(p)))]
    BY <1>3, <2>1
  <2>3. CASE p < rear
    <3>1. ASSUME NEW i \in S(place(p)) PROVE FALSE
      <4>1. /\ i \in 1 .. n /\ place(rear + i - 1) = place(p)
        BY <1>1
      <4>2. /\ rear + i - 1 \in Nat /\ rear + i - 1 < p + channelMaxLength
            /\ p < rear + i - 1 + channelMaxLength /\ rear + i - 1 # p
        BY <1>1, <1>2, <1>4, <2>1, <2>3, <4>1
      <4> QED BY <2>1, <4>1, <4>2, OwnPlaces
    <3> HIDE DEF S
    <3>2. S(place(p)) = {}
      BY <3>1
    <3> QED BY <2>2, <2>3, <3>2
  <2>4. CASE p >= rear
    <3>1. p - rear + 1 \in 1 .. n /\ rear + (p - rear + 1) - 1 = p
      BY <1>1, <1>2, <2>1, <2>4
    <3>2. p - rear + 1 \in S(place(p))
      BY <3>1
    <3> HIDE DEF S
    <3>3. Max(S(place(p))) = p - rear + 1 /\ S(place(p)) # {}
      BY <1>5, <2>1, <3>2
    <3>4. ~(p < rear)
      BY <1>2, <2>1, <2>4
    <3> QED BY <2>2, <3>3, <3>4
  <2> QED BY <1>2, <2>1, <2>3, <2>4
<1> QED BY <1>6, <1>7 DEF n

LEMMA Frame ==
  ASSUME NEW S, NEW samples \in S, NEW ts \in Nat, NEW first \in Int
  PROVE  [ts |-> ts, samples |-> samples, first |-> first] \in [ts : Nat, samples : S, first : Int]
OBVIOUS

LEMMA BufferStart == ASSUME Counted PROVE BufferInit => BufferInv
<1> SUFFICES ASSUME BufferInit PROVE BufferInv
  OBVIOUS
<1>1. /\ rear = 0 /\ front = 0 /\ elements = 0 /\ accepted = 0 /\ nextOut = 1
      /\ pc["W"] = "idle" /\ pc["R"] = "idle" /\ fillNewFrame = TRUE
      /\ channelMaxLength \in Nat \ {0} /\ synchronized = FALSE
      /\ syncTimestamp = 0 /\ inputTs = 0
  BY Length DEF BufferInit
<1>2. BufferTypeOK
  <2>1. data \in [Places -> Samples]
    BY DEF BufferInit, silenceAfter, Samples
  <2>2. <<>> \in Seq(Samples)
    OBVIOUS
  <2>3. Output
    BY <2>2, Frame DEF BufferInit, Output
  <2>4. Labels
    BY DEF BufferInit, Labels
  <2>5. Counters
    BY <1>1 DEF Counters
  <2> QED BY <2>1, <2>3, <2>4, <2>5 DEF BufferTypeOK
<1>3. taken = 0 /\ put = 0
  BY <1>1 DEF taken, put
<1>4. Content
  BY <1>1, <1>3 DEF Content, Ends, Numbered, InPlace
<1>5. InOrder /\ OutInTime
  BY <1>1 DEF BufferInit, InOrder, OutInTime
<1> QED BY <1>2, <1>4, <1>5 DEF BufferInv

(* Samples that may come behind what is in the buffer, which is in step    *)
(* with the time sync.                                                     *)
Follow(samples, sync) ==
  \A i \in 1 .. Len(samples) :
    /\ samples[i].no = (IF i = 1 THEN accepted ELSE samples[i - 1].no) + one(samples[i])
    /\ samples[i].real =>
         samples[i].ts - (rear + i - 1 + sync) \in -Threshold .. Threshold

(* Samples that are pushed, each with the number that it should have and   *)
(* at its time, extend what is in the buffer.                              *)
LEMMA Pushed ==
  ASSUME Counted, BufferTypeOK, Content, pc["W"] \in {"idle", "push"},
         NEW samples \in Seq(Samples), Len(samples) > 0, room(Len(samples)), copyIn(samples),
         taken' = taken, put' = rear + Len(samples), nextOut' = nextOut,
         accepted' = samples[Len(samples)].no,
         syncTimestamp' \in Nat, synchronized => syncTimestamp' = syncTimestamp,
         Follow(samples, syncTimestamp')
  PROVE  /\ data' \in [Places -> Samples] /\ put' <= front + channelMaxLength
         /\ Numbered' /\ InPlace'
<1> DEFINE n == Len(samples)
<1>1. /\ rear \in Nat /\ front \in Nat /\ channelMaxLength \in Nat \ {0} /\ OutSamples \in Nat
      /\ taken \in Nat /\ front <= taken /\ taken <= rear /\ put = rear /\ n \in Nat \ {0}
      /\ rear + n <= front + channelMaxLength
      /\ syncTimestamp' \in Nat /\ syncTimestamp \in Nat
      /\ ~synchronized => rear = taken
  <2>1. /\ rear \in Nat /\ front \in Nat /\ channelMaxLength \in Nat \ {0} /\ OutSamples \in Nat
        /\ syncTimestamp' \in Nat /\ syncTimestamp \in Nat
    BY Length DEF BufferTypeOK, Counters, Counted, BufferAssumption
  <2>2. elements = rear - front /\ taken <= rear /\ (~synchronized => rear = 0 /\ front = 0)
    BY DEF Content, Ends
  <2>3. put = rear
    BY <2>1 DEF put
  <2>4. taken \in Nat /\ front <= taken
    BY <2>1 DEF taken
  <2>5. n \in Nat \ {0} /\ rear + n <= front + channelMaxLength
    BY <2>1, <2>2 DEF room
  <2> QED BY <2>1, <2>2, <2>3, <2>4, <2>5
<1>2. /\ data' \in [Places -> Samples]
      /\ \A p \in front .. rear + n - 1 :
           data'[place(p)] = IF p < rear THEN data[place(p)] ELSE samples[p - rear + 1]
  BY <1>1, CopiedIn
<1>3. \A i \in 1 .. n :
        /\ samples[i].no = (IF i = 1 THEN accepted ELSE samples[i - 1].no) + one(samples[i])
        /\ samples[i].real =>
             samples[i].ts - (rear + i - 1 + syncTimestamp') \in -Threshold .. Threshold
  BY DEF Follow
<1>4. /\ taken' = taken /\ put' = rear + n /\ nextOut' = nextOut /\ accepted' = samples[n].no
  OBVIOUS
<1>5. /\ \A p \in taken .. rear - 1 :
           data[place(p)].no =
             (IF p = taken THEN nextOut - 1 ELSE data[place(p - 1)].no) + one(data[place(p)])
      /\ accepted = IF rear = taken THEN nextOut - 1 ELSE data[place(rear - 1)].no
      /\ \A p \in taken .. rear - 1 :
           data[place(p)].real =>
             data[place(p)].ts - (p + syncTimestamp) \in -Threshold .. Threshold
  BY <1>1 DEF Content, Numbered, InPlace
<1> HIDE DEF n
<1>6. ASSUME NEW p \in taken .. rear + n - 1
      PROVE  /\ data'[place(p)] = IF p < rear THEN data[place(p)] ELSE samples[p - rear + 1]
             /\ p >= rear => p - rear + 1 \in 1 .. n
  <2>1. p \in front .. rear + n - 1
    BY <1>1
  <2>2. p >= rear => p - rear + 1 \in 1 .. n
    BY <1>1
  <2> QED BY <1>2, <2>1, <2>2
<1>7. ASSUME NEW p \in taken .. rear + n - 1
      PROVE  data'[place(p)].no =
               (IF p = taken THEN nextOut - 1 ELSE data'[place(p - 1)].no)
               + one(data'[place(p)])
  <2>1. CASE p < rear
    <3>1. /\ data'[place(p)] = data[place(p)]
          /\ p # taken => data'[place(p - 1)] = data[place(p - 1)]
      BY <1>1, <1>6, <2>1
    <3>2. p \in taken .. rear - 1
      BY <1>1, <2>1
    <3> QED BY <1>5, <3>1, <3>2
  <2>2. CASE p = rear
    <3>1. data'[place(p)] = samples[1] /\ samples[1].no = accepted + one(samples[1])
      <4>1. ~(p < rear) /\ p - rear + 1 = 1 /\ 1 \in 1 .. n
        BY <1>1, <2>2
      <4>2. data'[place(p)] = samples[1]
        BY <1>6, <4>1
      <4> QED BY <1>3, <4>1, <4>2
    <3>2. p # taken => data'[place(p - 1)] = data[place(p - 1)]
      BY <1>1, <1>6, <2>2
    <3> QED BY <1>1, <1>5, <2>2, <3>1, <3>2
  <2>3. CASE p > rear
    <3> DEFINE i == p - rear + 1
    <3>1. i \in 1 .. n /\ i # 1 /\ p # taken /\ i - 1 = (p - 1) - rear + 1
      BY <1>1, <2>3
    <3>2. data'[place(p)] = samples[i] /\ data'[place(p - 1)] = samples[i - 1]
      BY <1>1, <1>6, <2>3
    <3> HIDE DEF i
    <3>3. samples[i].no = samples[i - 1].no + one(samples[i])
      BY <1>3, <3>1
    <3> QED BY <3>1, <3>2, <3>3
  <2> QED BY <1>1, <2>1, <2>2, <2>3
<1>8. accepted' = data'[place(put' - 1)].no /\ put' # taken'
  <2>1. data'[place(rear + n - 1)] = samples[n] /\ rear + n - 1 = put' - 1
    <3>1. rear + n - 1 \in taken .. rear + n - 1 /\ (rear + n - 1) - rear + 1 = n
          /\ ~(rear + n - 1 < rear)
      BY <1>1
    <3>2. data'[place(rear + n - 1)] = samples[(rear + n - 1) - rear + 1]
      BY <1>6, <3>1
    <3>3. rear + n - 1 = put' - 1
      BY <1>1, <1>4
    <3> QED BY <3>1, <3>2, <3>3
  <2>2. accepted' = data'[place(put' - 1)].no
    BY <1>4, <2>1
  <2>3. put' # taken'
    BY <1>1, <1>4
  <2> QED BY <2>2, <2>3
<1>9. ASSUME NEW p \in taken .. rear + n - 1, data'[place(p)].real
      PROVE  data'[place(p)].ts - (p + syncTimestamp') \in -Threshold .. Threshold
  <2>1. CASE p < rear
    <3>1. synchronized /\ syncTimestamp' = syncTimestamp
      BY <1>1, <2>1
    <3>2. data'[place(p)] = data[place(p)]
      BY <1>6, <2>1
    <3>3. p \in taken .. rear - 1
      BY <1>1, <2>1
    <3> QED BY <1>5, <1>9, <3>1, <3>2, <3>3
  <2>2. CASE p >= rear
    <3> DEFINE i == p - rear + 1
    <3>1. i \in 1 .. n /\ data'[place(p)] = samples[i] /\ rear + i - 1 = p
      BY <1>1, <1>6, <2>2
    <3> HIDE DEF i
    <3> QED BY <1>3, <1>9, <3>1
  <2> QED BY <1>1, <2>1, <2>2
<1>10. Numbered'
  <2>1. taken' .. put' - 1 = taken .. rear + n - 1
    BY <1>1, <1>4
  <2>2. \A p \in taken' .. put' - 1 :
          data'[place(p)].no = (IF p = taken' THEN nextOut' - 1 ELSE data'[place(p - 1)].no)
                               + one(data'[place(p)])
    <3> SUFFICES ASSUME NEW p \in taken' .. put' - 1
                 PROVE  data'[place(p)].no =
                          (IF p = taken' THEN nextOut' - 1 ELSE data'[place(p - 1)].no)
                          + one(data'[place(p)])
      OBVIOUS
    <3>1. p \in taken .. rear + n - 1
      BY <2>1
    <3> QED BY <1>4, <1>7, <3>1
  <2>3. accepted' = IF put' = taken' THEN nextOut' - 1 ELSE data'[place(put' - 1)].no
    BY <1>8
  <2> QED BY <2>2, <2>3 DEF Numbered
<1>11. InPlace'
  <2>1. \A p \in taken' .. put' - 1 :
          data'[place(p)].real =>
            data'[place(p)].ts - (p + syncTimestamp') \in -Threshold .. Threshold
    <3> SUFFICES ASSUME NEW p \in taken' .. put' - 1, data'[place(p)].real
                 PROVE  data'[place(p)].ts - (p + syncTimestamp') \in -Threshold .. Threshold
      OBVIOUS
    <3>1. p \in taken .. rear + n - 1
      BY <1>1, <1>4
    <3> QED BY <1>9, <3>1
  <2> QED BY <2>1 DEF InPlace
<1> QED BY <1>1, <1>2, <1>4, <1>10, <1>11

(* What is in the buffer stays as it is.                                   *)
LEMMA Kept ==
  ASSUME Numbered, InPlace, data' = data, taken' = taken, put' = put,
         nextOut' = nextOut, accepted' = accepted,
         syncTimestamp' = syncTimestamp \/ put = taken, taken \in Int
  PROVE  Numbered' /\ InPlace'
<1>1. Numbered'
  <2>1. \A p \in taken' .. put' - 1 :
          data'[place(p)].no = (IF p = taken' THEN nextOut' - 1 ELSE data'[place(p - 1)].no)
                               + one(data'[place(p)])
    BY DEF Numbered
  <2>2. accepted' = IF put' = taken' THEN nextOut' - 1 ELSE data'[place(put' - 1)].no
    BY DEF Numbered
  <2> QED BY <2>1, <2>2 DEF Numbered
<1>2. InPlace'
  <2>1. \A p \in taken' .. put' - 1 :
          data'[place(p)].real =>
            data'[place(p)].ts - (p + syncTimestamp') \in -Threshold .. Threshold
    BY DEF InPlace
  <2> QED BY <2>1 DEF InPlace
<1> QED BY <1>1, <1>2

(* What was copied out stays as it is.                                     *)
LEMMA OutKept ==
  ASSUME InOrder, OutInTime, outputFrame' = outputFrame,
         pc'["R"] = "copied" \/ ~fillNewFrame' => pc["R"] = "copied" \/ ~fillNewFrame
  PROVE  InOrder' /\ OutInTime'
<1>1. InOrder'
  BY DEF InOrder
<1>2. OutInTime'
  BY DEF OutInTime
<1> QED BY <1>1, <1>2

LEMMA SamplesPushed ==
  ASSUME Counted, BufferTypeOK, NEW ts \in Nat
  PROVE  /\ samplesOf(ts) \in Seq(Samples) /\ Len(samplesOf(ts)) = InSamples
         /\ \A i \in 1 .. InSamples : samplesOf(ts)[i] = sampleAt(accepted + i, ts + i - 1)
         /\ InSamples \in Nat \ {0}
<1>1. InSamples \in Nat \ {0} /\ accepted \in Nat
  BY DEF Counted, BufferAssumption, BufferTypeOK, Counters
<1>2. \A i \in 1 .. InSamples : sampleAt(accepted + i, ts + i - 1) \in Samples
  BY <1>1 DEF Samples, sampleAt
<1>3. /\ DOMAIN samplesOf(ts) = 1 .. InSamples
      /\ \A i \in 1 .. InSamples : samplesOf(ts)[i] = sampleAt(accepted + i, ts + i - 1)
  BY DEF samplesOf
<1>4. samplesOf(ts) \in Seq(Samples) /\ Len(samplesOf(ts)) = InSamples
  <2>1. [i \in 1 .. InSamples |-> sampleAt(accepted + i, ts + i - 1)]
          \in [1 .. InSamples -> Samples]
    BY <1>2
  <2>2. samplesOf(ts) \in [1 .. InSamples -> Samples]
    BY <2>1 DEF samplesOf
  <2> QED BY <1>1, <1>3, <2>2, SeqDef, LenProperties
<1> QED BY <1>1, <1>3, <1>4

LEMMA Lengths ==
  ASSUME Counted, BufferTypeOK
  PROVE  /\ rear \in Nat /\ front \in Nat /\ elements \in Int /\ syncTimestamp \in Nat
         /\ inputTs \in Nat /\ accepted \in Nat /\ nextOut \in Int
         /\ channelMaxLength \in Nat \ {0} /\ InSamples \in Nat \ {0}
         /\ OutSamples \in Nat \ {0} /\ Threshold \in Nat
         /\ taken \in Nat /\ taken = front + (IF pc["R"] = "copied" THEN OutSamples ELSE 0)
         /\ pc["W"] \in {"idle", "push"} => put = rear
BY Length DEF Counted, BufferAssumption, BufferTypeOK, Counters, taken, put

(* pushFrame, when the time of the frame is that of the place behind what  *)
(* is in the buffer, but for the deviation that is tolerated.              *)
LEMMA FramePushed ==
  ASSUME Counted, BufferTypeOK, Content, pc["W"] \in {"idle", "push"},
         NEW ts \in Nat, pushFrame(ts), UNCHANGED <<countVars, readerVars, nextOut>>,
         syncTimestamp' \in Nat, synchronized' = TRUE,
         synchronized => syncTimestamp' = syncTimestamp, inputTs' \in Nat,
         ts - (rear + syncTimestamp') \in -Threshold .. Threshold
  PROVE  BufferTypeOK' /\ Content' /\ pc'["R"] = pc["R"]
<1>1. /\ rear \in Nat /\ front \in Nat /\ elements \in Int /\ syncTimestamp \in Nat
      /\ accepted \in Nat /\ nextOut \in Int
      /\ channelMaxLength \in Nat \ {0} /\ InSamples \in Nat \ {0} /\ Threshold \in Nat
      /\ taken \in Nat /\ put = rear
  BY Lengths
<1>2. /\ rear' = rear /\ front' = front /\ elements' = elements /\ nextOut' = nextOut
      /\ fillNewFrame' = fillNewFrame /\ outputFrame' = outputFrame
  BY DEF countVars, readerVars
<1>3. Labels /\ Output /\ data \in [Places -> Samples]
  BY DEF BufferTypeOK
<1>4. /\ elements = rear - front /\ taken <= rear /\ put <= front + channelMaxLength
      /\ ~synchronized => rear = 0 /\ front = 0 /\ pc["R"] = "idle"
      /\ Numbered /\ InPlace
  BY DEF Content, Ends
<1>5. CASE room(InSamples)
  <2> DEFINE samples == samplesOf(ts)
  <2>1. /\ samples \in Seq(Samples) /\ Len(samples) = InSamples
        /\ \A i \in 1 .. InSamples : samples[i] = sampleAt(accepted + i, ts + i - 1)
    BY SamplesPushed
  <2>2. copyIn(samples) /\ accepted' = accepted + InSamples /\ pc' = [pc EXCEPT !["W"] = "frame"]
    BY <1>5 DEF pushFrame, goto
  <2>3. pc'["W"] = "frame" /\ pc'["R"] = pc["R"] /\ Labels'
    BY <1>2, <1>3, <2>2 DEF Labels
  <2>4. taken' = taken /\ put' = rear + InSamples
    BY <1>2, <2>3 DEF taken, put
  <2> HIDE DEF samples
  <2>5. Follow(samples, syncTimestamp') /\ accepted' = samples[Len(samples)].no
    <3>1. ASSUME NEW i \in 1 .. InSamples
          PROVE  samples[i].no = (IF i = 1 THEN accepted ELSE samples[i - 1].no)
                                 + one(samples[i])
      <4>1. samples[i].no = accepted + i /\ one(samples[i]) = 1
        BY <2>1 DEF sampleAt, one
      <4>2. i # 1 => samples[i - 1].no = accepted + (i - 1)
        BY <1>1, <2>1 DEF sampleAt
      <4> QED BY <1>1, <4>1, <4>2
    <3>2. ASSUME NEW i \in 1 .. InSamples
          PROVE  samples[i].ts - (rear + i - 1 + syncTimestamp') \in -Threshold .. Threshold
      <4>1. samples[i].ts = ts + i - 1
        BY <2>1 DEF sampleAt
      <4>2. samples[i].ts - (rear + i - 1 + syncTimestamp') = ts - (rear + syncTimestamp')
        BY <1>1, <4>1
      <4> QED BY <4>2
    <3>3. InSamples \in 1 .. InSamples /\ samples[InSamples].no = accepted + InSamples
      BY <1>1, <2>1 DEF sampleAt
    <3> QED BY <2>1, <2>2, <3>1, <3>2, <3>3 DEF Follow
  <2>6. room(Len(samples)) /\ Len(samples) > 0 /\ put' = rear + Len(samples)
    BY <1>1, <1>5, <2>1, <2>4
  <2>7. /\ data' \in [Places -> Samples] /\ put' <= front + channelMaxLength
        /\ Numbered' /\ InPlace'
    BY <1>2, <2>1, <2>2, <2>4, <2>5, <2>6, Pushed
  <2>8. BufferTypeOK'
    <3>1. accepted' \in Nat
      BY <1>1, <2>2
    <3>2. Counters'
      BY <1>1, <1>2, <3>1 DEF Counters
    <3> QED BY <1>2, <1>3, <2>3, <2>7, <3>2 DEF BufferTypeOK, Output
  <2>9. elements' = rear' - front' /\ taken' <= rear' /\ put' <= front' + channelMaxLength
    BY <1>2, <1>4, <2>4, <2>7
  <2>10. Ends'
    BY <2>3, <2>9 DEF Ends
  <2> QED BY <2>3, <2>7, <2>8, <2>10 DEF Content
<1>6. CASE ~room(InSamples)
  <2>1. data' = data /\ accepted' = accepted /\ pc' = [pc EXCEPT !["W"] = "idle"]
    BY <1>6 DEF pushFrame, goto
  <2>2. pc'["W"] = "idle" /\ pc'["R"] = pc["R"] /\ Labels'
    BY <1>2, <1>3, <2>1 DEF Labels
  <2>3. taken' = taken /\ put' = put
    BY <1>1, <1>2, <2>2 DEF taken, put
  <2>4. Numbered' /\ InPlace'
    <3>1. syncTimestamp' = syncTimestamp \/ put = taken
      BY <1>1, <1>4 DEF taken
    <3> QED BY <1>1, <1>2, <1>4, <2>1, <2>3, <3>1, Kept
  <2>5. BufferTypeOK'
    BY <1>1, <1>2, <1>3, <2>1, <2>2 DEF BufferTypeOK, Counters, Output
  <2>6. Ends'
    BY <1>1, <1>2, <1>4, <2>2, <2>3 DEF Ends
  <2> QED BY <2>2, <2>4, <2>5, <2>6 DEF Content
<1> QED BY <1>5, <1>6

LEMMA AddFrame ==
  ASSUME Counted, BufferInv, NEW ts \in Int, addFrame(ts)
  PROVE  BufferInv'
<1>1. /\ rear \in Nat /\ syncTimestamp \in Nat /\ Threshold \in Nat
  BY Lengths DEF BufferInv
<1>2. /\ BufferTypeOK /\ Content /\ InOrder /\ OutInTime /\ pc["W"] = "idle"
      /\ ts \in Nat /\ inputTs' = ts /\ synchronized' = TRUE
      /\ syncTimestamp' = (IF synchronized THEN syncTimestamp ELSE ts)
      /\ pushFrame(ts) /\ UNCHANGED <<countVars, readerVars, nextOut>>
  BY DEF BufferInv, addFrame, begin, synchronize
<1>3. ts - (rear + syncTimestamp') \in -Threshold .. Threshold /\ syncTimestamp' \in Nat
  <2>1. ~(deviation(ts) < -Threshold) /\ ~(deviation(ts) > Threshold)
    BY DEF addFrame, late, early
  <2>2. deviation(ts) = ts - (rear + syncTimestamp')
    BY <1>1, <1>2 DEF deviation
  <2>3. syncTimestamp' \in Nat
    BY <1>1, <1>2
  <2> QED BY <1>1, <1>2, <2>1, <2>2, <2>3
<1>4. BufferTypeOK' /\ Content' /\ pc'["R"] = pc["R"]
  BY <1>2, <1>3, FramePushed
<1>5. InOrder' /\ OutInTime'
  BY <1>2, <1>4, OutKept DEF readerVars
<1> QED BY <1>4, <1>5 DEF BufferInv

LEMMA PushPadded == ASSUME Counted, BufferInv, pushPadded PROVE BufferInv'
<1>1. /\ rear \in Nat /\ syncTimestamp \in Nat /\ inputTs \in Nat /\ Threshold \in Nat
  BY Lengths DEF BufferInv
<1>2. /\ BufferTypeOK /\ Content /\ InOrder /\ OutInTime /\ pc["W"] = "push"
      /\ pushFrame(inputTs) /\ UNCHANGED <<countVars, syncVars, readerVars, nextOut>>
  BY DEF BufferInv, pushPadded
<1>3. synchronized /\ inputTs = rear + syncTimestamp
  BY <1>2 DEF Content, Ends
<1>4. /\ synchronized' = TRUE /\ syncTimestamp' = syncTimestamp /\ inputTs' = inputTs
      /\ inputTs - (rear + syncTimestamp') \in -Threshold .. Threshold
  <2>1. synchronized' = synchronized /\ syncTimestamp' = syncTimestamp /\ inputTs' = inputTs
    BY <1>2 DEF syncVars
  <2>2. synchronized \in BOOLEAN
    BY <1>2 DEF BufferTypeOK, Labels
  <2> QED BY <1>1, <1>3, <2>1, <2>2
<1>5. BufferTypeOK' /\ Content' /\ pc'["R"] = pc["R"]
  BY <1>1, <1>2, <1>4, FramePushed
<1>6. InOrder' /\ OutInTime'
  BY <1>2, <1>5, OutKept DEF readerVars
<1> QED BY <1>5, <1>6 DEF BufferInv

LEMMA DiscardFrame ==
  ASSUME Counted, BufferInv, NEW ts \in Int, discardFrame(ts)
  PROVE  BufferInv'
<1>1. /\ rear \in Nat /\ syncTimestamp \in Nat /\ taken \in Nat /\ put = rear
      /\ taken = front + (IF pc["R"] = "copied" THEN OutSamples ELSE 0) /\ front \in Nat
  BY Lengths DEF BufferInv, discardFrame, begin
<1>2. /\ BufferTypeOK /\ Content /\ InOrder /\ OutInTime /\ pc["W"] = "idle"
      /\ ts \in Nat /\ inputTs' = ts /\ synchronized' = TRUE
      /\ syncTimestamp' = (IF synchronized THEN syncTimestamp ELSE ts)
      /\ UNCHANGED <<data, countVars, read, readerVars, pc, accepted, nextOut>>
  BY DEF BufferInv, discardFrame, begin, synchronize
<1>3. /\ rear' = rear /\ front' = front /\ elements' = elements /\ nextOut' = nextOut
      /\ fillNewFrame' = fillNewFrame /\ outputFrame' = outputFrame /\ pc' = pc
      /\ data' = data /\ accepted' = accepted
  BY <1>2 DEF countVars, readerVars
<1>4. taken' = taken /\ put' = put
  BY <1>1, <1>2, <1>3 DEF taken, put
<1>5. BufferTypeOK'
  BY <1>1, <1>2, <1>3 DEF BufferTypeOK, Counters, Labels, Output
<1>6. Ends'
  BY <1>2, <1>3, <1>4 DEF Content, Ends
<1>7. Numbered' /\ InPlace'
  <2>1. syncTimestamp' = syncTimestamp \/ put = taken
    BY <1>1, <1>2 DEF Content, Ends
  <2> QED BY <1>1, <1>2, <1>3, <1>4, <2>1, Kept DEF Content
<1>8. InOrder' /\ OutInTime'
  BY <1>2, <1>3, OutKept
<1> QED BY <1>5, <1>6, <1>7, <1>8 DEF BufferInv, Content

LEMMA SilencePushed ==
  ASSUME Counted, BufferTypeOK, NEW n \in Nat
  PROVE  /\ silence(n) \in Seq(Samples) /\ Len(silence(n)) = n
         /\ \A i \in 1 .. n : silence(n)[i] = silenceAfter(accepted)
<1>1. silenceAfter(accepted) \in Samples
  BY DEF BufferTypeOK, Counters, Samples, silenceAfter
<1>2. silence(n) \in [1 .. n -> Samples]
  BY <1>1 DEF silence
<1>3. DOMAIN silence(n) = 1 .. n /\ \A i \in 1 .. n : silence(n)[i] = silenceAfter(accepted)
  BY DEF silence
<1> QED BY <1>2, <1>3, SeqDef, LenProperties

LEMMA AddPadding ==
  ASSUME Counted, BufferInv, NEW ts \in Int, addPadding(ts)
  PROVE  BufferInv'
<1> DEFINE n == deviation(ts)
<1>1. /\ rear \in Nat /\ syncTimestamp \in Nat /\ taken \in Nat /\ put = rear
      /\ front \in Nat /\ Threshold \in Nat /\ accepted \in Nat /\ nextOut \in Int
      /\ elements \in Int
  BY Lengths DEF BufferInv, addPadding, begin
<1>2. /\ BufferTypeOK /\ Content /\ InOrder /\ OutInTime /\ pc["W"] = "idle"
      /\ ts \in Nat /\ inputTs' = ts /\ synchronized' = TRUE
      /\ syncTimestamp' = (IF synchronized THEN syncTimestamp ELSE ts)
      /\ deviation(ts) > Threshold
      /\ IF room(n) THEN copyIn(silence(n)) /\ goto("W", "padding")
                    ELSE UNCHANGED <<data, read, pc>>
  BY DEF BufferInv, addPadding, begin, synchronize, early
<1>3. /\ rear' = rear /\ front' = front /\ elements' = elements /\ nextOut' = nextOut
      /\ fillNewFrame' = fillNewFrame /\ outputFrame' = outputFrame /\ accepted' = accepted
  BY DEF addPadding, countVars, readerVars
<1>4. /\ elements = rear - front /\ taken <= rear /\ put <= front + channelMaxLength
      /\ ~synchronized => rear = 0 /\ front = 0 /\ pc["R"] = "idle"
      /\ Numbered /\ InPlace
  BY <1>2 DEF Content, Ends
<1>5. synchronized /\ n = ts - (rear + syncTimestamp) /\ n \in Nat \ {0}
      /\ syncTimestamp' = syncTimestamp
  BY <1>1, <1>2, <1>4 DEF deviation
<1> HIDE DEF n
<1>6. CASE room(n)
  <2> DEFINE samples == silence(n)
  <2>1. /\ samples \in Seq(Samples) /\ Len(samples) = n
        /\ \A i \in 1 .. n : samples[i] = silenceAfter(accepted)
    BY <1>2, <1>5, SilencePushed
  <2>2. copyIn(samples) /\ pc' = [pc EXCEPT !["W"] = "padding"]
    BY <1>2, <1>6 DEF goto
  <2>3. pc'["W"] = "padding" /\ pc'["R"] = pc["R"] /\ Labels'
    BY <1>2, <1>3, <2>2 DEF BufferTypeOK, Labels
  <2>4. taken' = taken /\ put' = rear + n /\ inputTs' - (rear' + syncTimestamp') = n
    BY <1>1, <1>2, <1>3, <1>5, <2>3 DEF taken, put
  <2> HIDE DEF samples
  <2>5. Follow(samples, syncTimestamp') /\ accepted' = samples[Len(samples)].no
    <3>1. ASSUME NEW i \in 1 .. n
          PROVE  /\ samples[i].no = (IF i = 1 THEN accepted ELSE samples[i - 1].no)
                                    + one(samples[i])
                 /\ samples[i].real = FALSE
      <4>1. samples[i].no = accepted /\ one(samples[i]) = 0 /\ samples[i].real = FALSE
        BY <2>1 DEF silenceAfter, one
      <4>2. i # 1 => samples[i - 1].no = accepted
        BY <1>5, <2>1 DEF silenceAfter
      <4> QED BY <1>1, <4>1, <4>2
    <3>2. n \in 1 .. n /\ samples[n].no = accepted
      BY <1>5, <2>1 DEF silenceAfter
    <3> QED BY <1>3, <2>1, <3>1, <3>2 DEF Follow
  <2>6. room(Len(samples)) /\ Len(samples) > 0 /\ put' = rear + Len(samples)
    BY <1>5, <1>6, <2>1, <2>4
  <2>7. /\ data' \in [Places -> Samples] /\ put' <= front + channelMaxLength
        /\ Numbered' /\ InPlace'
    BY <1>1, <1>2, <1>3, <1>5, <2>1, <2>2, <2>4, <2>5, <2>6, Pushed
  <2>8. BufferTypeOK'
    BY <1>1, <1>2, <1>3, <1>5, <2>3, <2>7 DEF BufferTypeOK, Counters, Output
  <2>9. Ends'
    BY <1>1, <1>2, <1>3, <1>4, <1>5, <2>3, <2>4, <2>7 DEF Ends
  <2>10. InOrder' /\ OutInTime'
    BY <1>2, <1>3, <2>3, OutKept
  <2> QED BY <2>7, <2>8, <2>9, <2>10 DEF BufferInv, Content
<1>7. CASE ~room(n)
  <2>1. data' = data /\ pc' = pc
    BY <1>2, <1>7
  <2>2. taken' = taken /\ put' = put
    BY <1>1, <1>2, <1>3, <2>1 DEF taken, put
  <2>3. BufferTypeOK'
    BY <1>1, <1>2, <1>3, <1>5, <2>1 DEF BufferTypeOK, Counters, Labels, Output
  <2>4. Ends'
    BY <1>2, <1>3, <1>4, <2>1, <2>2 DEF Ends
  <2>5. Numbered' /\ InPlace'
    BY <1>1, <1>3, <1>4, <1>5, <2>1, <2>2, Kept
  <2>6. InOrder' /\ OutInTime'
    BY <1>2, <1>3, <2>1, OutKept
  <2> QED BY <2>3, <2>4, <2>5, <2>6 DEF BufferInv, Content
<1> QED BY <1>6, <1>7

LEMMA Flush ==
  ASSUME Counted, BufferInv, NEW ts \in Int, flush(ts)
  PROVE  BufferInv'
<1>1. /\ BufferTypeOK /\ Content /\ InOrder /\ OutInTime /\ pc["W"] = "idle"
      /\ ts \in Nat /\ inputTs' = ts /\ pc["R"] # "copied"
      /\ UNCHANGED <<data, read, readerVars, pc, accepted>> /\ nextOut' = accepted + 1
  BY DEF BufferInv, flush, begin
<1>2. /\ rear' = 0 /\ front' = 0 /\ elements' = 0 /\ synchronized' = FALSE
      /\ syncTimestamp' = syncTimestamp /\ pc' = pc /\ accepted' = accepted
      /\ data' = data /\ fillNewFrame' = fillNewFrame /\ outputFrame' = outputFrame
  BY <1>1 DEF flush, doFlush, readerVars
<1>3. /\ accepted \in Nat /\ syncTimestamp \in Nat /\ pc["R"] = "idle"
      /\ channelMaxLength \in Nat \ {0}
  BY <1>1, Lengths DEF BufferTypeOK, Labels
<1>4. taken' = 0 /\ put' = 0
  BY <1>1, <1>2 DEF taken, put
<1>5. BufferTypeOK'
  <2>1. Labels'
    BY <1>1, <1>2 DEF BufferTypeOK, Labels
  <2>2. Counters'
    BY <1>1, <1>2, <1>3 DEF Counters
  <2> QED BY <1>1, <1>2, <2>1, <2>2 DEF BufferTypeOK, Output
<1>6. Ends'
  BY <1>1, <1>2, <1>3, <1>4 DEF Ends
<1>7. Numbered' /\ InPlace'
  BY <1>1, <1>2, <1>3, <1>4 DEF Numbered, InPlace
<1>8. InOrder' /\ OutInTime'
  BY <1>1, <1>2, OutKept
<1> QED BY <1>5, <1>6, <1>7, <1>8 DEF BufferInv, Content

LEMMA Padded == ASSUME Counted, BufferInv, padded PROVE BufferInv'
<1> DEFINE n == inputTs - (rear + syncTimestamp)
<1>1. /\ BufferTypeOK /\ Content /\ InOrder /\ OutInTime /\ pc["W"] = "padding"
      /\ elements' = elements + n /\ rear' = rear + n
      /\ pc' = [pc EXCEPT !["W"] = "push"]
      /\ UNCHANGED <<data, front, syncVars, readerVars, accepted, nextOut>>
  BY DEF BufferInv, padded, addToElements, goto, Counted
<1>2. /\ front' = front /\ synchronized' = synchronized /\ syncTimestamp' = syncTimestamp
      /\ inputTs' = inputTs /\ fillNewFrame' = fillNewFrame /\ outputFrame' = outputFrame
      /\ accepted' = accepted /\ nextOut' = nextOut /\ data' = data
  BY <1>1 DEF syncVars, readerVars
<1>3. /\ rear \in Nat /\ front \in Nat /\ elements \in Int /\ syncTimestamp \in Nat
      /\ inputTs \in Nat /\ accepted \in Nat /\ nextOut \in Int /\ taken \in Nat
      /\ OutSamples \in Nat \ {0} /\ channelMaxLength \in Nat \ {0}
  BY <1>1, Lengths
<1>4. /\ elements = rear - front /\ taken <= rear /\ put <= front + channelMaxLength
      /\ synchronized /\ n > 0 /\ Numbered /\ InPlace
  BY <1>1 DEF Content, Ends
<1>5. pc'["W"] = "push" /\ pc'["R"] = pc["R"] /\ Labels'
  BY <1>1, <1>2 DEF BufferTypeOK, Labels
<1>6. taken' = taken /\ put' = put /\ put = rear + n
  BY <1>1, <1>2, <1>3, <1>5 DEF taken, put
<1>7. inputTs' = rear' + syncTimestamp'
  BY <1>1, <1>2, <1>3
<1>8. BufferTypeOK'
  BY <1>1, <1>2, <1>3, <1>4, <1>5 DEF BufferTypeOK, Counters, Output
<1>9. Ends'
  BY <1>1, <1>2, <1>3, <1>4, <1>5, <1>6, <1>7 DEF Ends
<1>10. Numbered' /\ InPlace'
  BY <1>2, <1>3, <1>4, <1>6, Kept
<1>11. InOrder' /\ OutInTime'
  BY <1>1, <1>2, <1>5, OutKept
<1> QED BY <1>8, <1>9, <1>10, <1>11 DEF BufferInv, Content

LEMMA Added == ASSUME Counted, BufferInv, added PROVE BufferInv'
<1>1. /\ BufferTypeOK /\ Content /\ InOrder /\ OutInTime /\ pc["W"] = "frame"
      /\ elements' = elements + InSamples /\ rear' = rear + InSamples
      /\ pc' = [pc EXCEPT !["W"] = "idle"]
      /\ UNCHANGED <<data, front, syncVars, readerVars, accepted, nextOut>>
  BY DEF BufferInv, added, addToElements, goto, Counted
<1>2. /\ front' = front /\ synchronized' = synchronized /\ syncTimestamp' = syncTimestamp
      /\ inputTs' = inputTs /\ fillNewFrame' = fillNewFrame /\ outputFrame' = outputFrame
      /\ accepted' = accepted /\ nextOut' = nextOut /\ data' = data
  BY <1>1 DEF syncVars, readerVars
<1>3. /\ rear \in Nat /\ front \in Nat /\ elements \in Int /\ syncTimestamp \in Nat
      /\ inputTs \in Nat /\ accepted \in Nat /\ nextOut \in Int /\ taken \in Nat
      /\ InSamples \in Nat \ {0} /\ OutSamples \in Nat \ {0}
      /\ channelMaxLength \in Nat \ {0}
  BY <1>1, Lengths
<1>4. /\ elements = rear - front /\ taken <= rear /\ put <= front + channelMaxLength
      /\ synchronized /\ Numbered /\ InPlace
  BY <1>1 DEF Content, Ends
<1>5. pc'["W"] = "idle" /\ pc'["R"] = pc["R"] /\ Labels'
  BY <1>1, <1>2 DEF BufferTypeOK, Labels
<1>6. taken' = taken /\ put' = put /\ put = rear + InSamples
  BY <1>1, <1>2, <1>3, <1>5 DEF taken, put
<1>7. BufferTypeOK'
  BY <1>1, <1>2, <1>3, <1>5 DEF BufferTypeOK, Counters, Output
<1>8. Ends'
  BY <1>1, <1>2, <1>3, <1>4, <1>5, <1>6 DEF Ends
<1>9. Numbered' /\ InPlace'
  BY <1>2, <1>3, <1>4, <1>6, Kept
<1>10. InOrder' /\ OutInTime'
  BY <1>1, <1>2, <1>5, OutKept
<1> QED BY <1>7, <1>8, <1>9, <1>10 DEF BufferInv, Content

LEMMA GetFront == ASSUME Counted, BufferInv, getFront PROVE BufferInv'
<1> DEFINE samples == [i \in 1 .. OutSamples |-> data[place(front + i - 1)]]
<1>1. /\ BufferTypeOK /\ Content /\ InOrder /\ OutInTime /\ pc["R"] = "idle"
      /\ elements >= OutSamples
      /\ outputFrame' = [ts |-> front + syncTimestamp, samples |-> samples, first |-> nextOut]
      /\ nextOut' = outputFrame'.samples[OutSamples].no + 1
      /\ pc' = [pc EXCEPT !["R"] = "copied"]
      /\ UNCHANGED <<data, countVars, syncVars, fillNewFrame, accepted>>
  BY DEF BufferInv, getFront, available, frontTs, goto
<1>2. /\ rear' = rear /\ front' = front /\ elements' = elements /\ data' = data
      /\ synchronized' = synchronized /\ syncTimestamp' = syncTimestamp
      /\ inputTs' = inputTs /\ fillNewFrame' = fillNewFrame /\ accepted' = accepted
  BY <1>1 DEF countVars, syncVars
<1>3. /\ rear \in Nat /\ front \in Nat /\ elements \in Int /\ syncTimestamp \in Nat
      /\ inputTs \in Nat /\ accepted \in Nat /\ nextOut \in Int /\ taken = front
      /\ OutSamples \in Nat \ {0} /\ InSamples \in Nat \ {0}
      /\ channelMaxLength \in Nat \ {0} /\ Threshold \in Nat
  BY <1>1, Lengths
<1>4. /\ elements = rear - front /\ put <= front + channelMaxLength /\ rear <= put
      /\ put \in Int
      /\ Numbered /\ InPlace
  BY <1>1, <1>3 DEF Content, Ends, put
<1>5. pc'["R"] = "copied" /\ pc'["W"] = pc["W"] /\ Labels'
  BY <1>1, <1>2 DEF BufferTypeOK, Labels
<1>6. taken' = front + OutSamples /\ put' = put /\ taken' <= rear
  BY <1>1, <1>2, <1>3, <1>4, <1>5 DEF taken, put
<1>7. /\ \A i \in 1 .. OutSamples : /\ samples[i] = data[place(front + i - 1)]
                                    /\ samples[i] \in Samples
                                    /\ front + i - 1 \in front .. put - 1
      /\ samples \in Seq(Samples) /\ Len(samples) = OutSamples
  <2>1. ASSUME NEW i \in 1 .. OutSamples
        PROVE  /\ front + i - 1 \in front .. put - 1
               /\ data[place(front + i - 1)] \in Samples
    <3>1. front + i - 1 \in front .. put - 1 /\ front + i - 1 \in Nat
      BY <1>1, <1>3, <1>4
    <3>2. place(front + i - 1) \in Places
      BY <1>3, <3>1, OwnPlaces
    <3> QED BY <1>1, <3>1, <3>2 DEF BufferTypeOK
  <2>2. samples \in [1 .. OutSamples -> Samples] /\ DOMAIN samples = 1 .. OutSamples
    BY <2>1
  <2>3. samples \in Seq(Samples) /\ Len(samples) = OutSamples
    <3> HIDE DEF samples
    <3> QED BY <1>3, <2>2, SeqDef, LenProperties
  <2> QED BY <2>1, <2>3
<1> HIDE DEF samples
<1>8. /\ outputFrame'.ts = front + syncTimestamp /\ outputFrame'.samples = samples
      /\ outputFrame'.first = nextOut /\ nextOut' = samples[OutSamples].no + 1
  BY <1>1
<1>9. BufferTypeOK'
  <2>1. Output'
    <3>1. front + syncTimestamp \in Nat
      BY <1>3
    <3> QED BY <1>1, <1>3, <1>7, <3>1, Frame DEF Output
  <2>2. samples[OutSamples].no \in Nat
    BY <1>3, <1>7 DEF Samples
  <2>3. Counters'
    BY <1>2, <1>3, <1>8, <2>2 DEF Counters
  <2> QED BY <1>1, <1>2, <1>5, <2>1, <2>3 DEF BufferTypeOK
<1>10. Ends'
  BY <1>1, <1>2, <1>3, <1>4, <1>5, <1>6 DEF Content, Ends
<1>11. nextOut' - 1 = data[place(front + OutSamples - 1)].no
  <2>1. OutSamples \in 1 .. OutSamples /\ samples[OutSamples].no \in Nat
    BY <1>3, <1>7 DEF Samples
  <2> QED BY <1>7, <1>8, <2>1
<1>12. Numbered'
  <2>1. ASSUME NEW p \in taken' .. put' - 1
        PROVE  data'[place(p)].no = (IF p = taken' THEN nextOut' - 1 ELSE data'[place(p - 1)].no)
                                    + one(data'[place(p)])
    <3>1. p \in front .. put - 1 /\ p # front /\ (p = taken' => p - 1 = front + OutSamples - 1)
      BY <1>3, <1>4, <1>6
    <3>2. data[place(p)].no = data[place(p - 1)].no + one(data[place(p)])
      BY <1>3, <1>4, <3>1 DEF Numbered
    <3> QED BY <1>2, <1>11, <3>1, <3>2
  <2>2. accepted' = IF put' = taken' THEN nextOut' - 1 ELSE data'[place(put' - 1)].no
    <3>1. put # front /\ (put' = taken' => put - 1 = front + OutSamples - 1)
      BY <1>1, <1>3, <1>4, <1>6
    <3> QED BY <1>2, <1>3, <1>4, <1>6, <1>11, <3>1 DEF Numbered
  <2> QED BY <2>1, <2>2 DEF Numbered
<1>13. InPlace'
  <2>1. ASSUME NEW p \in taken' .. put' - 1, data'[place(p)].real
        PROVE  data'[place(p)].ts - (p + syncTimestamp') \in -Threshold .. Threshold
    <3>1. p \in taken .. put - 1
      BY <1>3, <1>4, <1>6
    <3> QED BY <1>2, <1>4, <2>1, <3>1 DEF InPlace
  <2> QED BY <2>1 DEF InPlace
<1>14. InOrder'
  <2>1. ASSUME NEW i \in 1 .. OutSamples
        PROVE  samples[i].no = (IF i = 1 THEN nextOut - 1 ELSE samples[i - 1].no)
                               + (IF samples[i].real THEN 1 ELSE 0)
    <3> DEFINE p == front + i - 1
    <3>1. p \in taken .. put - 1 /\ (p = taken <=> i = 1) /\ samples[i] = data[place(p)]
      BY <1>3, <1>7
    <3>2. i # 1 => samples[i - 1] = data[place(p - 1)]
      <4>1. ASSUME i # 1 PROVE i - 1 \in 1 .. OutSamples /\ front + (i - 1) - 1 = p - 1
        BY <1>3, <4>1
      <4> QED BY <1>7, <4>1
    <3> HIDE DEF p
    <3> QED BY <1>4, <3>1, <3>2 DEF Numbered, one
  <2> QED BY <1>7, <1>8, <2>1 DEF InOrder
<1>15. OutInTime'
  <2>1. ASSUME NEW i \in 1 .. OutSamples, samples[i].real
        PROVE  samples[i].ts - (front + syncTimestamp + i - 1) \in -Threshold .. Threshold
    <3> DEFINE p == front + i - 1
    <3>1. p \in taken .. put - 1 /\ samples[i] = data[place(p)]
          /\ front + syncTimestamp + i - 1 = p + syncTimestamp
      BY <1>3, <1>7
    <3> HIDE DEF p
    <3> QED BY <1>4, <2>1, <3>1 DEF InPlace
  <2> QED BY <1>7, <1>8, <2>1 DEF OutInTime
<1> QED BY <1>9, <1>10, <1>12, <1>13, <1>14, <1>15 DEF BufferInv, Content

(* The steps that leave the ends, the labels and the time line as they are *)
(* but for those of the reader.                                            *)
LEMMA GetNothing == ASSUME Counted, BufferInv, getNothing PROVE BufferInv'
<1>1. /\ BufferTypeOK /\ Content /\ InOrder /\ OutInTime /\ pc["R"] = "idle" /\ fillNewFrame
      /\ outputFrame' = [outputFrame EXCEPT !.ts = front + syncTimestamp]
      /\ UNCHANGED <<data, countVars, read, syncVars, fillNewFrame, pc, accepted, nextOut>>
  BY DEF BufferInv, getNothing, frontTs
<1>2. /\ rear' = rear /\ front' = front /\ elements' = elements /\ data' = data
      /\ synchronized' = synchronized /\ syncTimestamp' = syncTimestamp
      /\ inputTs' = inputTs /\ fillNewFrame' = fillNewFrame /\ accepted' = accepted
      /\ pc' = pc /\ nextOut' = nextOut
  BY <1>1 DEF countVars, syncVars
<1>3. front \in Nat /\ syncTimestamp \in Nat /\ taken \in Nat
  BY <1>1, Lengths
<1>4. taken' = taken /\ put' = put
  BY <1>2 DEF taken, put
<1>5. /\ outputFrame'.samples = outputFrame.samples /\ outputFrame'.first = outputFrame.first
      /\ Output'
  <2>1. outputFrame \in [ts : Nat, samples : Seq(Samples), first : Int]
    BY <1>1 DEF BufferTypeOK, Output
  <2>2. outputFrame' \in [ts : Nat, samples : Seq(Samples), first : Int]
        /\ outputFrame'.samples = outputFrame.samples /\ outputFrame'.first = outputFrame.first
    BY <1>1, <1>3, <2>1
  <2> QED BY <2>2 DEF Output
<1>6. BufferTypeOK'
  BY <1>1, <1>2, <1>5 DEF BufferTypeOK, Counters, Labels
<1>7. Ends'
  BY <1>1, <1>2, <1>4 DEF Content, Ends
<1>8. Numbered' /\ InPlace'
  BY <1>1, <1>2, <1>3, <1>4, Kept DEF Content
<1>9. InOrder'
  BY <1>1, <1>5 DEF InOrder
<1>10. OutInTime'
  BY <1>1, <1>2 DEF OutInTime
<1> QED BY <1>6, <1>7, <1>8, <1>9, <1>10 DEF BufferInv, Content

LEMMA GotFront == ASSUME Counted, BufferInv, gotFront PROVE BufferInv'
<1>1. /\ BufferTypeOK /\ Content /\ InOrder /\ OutInTime /\ pc["R"] = "copied"
      /\ elements' = elements + (-OutSamples) /\ front' = front + OutSamples
      /\ fillNewFrame' = FALSE /\ pc' = [pc EXCEPT !["R"] = "idle"]
      /\ UNCHANGED <<data, rear, syncVars, outputFrame, accepted, nextOut>>
  BY DEF BufferInv, gotFront, addToElements, goto, Counted
<1>2. /\ rear' = rear /\ data' = data /\ synchronized' = synchronized
      /\ syncTimestamp' = syncTimestamp /\ inputTs' = inputTs /\ accepted' = accepted
      /\ nextOut' = nextOut /\ outputFrame' = outputFrame
  BY <1>1 DEF syncVars
<1>3. /\ rear \in Nat /\ front \in Nat /\ elements \in Int /\ syncTimestamp \in Nat
      /\ inputTs \in Nat /\ accepted \in Nat /\ nextOut \in Int /\ taken \in Nat
      /\ taken = front + OutSamples /\ OutSamples \in Nat \ {0} /\ InSamples \in Nat
      /\ channelMaxLength \in Nat \ {0}
  BY <1>1, Lengths
<1>4. pc'["R"] = "idle" /\ pc'["W"] = pc["W"] /\ Labels'
  BY <1>1, <1>2 DEF BufferTypeOK, Labels
<1>5. taken' = taken /\ put' = put
  BY <1>1, <1>2, <1>3, <1>4 DEF taken, put
<1>6. BufferTypeOK'
  <2>1. Counters'
    BY <1>1, <1>2, <1>3 DEF Counters
  <2> QED BY <1>1, <1>2, <1>4, <2>1 DEF BufferTypeOK, Output
<1>7. Ends'
  <2>1. /\ elements = rear - front /\ taken <= rear /\ put <= front + channelMaxLength
        /\ pc["W"] # "idle" => synchronized
        /\ pc["W"] = "padding" => inputTs - (rear + syncTimestamp) > 0
        /\ pc["W"] = "push" => inputTs = rear + syncTimestamp
        /\ synchronized
    BY <1>1 DEF Content, Ends
  <2>2. put \in Int
    BY <1>3 DEF put
  <2>3. elements' = rear' - front' /\ put' <= front' + channelMaxLength
    BY <1>1, <1>2, <1>3, <1>5, <2>1, <2>2
  <2> QED BY <1>2, <1>4, <1>5, <2>1, <2>3 DEF Ends
<1>8. Numbered' /\ InPlace'
  BY <1>1, <1>2, <1>3, <1>5, Kept DEF Content
<1>9. InOrder' /\ OutInTime'
  BY <1>1, <1>2, OutKept
<1> QED BY <1>6, <1>7, <1>8, <1>9 DEF BufferInv, Content

LEMMA RemoveFrame == ASSUME Counted, BufferInv, removeFrame PROVE BufferInv'
<1>1. /\ BufferTypeOK /\ Content /\ InOrder /\ OutInTime /\ fillNewFrame' = TRUE
      /\ UNCHANGED <<data, countVars, read, syncVars, outputFrame, pc, accepted, nextOut>>
  BY DEF BufferInv, removeFrame
<1>2. /\ rear' = rear /\ front' = front /\ elements' = elements /\ data' = data
      /\ synchronized' = synchronized /\ syncTimestamp' = syncTimestamp
      /\ inputTs' = inputTs /\ accepted' = accepted /\ pc' = pc /\ nextOut' = nextOut
      /\ outputFrame' = outputFrame
  BY <1>1 DEF countVars, syncVars
<1>3. taken' = taken /\ put' = put /\ taken \in Nat
  BY <1>1, <1>2, Lengths DEF taken, put
<1>4. BufferTypeOK'
  <2>1. Labels'
    BY <1>1, <1>2 DEF BufferTypeOK, Labels
  <2> QED BY <1>1, <1>2, <2>1 DEF BufferTypeOK, Counters, Output
<1>5. Ends'
  BY <1>1, <1>2, <1>3 DEF Content, Ends
<1>6. Numbered' /\ InPlace'
  BY <1>1, <1>2, <1>3, Kept DEF Content
<1>7. InOrder' /\ OutInTime'
  BY <1>1, <1>2, OutKept
<1> QED BY <1>4, <1>5, <1>6, <1>7 DEF BufferInv, Content

LEMMA BufferStep == ASSUME Counted PROVE BufferInv /\ [BufferNext]_bufferVars => BufferInv'
<1> SUFFICES ASSUME BufferInv, [BufferNext]_bufferVars PROVE BufferInv'
  OBVIOUS
<1>1. CASE Input
  <2>1. PICK gap \in Gaps :
          LET ts == inputTs + gap
          IN  addFrame(ts) \/ discardFrame(ts) \/ addPadding(ts) \/ flush(ts)
    BY <1>1 DEF Input
  <2>2. inputTs + gap \in Int
    BY DEF Counted, BufferAssumption, BufferInv, BufferTypeOK, Counters
  <2> QED BY <2>1, <2>2, AddFrame, DiscardFrame, AddPadding, Flush
<1>2. CASE padded
  BY <1>2, Padded
<1>3. CASE pushPadded
  BY <1>3, PushPadded
<1>4. CASE added
  BY <1>4, Added
<1>5. CASE getFront
  BY <1>5, GetFront
<1>6. CASE getNothing
  BY <1>6, GetNothing
<1>7. CASE gotFront
  BY <1>7, GotFront
<1>8. CASE removeFrame
  BY <1>8, RemoveFrame
<1>9. CASE UNCHANGED bufferVars
  BY <1>9
     DEF bufferVars, BufferInv, BufferTypeOK, Counters, Labels, Output, Content, Ends,
         Numbered, InPlace, InOrder, OutInTime, taken, put
<1> QED BY <1>1, <1>2, <1>3, <1>4, <1>5, <1>6, <1>7, <1>8, <1>9 DEF BufferNext, Writer, Reader

LEMMA BufferKept == ASSUME Counted PROVE BufferInv => SamplesKept
<1> SUFFICES ASSUME BufferInv PROVE SamplesKept
  OBVIOUS
<1>1. ElementsExact
  <2>1. /\ taken = front + inFlight("R") /\ put = rear + inFlight("W")
        /\ inFlight("R") \in Int /\ inFlight("W") \in Int
    <3>1. /\ pc["R"] \in {"idle", "copied"} /\ pc["W"] \in {"idle", "padding", "push", "frame"}
          /\ InSamples \in Nat /\ OutSamples \in Nat /\ rear \in Nat /\ syncTimestamp \in Nat
          /\ inputTs \in Nat
      BY Lengths DEF BufferInv, BufferTypeOK, Labels
    <3> QED BY <3>1 DEF inFlight, taken, put
  <2>2. rear \in Nat /\ front \in Nat /\ channelMaxLength \in Nat
    BY Lengths DEF BufferInv
  <2> QED BY <2>1, <2>2 DEF ElementsExact, BufferInv, Content, Ends
<1>2. InTime
  BY DEF BufferInv, OutInTime, InTime
<1> QED BY <1>1, <1>2 DEF SamplesKept, BufferInv

(* pushBack, popFront, addFrame, getFront: whatever the sizes of the       *)
(* buffer and of the frames, what is in the buffer is numbered, at its     *)
(* time, and between its ends at every step of the two threads.            *)
THEOREM BufferInvariance == ASSUME Counted PROVE BufferSpec => []BufferInv
BY BufferStart, BufferStep, PTL DEF BufferSpec

(* popFront, fillOutputBuffers: the samples that come out are those that   *)
(* went in, each once, in order and at its time, with silence where there  *)
(* were none, and the count of elements is right.                          *)
THEOREM SamplesAreKept == ASSUME Counted PROVE BufferSpec => []SamplesKept
BY BufferInvariance, BufferKept, PTL
-----------------------------------------------------------------------------
(* A picture as it comes out of the decoder, with its own size and format. *)
Picture(shown) ==
  /\ shown.size = shown.picture.size /\ shown.pixFmt = getPixelFormat(shown.picture.format)
  /\ shown.picture = [size |-> shown.size, format |-> shown.picture.format]

AsDecoded == \A i \in 1 .. Len(pictures) : Picture(pictures[i])

(* The context that converts is for the last picture that was converted    *)
(* and for what is asked for, unless something else was asked for since or *)
(* a picture came of which nothing could be made.                          *)
ForLast ==
  imgConvertCtx # NoContext /\ ~needsConfig /\ inPixFmt \in PixTypes =>
    /\ imgConvertCtx.from = [size |-> inSize, format |-> inPixFmt]
    /\ imgConvertCtx.to =
         [size |-> <<IF outputWidth = 0 THEN inSize[1] ELSE outputWidth,
                     IF outputHeight = 0 THEN inSize[2] ELSE outputHeight>>,
          format |-> outPixFmt]

VideoInv == VideoTypeOK /\ AsDecoded /\ ForLast /\ ConvertedAsIs

(* The context that decodes is for the stream of the last frame, if its    *)
(* codec is one that can be decoded at all.                                *)
ForStream ==
  fCodec \in DecodableAudio =>
    codecCtx \in {Closed, context(fCodec, inChannels, inSampleRate)}

(* The encoder is open for what it was asked for when it has a frame size; *)
(* the queues on both sides of it were made for that.                      *)
ForCodec ==
  /\ samplesPerFrame # 0 => encoderCtx = outputStreamInfo /\ ~unconfigured
  /\ inLine # 0 => inLine = samplesPerFrame
  /\ outLine # NoEncoder => outLine = outputStreamInfo /\ ~unconfigured

AudioInv == ForStream /\ ForCodec /\ SamplesAsLabelled

ConvertersInv == VideoInv /\ AudioInv
-----------------------------------------------------------------------------
LEMMA VideoStart == ASSUME VideoAssumption PROVE VideoInit => VideoInv
<1> SUFFICES ASSUME VideoInit PROVE VideoInv
  OBVIOUS
<1>1. pictures = <<>> /\ videoCtx = "none" /\ needsConfig = FALSE
      /\ imgConvertCtx = NoContext /\ resampled = NoPicture
  BY DEF VideoInit, VideoDecoderInit, ResamplerInit
<1>2. VideoTypeOK
  <2>1. <<>> \in Seq(DecodedFrames)
    OBVIOUS
  <2> QED BY <1>1, <2>1 DEF VideoTypeOK
<1>3. AsDecoded /\ ForLast /\ ConvertedAsIs
  BY <1>1 DEF AsDecoded, ForLast, ConvertedAsIs
<1> QED BY <1>2, <1>3 DEF VideoInv

LEMMA DecodeStep == ASSUME VideoAssumption, VideoInv, DecodePicture PROVE VideoInv'
<1>1. PICK org \in CodedPictures : decode(org)
  BY DEF DecodePicture
<1>2. org \in [codec : STRING, size : Nat \X Nat, format : STRING, damaged : BOOLEAN]
  BY DEF VideoAssumption
<1>3. UNCHANGED resamplerVars
  BY DEF DecodePicture
<1>4. pictures' = pictures \/ pictures' = Append(pictures, toBuffer(org))
  BY <1>1 DEF decode, refused, failed, passed
<1>5. toBuffer(org) \in DecodedFrames /\ Picture(toBuffer(org))
  BY <1>2 DEF toBuffer, Picture, DecodedFrames, getPixelFormat, KnownFormats, PixTypes
<1>6. pictures \in Seq(DecodedFrames) /\ AsDecoded /\ ForLast /\ ConvertedAsIs
      /\ videoCtx \in DecodableVideo \cup {"none", "closed"} /\ needsConfig \in BOOLEAN
  BY DEF VideoInv, VideoTypeOK
<1>7. pictures' \in Seq(DecodedFrames) /\ AsDecoded'
  <2>1. CASE pictures' = pictures
    BY <1>6, <2>1 DEF AsDecoded
  <2>2. CASE pictures' = Append(pictures, toBuffer(org))
    <3> DEFINE shown == toBuffer(org)
    <3>1. /\ pictures' \in Seq(DecodedFrames) /\ Len(pictures') = Len(pictures) + 1
          /\ Len(pictures) \in Nat
          /\ \A i \in 1 .. Len(pictures) + 1 :
               pictures'[i] = IF i = Len(pictures) + 1 THEN shown ELSE pictures[i]
      BY <1>5, <1>6, <2>2, AppendProperties
    <3> HIDE DEF shown
    <3>2. ASSUME NEW i \in 1 .. Len(pictures') PROVE Picture(pictures'[i])
      BY <1>5, <1>6, <3>1 DEF AsDecoded, shown
    <3> QED BY <3>1, <3>2 DEF AsDecoded
  <2> QED BY <1>4, <2>1, <2>2
<1>8. videoCtx' \in DecodableVideo \cup {"none", "closed"}
  <2>1. CASE \E opens \in BOOLEAN : refused(org, opens)
    BY <1>6, <2>1 DEF refused, reconfigure, inputConfig
  <2>2. CASE \E opens \in BOOLEAN : failed(org, opens)
    BY <1>6, <2>2 DEF failed, inputConfig, configured
  <2>3. CASE \E gotFrame \in BOOLEAN : passed(org, gotFrame)
    BY <1>6, <2>3 DEF passed, reconfigure, inputConfig
  <2> QED BY <1>1, <2>1, <2>2, <2>3 DEF decode
<1>9. VideoTypeOK' /\ ForLast' /\ ConvertedAsIs'
  BY <1>3, <1>6, <1>7, <1>8 DEF resamplerVars, VideoTypeOK, ForLast, ConvertedAsIs
<1> QED BY <1>7, <1>9 DEF VideoInv

LEMMA ResampleStep == ASSUME VideoAssumption, VideoInv, ResamplePicture PROVE VideoInv'
<1> DEFINE org == Head(pictures)
<1>1. /\ pictures # <<>> /\ resample(org) /\ pictures' = Tail(pictures)
      /\ videoCtx' = videoCtx
  BY DEF ResamplePicture
<1>2. pictures \in Seq(DecodedFrames) /\ AsDecoded /\ ForLast /\ ConvertedAsIs
      /\ videoCtx \in DecodableVideo \cup {"none", "closed"} /\ needsConfig \in BOOLEAN
  BY DEF VideoInv, VideoTypeOK
<1>3. /\ Len(pictures) \in Nat \ {0} /\ org = pictures[1] /\ org \in DecodedFrames
      /\ pictures' \in Seq(DecodedFrames) /\ Len(pictures') = Len(pictures) - 1
      /\ \A i \in 1 .. Len(pictures') : pictures'[i] = pictures[i + 1]
  BY <1>1, <1>2
<1> HIDE DEF org
<1>4. AsDecoded' /\ Picture(org)
  <2>1. Len(pictures) \in Nat \ {0} /\ Len(pictures') = Len(pictures) - 1
    BY <1>3
  <2>2. ASSUME NEW i \in 1 .. Len(pictures') PROVE Picture(pictures'[i])
    <3>1. i + 1 \in 1 .. Len(pictures)
      BY <2>1
    <3> QED BY <1>2, <1>3, <3>1 DEF AsDecoded
  <2>3. 1 \in 1 .. Len(pictures)
    BY <2>1
  <2> QED BY <1>2, <1>3, <2>2, <2>3 DEF AsDecoded
<1>5. /\ UNCHANGED <<outputWidth, outputHeight, outPixFmt>>
      /\ inSize' = IF usable(org) THEN org.size ELSE inSize
      /\ inPixFmt' = IF outdated(org) THEN org.pixFmt ELSE inPixFmt
      /\ imgConvertCtx' = IF outdated(org) /\ convertible(org) THEN sws_getContext(org)
                          ELSE imgConvertCtx
      /\ needsConfig' = (needsConfig /\ (~convertible(org) \/ imgConvertCtx' = NoContext))
      /\ resampled' = IF usable(org)
                      THEN [by |-> imgConvertCtx', of |-> org.picture,
                            size |-> outSize(org), pixFmt |-> outPixFmt]
                      ELSE resampled
  BY <1>1 DEF resample, makeContext
<1>6. convertible(org) <=> org.pixFmt \in PixTypes
  BY DEF convertible, getLibavPixFmt, PixTypes
<1>7. /\ imgConvertCtx' # NoContext /\ ~needsConfig' /\ inPixFmt' \in PixTypes =>
           /\ imgConvertCtx'.from = [size |-> inSize', format |-> inPixFmt']
           /\ imgConvertCtx'.to =
                [size |-> <<IF outputWidth' = 0 THEN inSize'[1] ELSE outputWidth',
                            IF outputHeight' = 0 THEN inSize'[2] ELSE outputHeight'>>,
                 format |-> outPixFmt']
      /\ usable(org) =>
           /\ imgConvertCtx'.from = [size |-> org.size, format |-> org.pixFmt]
           /\ imgConvertCtx'.to = [size |-> outSize(org), format |-> outPixFmt]
  <2>1. CASE outdated(org) /\ convertible(org)
    BY <1>5, <1>6, <2>1 DEF sws_getContext, usable, outSize
  <2>2. CASE outdated(org) /\ ~convertible(org)
    BY <1>5, <1>6, <2>2 DEF usable
  <2>3. CASE ~outdated(org)
    <3>1. imgConvertCtx # NoContext /\ ~needsConfig /\ org.size = inSize /\ org.pixFmt = inPixFmt
      BY <2>3 DEF outdated
    <3> QED BY <1>2, <1>5, <1>6, <2>3, <3>1 DEF usable, outSize, ForLast
  <2> QED BY <2>1, <2>2, <2>3
<1>8. ForLast'
  BY <1>7 DEF ForLast
<1>9. ConvertedAsIs'
  <2>1. CASE usable(org)
    <3>1. org.pixFmt \in PixTypes
      BY <1>6, <2>1 DEF usable
    <3>2. org.pixFmt = org.picture.format
      BY <1>4, <3>1 DEF Picture, getPixelFormat, PixTypes
    <3>3. org.picture = [size |-> org.size, format |-> org.pixFmt]
      BY <1>4, <3>2 DEF Picture
    <3> QED BY <1>5, <1>7, <2>1, <3>3 DEF ConvertedAsIs
  <2>2. CASE ~usable(org)
    BY <1>2, <1>5, <2>2 DEF ConvertedAsIs
  <2> QED BY <2>1, <2>2
<1>10. VideoTypeOK'
  BY <1>1, <1>2, <1>3, <1>5 DEF VideoTypeOK
<1> QED BY <1>4, <1>8, <1>9, <1>10 DEF VideoInv

LEMMA VideoStep ==
  ASSUME VideoAssumption PROVE VideoInv /\ [VideoNext]_videoVars => VideoInv'
<1> SUFFICES ASSUME VideoInv, [VideoNext]_videoVars PROVE VideoInv'
  OBVIOUS
<1>1. CASE DecodePicture
  BY <1>1, DecodeStep
<1>2. CASE ResamplePicture
  BY <1>2, ResampleStep
<1>3. CASE ConfigureResampler
  <2>1. /\ UNCHANGED <<videoDecoderVars, inSize, inPixFmt, imgConvertCtx, resampled>>
        /\ needsConfig' = TRUE
    BY <1>3 DEF ConfigureResampler, configEvent
  <2> QED
    BY <2>1
       DEF VideoInv, VideoTypeOK, AsDecoded, ForLast, ConvertedAsIs, videoDecoderVars
<1>4. CASE UNCHANGED videoVars
  BY <1>4
     DEF videoVars, videoDecoderVars, resamplerVars, VideoInv, VideoTypeOK, AsDecoded,
         ForLast, ConvertedAsIs
<1> QED BY <1>1, <1>2, <1>3, <1>4 DEF VideoNext
-----------------------------------------------------------------------------
LEMMA AudioStart == AudioInit => AudioInv
BY DEF AudioInit, DecoderInit, EncoderInit, AudioInv, ForStream, ForCodec,
       SamplesAsLabelled, DecodableAudio, NoSamples, NotCoded, unconfigured, NoCodec,
       NoEncoder, context

(* reconfigureDecoder, whatever becomes of the frame.                      *)
LEMMA Reconfigured ==
  ASSUME NEW org, NEW opens \in BOOLEAN, ForStream, reconfigureDecoder(org, opens)
  PROVE  ForStream'
<1>1. /\ fCodec' = org.codec /\ inChannels' = org.channels /\ inSampleRate' = org.rate
      /\ codecCtx' = IF sameAsLast(org) \/ org.codec \notin DecodableAudio THEN codecCtx
                     ELSE IF opens THEN of(org) ELSE Closed
  BY DEF reconfigureDecoder
<1>2. of(org) = context(fCodec', inChannels', inSampleRate')
  BY <1>1 DEF of
<1>3. CASE sameAsLast(org)
  <2>1. org.codec = fCodec /\ of(org) = context(fCodec, inChannels, inSampleRate)
    BY <1>3 DEF sameAsLast, of, context
  <2> QED BY <1>1, <1>2, <1>3, <2>1 DEF ForStream
<1>4. CASE ~sameAsLast(org)
  BY <1>1, <1>2, <1>4 DEF ForStream
<1> QED BY <1>3, <1>4

LEMMA DecodeSamplesStep ==
  ASSUME AudioInv, DecodeFrame PROVE AudioInv'
<1>1. ForStream /\ ForCodec /\ SamplesAsLabelled /\ UNCHANGED encoderVars
  BY DEF AudioInv, DecodeFrame
<1>2. PICK org \in CodedSamples :
        \/ \E opens \in BOOLEAN : decodingFails(org, opens)
        \/ wantsMore(org) \/ decodedTo(org)
  BY DEF DecodeFrame
<1>3. ForStream'
  BY <1>1, <1>2, Reconfigured DEF decodingFails, wantsMore, decodedTo, decodable
<1>4. ForCodec'
  BY <1>1 DEF encoderVars, ForCodec, unconfigured
<1>5. SamplesAsLabelled'
  <2>1. coded' = coded
    BY <1>1 DEF encoderVars
  <2>2. CASE decoded' = decoded
    BY <1>1, <2>1, <2>2 DEF SamplesAsLabelled
  <2>3. CASE decodedTo(org) /\ decoded' = [of |-> of(org), by |-> codecCtx']
    <3>1. /\ codecCtx' \notin {Closed, NoCodec} /\ fCodec' = org.codec
          /\ inChannels' = org.channels /\ inSampleRate' = org.rate
      BY <2>3 DEF decodedTo, decodable, reconfigureDecoder
    <3>2. org.codec \in DecodableAudio => codecCtx' = of(org)
      BY <1>3, <3>1 DEF ForStream, of
    <3>3. of(org).codec = org.codec
      BY DEF of, context
    <3> QED BY <1>1, <2>1, <2>3, <3>2, <3>3 DEF SamplesAsLabelled
  <2> QED BY <1>2, <2>2, <2>3 DEF decodingFails, wantsMore, decodedTo
<1> QED BY <1>3, <1>4, <1>5 DEF AudioInv

LEMMA EncodeSamplesStep ==
  ASSUME AudioInv, EncodeFrame PROVE AudioInv'
<1>1. ForStream /\ ForCodec /\ SamplesAsLabelled /\ UNCHANGED decoderVars
  BY DEF AudioInv, EncodeFrame
<1>2. PICK gotFrame \in BOOLEAN : encode(line, gotFrame)
  BY DEF EncodeFrame
<1>3. /\ inLine # 0 /\ outLine # NoEncoder
      /\ UNCHANGED <<outputStreamInfo, encoderCtx, samplesPerFrame, inLine, outLine>>
      /\ \/ coded' = coded
         \/ coded' = [label |-> outLine, by |-> encoderCtx,
                      samples |-> inLine, room |-> samplesPerFrame]
  BY <1>2 DEF encode
<1>4. encoderCtx = outLine /\ inLine = samplesPerFrame
  BY <1>1, <1>3 DEF ForCodec
<1>5. ForStream' /\ ForCodec'
  BY <1>1, <1>3 DEF decoderVars, ForStream, ForCodec, unconfigured
<1>6. SamplesAsLabelled'
  BY <1>1, <1>3, <1>4 DEF decoderVars, SamplesAsLabelled
<1> QED BY <1>5, <1>6 DEF AudioInv

LEMMA ConfigureEncoderStep ==
  ASSUME AudioAssumption, AudioInv, ConfigureEncoder PROVE AudioInv'
<1>1. /\ ForStream /\ ForCodec /\ SamplesAsLabelled /\ UNCHANGED decoderVars
      /\ unconfigured /\ codingConfig(outputStreamInfo')
      /\ UNCHANGED <<input, outResampler, inLine, outLine, coded>>
  BY DEF AudioInv, ConfigureEncoder, configureEncoder
<1>2. samplesPerFrame = 0 /\ inLine = 0 /\ outLine = NoEncoder
  BY <1>1 DEF ForCodec
<1>3. samplesPerFrame' # 0 => encoderCtx' = outputStreamInfo' /\ outputStreamInfo'.codec # "AC_NONE"
  BY <1>1, <1>2 DEF codingConfig, AudioAssumption
<1>4. ForCodec'
  BY <1>1, <1>2, <1>3 DEF ForCodec, unconfigured
<1>5. ForStream' /\ SamplesAsLabelled'
  BY <1>1 DEF decoderVars, ForStream, SamplesAsLabelled
<1> QED BY <1>4, <1>5 DEF AudioInv

LEMMA AudioStep ==
  ASSUME AudioAssumption PROVE AudioInv /\ [AudioNext]_audioVars => AudioInv'
<1> SUFFICES ASSUME AudioInv, [AudioNext]_audioVars PROVE AudioInv'
  OBVIOUS
<1> USE DEF AudioInv, ForStream, ForCodec, SamplesAsLabelled, unconfigured
<1>1. CASE ConfigureDecoder
  BY <1>1 DEF ConfigureDecoder, configureDecoder, encoderVars
<1>2. CASE ConfigureEncoder
  BY <1>2, ConfigureEncoderStep
<1>3. CASE Connect
  BY <1>3 DEF Connect, specificReaderConfig, decoderVars
<1>4. CASE ConnectNext
  BY <1>4 DEF ConnectNext, allocQueue, decoderVars
<1>5. CASE Disconnect
  BY <1>5 DEF Disconnect, disconnectReader, decoderVars
<1>6. CASE DisconnectNext
  BY <1>6 DEF DisconnectNext, disconnectWriter, decoderVars
<1>7. CASE DecodeFrame
  BY <1>7, DecodeSamplesStep
<1>8. CASE EncodeFrame
  BY <1>8, EncodeSamplesStep
<1>9. CASE UNCHANGED audioVars
  BY <1>9 DEF audioVars, decoderVars, encoderVars
<1> QED BY <1>1, <1>2, <1>3, <1>4, <1>5, <1>6, <1>7, <1>8, <1>9 DEF AudioNext

(* reconfigure, fillPicture, configEvent, allocQueue: the contexts of the  *)
(* codecs and of the resamplers are those of the frames that they are      *)
(* about to be used for, after every change of the stream, every event     *)
(* and every failure.                                                      *)
THEOREM ConvertersInvariance ==
  ASSUME VideoAssumption, AudioAssumption PROVE ConvertersSpec => []ConvertersInv
<1>1. ConvertersInit => ConvertersInv
  BY VideoStart, AudioStart DEF ConvertersInit, ConvertersInv
<1>2. ConvertersInv /\ [ConvertersNext]_convertersVars => ConvertersInv'
  <2> SUFFICES ASSUME ConvertersInv, [ConvertersNext]_convertersVars PROVE ConvertersInv'
    OBVIOUS
  <2>1. [VideoNext]_videoVars /\ [AudioNext]_audioVars
    BY DEF ConvertersNext, convertersVars
  <2> QED BY <2>1, VideoStep, AudioStep DEF ConvertersInv
<1> QED BY <1>1, <1>2, PTL DEF ConvertersSpec

(* doProcessFrame of the decoders, the resampler and the audio encoder:    *)
(* what comes out is what its description says, converted by a context     *)
(* that was made for it.                                                   *)
THEOREM AllAsLabelled ==
  ASSUME VideoAssumption, AudioAssumption PROVE ConvertersSpec => []AsLabelled
<1>1. ConvertersInv => AsLabelled
  BY DEF ConvertersInv, VideoInv, AudioInv, AsLabelled
<1> QED BY <1>1, ConvertersInvariance, PTL
-----------------------------------------------------------------------------
(* The number of the frame in whose place the next picture is decoded.     *)
nextDts == lib.start + lib.given - Delay

EncoderTypeOK ==
  /\ now \in Nat /\ gopTime \in Nat /\ refTime \in Nat /\ origin \in Nat
  /\ inPts \in Nat /\ rawFrames \in Nat
  /\ lib = [in |-> lib.in, given |-> lib.given, start |-> lib.start]
  /\ lib.start \in Nat /\ lib.given \in Nat /\ lib.start + lib.given <= inPts

(* The times of the frames that went in, and of one more when it was lost, *)
(* do not decrease.                                                        *)
Recorded ==
  /\ DOMAIN raw \in {0 .. inPts - 1, 0 .. inPts}
  /\ \A n \in DOMAIN raw : raw[n] \in Nat /\ raw[n] <= now
  /\ \A m, n \in DOMAIN raw : m <= n => raw[m] <= raw[n]

(* The times that wait are those of their frames, and those of frames      *)
(* whose pictures may still come, or whose places are still free, do wait. *)
Waiting ==
  /\ \A n \in DOMAIN qFTP : n \in DOMAIN raw /\ qFTP[n] = raw[n]
  /\ \A n \in DOMAIN raw : n >= nextDts => n \in DOMAIN qFTP
  /\ \A n \in lib.in : n \in 0 .. inPts - 1 /\ n >= nextDts

(* The last decoding time is that of a place that is taken.                *)
Handed ==
  codedPicture.dTime = 0 \/ \E d \in Nat : d < nextDts /\ codedPicture.dTime = raw[d]

(* The reference time is the first multiple of the GOP time that is not    *)
(* reached yet, unless a client set it to one that has passed.             *)
AheadAt(time, gop, next, start) ==
  gop > 0 =>
    /\ start = 0 <=> next = 0
    /\ next # 0 =>
         \E j \in Nat : /\ next = start + j * gop
                        /\ j = 0 \/ next - gop <= time

FirstAhead == AheadAt(now, gopTime, refTime, origin)

VideoEncoderInv == EncoderTypeOK /\ Recorded /\ Waiting /\ Handed /\ FirstAhead

LEMMA MultiplesApart ==
  ASSUME NEW g \in Nat \ {0}, NEW j \in Nat, NEW k \in Nat, k < j
  PROVE  k * g + g <= j * g
<1> DEFINE m == j - k - 1
<1>1. m \in Nat /\ j = k + 1 + m
  OBVIOUS
<1>2. m * g \in Nat
  BY <1>1
<1> HIDE DEF m
<1>3. (k + 1 + m) * g = k * g + g + m * g
  BY <1>1
<1>4. k * g \in Nat
  OBVIOUS
<1> QED BY <1>1, <1>2, <1>3, <1>4

LEMMA MultipleNotLess ==
  ASSUME NEW g \in Nat \ {0}, NEW j \in Nat PROVE j * g \in Nat /\ j <= j * g
<1>1. j * g \in Nat /\ j * (g - 1) \in Nat
  OBVIOUS
<1>2. j * g = j * (g - 1) + j
  OBVIOUS
<1> QED BY <1>1, <1>2

LEMMA EncoderStart ==
  ASSUME VideoEncoderAssumption PROVE VideoEncoderInit => VideoEncoderInv
<1> SUFFICES ASSUME VideoEncoderInit PROVE VideoEncoderInv
  OBVIOUS
<1> USE DEF VideoEncoderAssumption, VideoEncoderInit
<1>1. EncoderTypeOK
  BY DEF EncoderTypeOK
<1>2. Recorded /\ Waiting /\ Handed
  BY DEF Recorded, Waiting, Handed
<1>3. FirstAhead
  BY DEF FirstAhead, AheadAt
<1> QED BY <1>1, <1>2, <1>3 DEF VideoEncoderInv

(* What a frame finds in the library, before and after it is opened anew.  *)
LEMMA EncoderOpened ==
  ASSUME VideoEncoderAssumption, VideoEncoderInv
  PROVE  /\ opened = [in |-> opened.in, given |-> opened.given, start |-> opened.start]
         /\ opened.start \in Nat /\ opened.given \in Nat
         /\ opened.start + opened.given <= inPts
         /\ dts \in Int /\ dts >= nextDts /\ dts <= inPts /\ nextDts \in Int
         /\ \A n \in opened.in : n \in 0 .. inPts - 1 /\ n >= dts
<1> USE DEF VideoEncoderInv, EncoderTypeOK, VideoEncoderAssumption, nextDts
<1>1. CASE encoderNeedsConfig
  BY <1>1 DEF opened, dts
<1>2. CASE ~encoderNeedsConfig
  BY <1>2 DEF opened, dts, Waiting
<1> QED BY <1>1, <1>2

LEMMA OneMore ==
  ASSUME NEW n \in Nat PROVE 0 .. n = (0 .. n - 1) \cup {n} /\ n \notin 0 .. n - 1
OBVIOUS

(* The times of a frame that goes in, and of those that wait for it.       *)
LEMMA FrameRecorded ==
  ASSUME VideoEncoderAssumption, VideoEncoderInv, now' \in Nat, now' > now,
         raw' = with(raw, inPts, now')
  PROVE  /\ DOMAIN raw' = 0 .. inPts
         /\ raw'[inPts] = now' /\ \A n \in 0 .. inPts - 1 : raw'[n] = raw[n]
         /\ \A n \in DOMAIN raw' : raw'[n] \in Nat /\ raw'[n] <= now'
         /\ \A m, n \in DOMAIN raw' : m <= n => raw'[m] <= raw'[n]
<1> USE DEF VideoEncoderInv, EncoderTypeOK, Recorded
<1>1. 0 .. inPts = (0 .. inPts - 1) \cup {inPts} /\ inPts \notin 0 .. inPts - 1
  BY OneMore
<1>2. DOMAIN raw' = 0 .. inPts
  <2>1. DOMAIN raw' = DOMAIN raw \cup {inPts}
    BY DEF with
  <2> QED BY <2>1, <1>1
<1>3. raw'[inPts] = now' /\ \A n \in 0 .. inPts - 1 : raw'[n] = raw[n]
  BY <1>1, <1>2 DEF with
<1>4. \A n \in 0 .. inPts - 1 : n \in DOMAIN raw
  BY <1>1
<1>5. \A n \in DOMAIN raw' : raw'[n] \in Nat /\ raw'[n] <= now'
  <2>1. ASSUME NEW n \in 0 .. inPts - 1 PROVE raw'[n] \in Nat /\ raw'[n] <= now'
    <3>1. raw[n] \in Nat /\ raw[n] <= now
      BY <1>4
    <3> QED BY <3>1, <1>3
  <2> QED BY <2>1, <1>1, <1>2, <1>3
<1>6. ASSUME NEW m \in DOMAIN raw', NEW n \in DOMAIN raw', m <= n
      PROVE  raw'[m] <= raw'[n]
  <2>1. CASE n = inPts
    BY <2>1, <1>3, <1>5
  <2>2. CASE n # inPts
    <3>1. m \in 0 .. inPts - 1 /\ n \in 0 .. inPts - 1
      BY <2>2, <1>2, <1>6
    <3>2. raw[m] <= raw[n]
      BY <3>1, <1>4, <1>6
    <3> QED BY <3>1, <3>2, <1>3
  <2> QED BY <2>1, <2>2
<1> QED BY <1>2, <1>3, <1>5, <1>6

LEMMA TimesWait ==
  ASSUME VideoEncoderAssumption, VideoEncoderInv, now' \in Nat, now' > now,
         raw' = with(raw, inPts, now'),
         NEW times, times = with(qFTP, inPts, now')
  PROVE  /\ \A n \in DOMAIN times : n \in DOMAIN raw' /\ times[n] = raw'[n]
         /\ \A n \in DOMAIN raw' : n >= dts => n \in DOMAIN times
<1> USE DEF VideoEncoderInv, EncoderTypeOK, Waiting
<1>1. /\ DOMAIN raw' = 0 .. inPts
      /\ raw'[inPts] = now' /\ \A n \in 0 .. inPts - 1 : raw'[n] = raw[n]
  BY FrameRecorded
<1>2. dts \in Int /\ dts >= nextDts /\ nextDts \in Int
  BY EncoderOpened
<1>3. DOMAIN times = DOMAIN qFTP \cup {inPts}
  BY DEF with
<1>4. times[inPts] = now' /\ \A n \in DOMAIN qFTP : n # inPts => times[n] = qFTP[n]
  BY DEF with
<1>5. 0 .. inPts = (0 .. inPts - 1) \cup {inPts} /\ inPts \notin 0 .. inPts - 1
  BY OneMore DEF VideoEncoderInv, EncoderTypeOK
<1>6. 0 .. inPts - 1 \subseteq DOMAIN raw /\ DOMAIN raw \subseteq 0 .. inPts
  BY <1>5 DEF Recorded
<1>7. \A n \in DOMAIN times : n \in DOMAIN raw' /\ times[n] = raw'[n]
  <2>1. ASSUME NEW n \in DOMAIN qFTP, n # inPts
        PROVE  n \in 0 .. inPts - 1 /\ times[n] = raw'[n]
    <3>1. n \in 0 .. inPts - 1
      BY <2>1, <1>5, <1>6
    <3> QED BY <3>1, <2>1, <1>1, <1>4
  <2> QED BY <2>1, <1>1, <1>3, <1>4, <1>5
<1>8. \A n \in DOMAIN raw' : n >= dts => n \in DOMAIN times
  <2>1. ASSUME NEW n \in 0 .. inPts - 1, n >= dts PROVE n \in DOMAIN qFTP
    <3>1. n \in DOMAIN raw /\ n >= nextDts
      BY <2>1, <1>2, <1>6
    <3> QED BY <3>1
  <2> QED BY <2>1, <1>1, <1>3, <1>5
<1> QED BY <1>7, <1>8

(* timesOfPicture: the picture has the time of its frame, and a decoding   *)
(* time between the last one and that.                                     *)
LEMMA PictureInTime ==
  ASSUME VideoEncoderAssumption, VideoEncoderInv, now' \in Nat, now' > now,
         raw' = with(raw, inPts, now'),
         NEW times, times = with(qFTP, inPts, now'), NEW p \in ready
  PROVE  /\ p \in 0 .. inPts /\ timeIn(times, p) = raw'[p]
         /\ timeIn(times, dts) = 0 \/ (dts \in 0 .. inPts /\ timeIn(times, dts) = raw'[dts])
         /\ timeIn(times, dts) \in codedPicture.dTime .. timeIn(times, p)
<1>1. /\ DOMAIN raw' = 0 .. inPts
      /\ \A n \in 0 .. inPts - 1 : raw'[n] = raw[n]
      /\ \A n \in DOMAIN raw' : raw'[n] \in Nat
      /\ \A m, n \in DOMAIN raw' : m <= n => raw'[m] <= raw'[n]
  BY FrameRecorded
<1>2. /\ \A n \in DOMAIN times : n \in DOMAIN raw' /\ times[n] = raw'[n]
      /\ \A n \in DOMAIN raw' : n >= dts => n \in DOMAIN times
  BY TimesWait
<1>3. /\ dts \in Int /\ dts >= nextDts /\ dts <= inPts /\ nextDts \in Int
      /\ \A n \in opened.in : n \in 0 .. inPts - 1
  BY EncoderOpened
<1>4. inPts \in Nat
  BY DEF VideoEncoderInv, EncoderTypeOK
<1>5. p \in 0 .. inPts /\ p >= dts
  BY <1>3, <1>4 DEF ready, inside
<1>6. p \in DOMAIN times /\ timeIn(times, p) = raw'[p] /\ raw'[p] \in Nat
  BY <1>1, <1>2, <1>5 DEF timeIn
<1>7. CASE dts < 0
  <2>1. timeIn(times, dts) = 0
    BY <1>1, <1>2, <1>3, <1>7 DEF timeIn
  <2>2. codedPicture.dTime = 0
    BY <1>3, <1>7 DEF VideoEncoderInv, Handed
  <2> QED BY <2>1, <2>2, <1>5, <1>6
<1>8. CASE dts >= 0
  <2>1. dts \in 0 .. inPts
    BY <1>3, <1>4, <1>8
  <2>2. dts \in DOMAIN times /\ timeIn(times, dts) = raw'[dts] /\ raw'[dts] \in Nat
    BY <2>1, <1>1, <1>2, <1>3 DEF timeIn
  <2>3. raw'[dts] <= raw'[p]
    BY <2>1, <1>1, <1>3, <1>5
  <2>4. CASE codedPicture.dTime = 0
    BY <2>1, <2>2, <2>3, <2>4, <1>5, <1>6
  <2>5. ASSUME NEW d \in Nat, d < nextDts, codedPicture.dTime = raw[d]
        PROVE  codedPicture.dTime \in Nat /\ codedPicture.dTime <= raw'[dts]
    <3>1. d \in 0 .. inPts - 1 /\ d <= dts /\ d \in 0 .. inPts
      BY <2>5, <1>3, <1>4
    <3>2. raw[d] = raw'[d] /\ raw'[d] \in Nat /\ raw'[d] <= raw'[dts]
      BY <3>1, <2>1, <1>1
    <3> QED BY <3>2, <2>5
  <2>6. codedPicture.dTime \in Nat /\ codedPicture.dTime <= raw'[dts]
    BY <2>2, <2>4, <2>5 DEF VideoEncoderInv, Handed
  <2> QED BY <2>1, <2>2, <2>3, <2>6, <1>5, <1>6
<1> QED BY <1>3, <1>7, <1>8

(* The library after a frame: it keeps the frame, and gives a picture or   *)
(* none, or the frame is lost.                                             *)
EncoderSteps(times) ==
  \/ lostFrame /\ qFTP' = times
  \/ keptFrame /\ qFTP' = times
  \/ \E p \in ready, n \in NalCounts : gavePicture(times, p, n)

LEMMA LibraryKept ==
  ASSUME VideoEncoderAssumption, VideoEncoderInv,
         NEW times, EncoderSteps(times)
  PROVE  /\ inPts' \in Nat /\ inPts' \in {inPts, inPts + 1}
         /\ lib' = [in |-> lib'.in, given |-> lib'.given, start |-> lib'.start]
         /\ lib'.start \in Nat /\ lib'.given \in Nat /\ lib'.start + lib'.given <= inPts'
         /\ nextDts' \in Int /\ nextDts' >= dts
         /\ \A n \in lib'.in : n \in 0 .. inPts' - 1 /\ n >= nextDts'
<1>1. /\ opened = [in |-> opened.in, given |-> opened.given, start |-> opened.start]
      /\ opened.start \in Nat /\ opened.given \in Nat
      /\ opened.start + opened.given <= inPts
      /\ dts \in Int /\ dts <= inPts
      /\ \A n \in opened.in : n \in 0 .. inPts - 1 /\ n >= dts
  BY EncoderOpened
<1>2. inPts \in Nat /\ Delay \in Nat
  BY DEF VideoEncoderInv, EncoderTypeOK, VideoEncoderAssumption
<1>3. dts = opened.start + opened.given - Delay
  BY DEF dts
<1>4. nextDts' = lib'.start + lib'.given - Delay
  BY DEF nextDts
<1> HIDE DEF VideoEncoderInv, VideoEncoderAssumption
<1>5. \A n \in inside : n \in 0 .. inPts /\ n >= dts
  BY <1>1, <1>2 DEF inside
<1>6. CASE lostFrame
  BY <1>6, <1>1, <1>2, <1>3, <1>4 DEF lostFrame
<1>7. CASE keptFrame
  <2>1. /\ inPts' = inPts + 1 /\ lib'.in = inside
        /\ lib' = [in |-> inside, given |-> opened.given, start |-> opened.start]
    BY <1>7, <1>1 DEF keptFrame
  <2> QED BY <2>1, <1>1, <1>2, <1>3, <1>4, <1>5
<1>8. ASSUME NEW p \in ready, NEW n \in NalCounts, gavePicture(times, p, n)
      PROVE  /\ inPts' = inPts + 1
             /\ lib' = [in |-> inside \ {p}, given |-> opened.given + 1,
                        start |-> opened.start]
             /\ \A q \in inside \ {p} : q > dts
  BY <1>8, <1>1 DEF gavePicture, ready
<1>9. CASE \E p \in ready, n \in NalCounts : gavePicture(times, p, n)
  <2>1. PICK p \in ready : /\ inPts' = inPts + 1
                           /\ lib' = [in |-> inside \ {p}, given |-> opened.given + 1,
                                      start |-> opened.start]
                           /\ \A q \in inside \ {p} : q > dts
    BY <1>8, <1>9
  <2>2. nextDts' = dts + 1
    BY <2>1, <1>1, <1>2, <1>3, <1>4
  <2> QED BY <2>1, <2>2, <1>1, <1>2, <1>5
<1> QED BY <1>6, <1>7, <1>9 DEF EncoderSteps

(* A picture that is handed on takes the place of its decoding time, and   *)
(* the times of that place wait no longer.                                 *)
LEMMA TimesKept ==
  ASSUME VideoEncoderAssumption, VideoEncoderInv, now' \in Nat, now' > now,
         raw' = with(raw, inPts, now'),
         NEW times, times = with(qFTP, inPts, now'), EncoderSteps(times)
  PROVE  Waiting' /\ Handed'
<1>1. /\ DOMAIN raw' = 0 .. inPts
      /\ \A n \in 0 .. inPts - 1 : raw'[n] = raw[n]
  BY FrameRecorded
<1>2. /\ \A n \in DOMAIN times : n \in DOMAIN raw' /\ times[n] = raw'[n]
      /\ \A n \in DOMAIN raw' : n >= dts => n \in DOMAIN times
  BY TimesWait
<1>3. /\ dts \in Int /\ dts >= nextDts /\ dts <= inPts /\ nextDts \in Int
      /\ nextDts' \in Int /\ nextDts' >= dts
      /\ \A n \in lib'.in : n \in 0 .. inPts' - 1 /\ n >= nextDts'
  BY EncoderOpened, LibraryKept
<1>4. inPts \in Nat
  BY DEF VideoEncoderInv, EncoderTypeOK
<1>5. Handed
  BY DEF VideoEncoderInv
<1> HIDE DEF VideoEncoderInv, VideoEncoderAssumption
<1>6. ASSUME qFTP' = times PROVE Waiting'
  BY <1>6, <1>1, <1>2, <1>3, <1>4 DEF Waiting
<1>7. ASSUME UNCHANGED codedPicture PROVE Handed'
  <2>1. CASE codedPicture.dTime = 0
    BY <2>1, <1>7 DEF Handed
  <2>2. ASSUME NEW d \in Nat, d < nextDts, codedPicture.dTime = raw[d]
        PROVE  d < nextDts' /\ codedPicture'.dTime = raw'[d]
    <3>1. d \in 0 .. inPts - 1 /\ d < nextDts'
      BY <2>2, <1>3, <1>4
    <3> QED BY <3>1, <2>2, <1>1, <1>7
  <2> QED BY <2>1, <2>2, <1>5 DEF Handed
<1>8. CASE lostFrame /\ qFTP' = times
  BY <1>6, <1>7, <1>8 DEF lostFrame
<1>9. CASE keptFrame /\ qFTP' = times
  BY <1>6, <1>7, <1>9 DEF keptFrame
<1>10. ASSUME NEW p \in ready, NEW n \in NalCounts, gavePicture(times, p, n)
       PROVE  Waiting' /\ Handed'
  <2>1. CASE pointedSliceNum + n <= MAX_SLICES
    <3>1. codedPicture' = timesOfPicture(times, p) /\ qFTP' = without(times, dts)
      BY <2>1, <1>10 DEF gavePicture, forget
    <3>2. nextDts' = dts + 1
      <4>1. lib'.start = opened.start /\ lib'.given = opened.given + 1
        BY <1>10, EncoderOpened DEF gavePicture, VideoEncoderInv
      <4>2. /\ opened.start \in Nat /\ opened.given \in Nat /\ Delay \in Nat
        BY EncoderOpened DEF VideoEncoderAssumption
      <4> QED BY <4>1, <4>2 DEF nextDts, dts
    <3>3. /\ DOMAIN qFTP' = DOMAIN times \ {dts}
          /\ \A k \in DOMAIN qFTP' : qFTP'[k] = times[k]
      BY <3>1 DEF without
    <3>4. Waiting'
      BY <3>2, <3>3, <1>1, <1>2, <1>3, <1>4 DEF Waiting
    <3>5. codedPicture'.dTime = timeIn(times, dts)
      BY <3>1 DEF timesOfPicture
    <3>6. \/ timeIn(times, dts) = 0
          \/ dts \in 0 .. inPts /\ timeIn(times, dts) = raw'[dts]
      BY PictureInTime
    <3>7. Handed'
      BY <3>2, <3>5, <3>6, <1>3 DEF Handed
    <3> QED BY <3>4, <3>7
  <2>2. CASE ~(pointedSliceNum + n <= MAX_SLICES)
    BY <2>2, <1>6, <1>7, <1>10 DEF gavePicture
  <2> QED BY <2>1, <2>2
<1> QED BY <1>8, <1>9, <1>10 DEF EncoderSteps

LEMMA RecordedKept ==
  ASSUME VideoEncoderAssumption, VideoEncoderInv, now' \in Nat, now' > now,
         raw' = with(raw, inPts, now'), inPts' \in Nat, inPts' \in {inPts, inPts + 1}
  PROVE  Recorded'
BY FrameRecorded DEF Recorded, VideoEncoderInv, EncoderTypeOK

LEMMA ReferenceOf ==
  ASSUME NEW t \in Nat, refTime \in Nat, gopTime \in Nat, gopTime > 0
  PROVE  /\ refTime = 0 => reached(t) /\ nextReference(t) = t + gopTime
         /\ refTime # 0 => /\ reached(t) <=> refTime <= t
                           /\ refTime <= t => nextReference(t) = refTime + gopTime
                           /\ refTime > t => nextReference(t) = refTime
BY DEF nextReference, reached, reference

LEMMA CrossesFirst ==
  ASSUME NEW time \in Nat, NEW gop \in Nat PROVE 0 \in 0 .. time /\ time + 0 * gop = time
OBVIOUS

LEMMA AheadFromFirst ==
  ASSUME NEW time \in Nat \ {0}, NEW gop \in Nat
  PROVE  time + gop \in Nat /\ AheadAt(time, gop, time + gop, time)
<1>1. time + gop = time + 1 * gop /\ time + gop # 0
  OBVIOUS
<1> QED BY <1>1 DEF AheadAt

LEMMA AheadFromNext ==
  ASSUME NEW time \in Nat, NEW gop \in Nat \ {0}, NEW next \in Nat \ {0}, NEW start \in Nat,
         AheadAt(time, gop, next, start), NEW later \in Nat, later > time
  PROVE  AheadAt(later, gop, IF next <= later THEN next + gop ELSE next, start)
<1>1. PICK j \in Nat : /\ next = start + j * gop
                       /\ j = 0 \/ next - gop <= time
  BY DEF AheadAt
<1>2. start # 0
  BY DEF AheadAt
<1>3. CASE next <= later
  <2>1. next + gop = start + (j + 1) * gop /\ j + 1 \in Nat
    BY <1>1
  <2>2. next + gop # 0 /\ (next + gop) - gop <= later
    BY <1>3
  <2> QED BY <2>1, <2>2, <1>2, <1>3 DEF AheadAt
<1>4. CASE next > later
  <2>1. j = 0 \/ next - gop <= later
    BY <1>1
  <2> QED BY <2>1, <1>1, <1>2, <1>4 DEF AheadAt
<1> QED BY <1>3, <1>4

(* nextReference: the reference time moves on by one GOP time when it is   *)
(* reached, and so is ahead again if it was.                               *)
LEMMA ReferenceKept ==
  ASSUME VideoEncoderAssumption, VideoEncoderInv, encodeRaw, now' \in Nat, now' > now
  PROVE  /\ refTime' \in Nat /\ origin' \in Nat /\ gopTime' = gopTime
         /\ FirstAhead'
<1>1. /\ refTime' = IF gopTime > 0 THEN nextReference(now') ELSE refTime
      /\ origin' = IF gopTime > 0 THEN (IF origin = 0 THEN now' ELSE origin) ELSE 0
      /\ gopTime' = gopTime
  BY DEF encodeRaw
<1>2. /\ now \in Nat /\ gopTime \in Nat /\ refTime \in Nat /\ origin \in Nat
      /\ AheadAt(now, gopTime, refTime, origin)
  BY DEF VideoEncoderInv, EncoderTypeOK, FirstAhead
<1>3. gopTime > 0 => (origin = 0 <=> refTime = 0)
  BY <1>2 DEF AheadAt
<1> HIDE DEF VideoEncoderInv
<1>4. CASE gopTime = 0
  BY <1>1, <1>2, <1>4 DEF FirstAhead, AheadAt
<1>5. CASE gopTime > 0 /\ refTime = 0
  <2>1. refTime' = now' + gopTime /\ origin' = now'
    BY <1>1, <1>2, <1>3, <1>5, ReferenceOf
  <2>2. now' \in Nat \ {0}
    BY <1>2
  <2>3. now' + gopTime \in Nat /\ AheadAt(now', gopTime, now' + gopTime, now')
    BY <2>2, <1>2, AheadFromFirst
  <2> QED BY <2>1, <2>3, <1>1, <1>2 DEF FirstAhead
<1>6. CASE gopTime > 0 /\ refTime # 0
  <2>1. origin' = origin
    BY <1>1, <1>3, <1>6
  <2>2. refTime' = IF refTime <= now' THEN refTime + gopTime ELSE refTime
    BY <1>1, <1>2, <1>6, ReferenceOf
  <2>3. AheadAt(now', gopTime, IF refTime <= now' THEN refTime + gopTime ELSE refTime,
                origin)
    BY <1>2, <1>6, AheadFromNext
  <2>4. refTime' \in Nat
    BY <2>2, <1>2
  <2> QED BY <2>1, <2>2, <2>3, <2>4, <1>1, <1>2 DEF FirstAhead
<1> QED BY <1>2, <1>4, <1>5, <1>6

LEMMA EncodeStep ==
  ASSUME VideoEncoderAssumption, VideoEncoderInv, encodeRaw
  PROVE  now' \in Nat /\ now' > now /\ VideoEncoderInv'
<1>1. now' \in Nat /\ now' > now
  BY DEF encodeRaw, VideoEncoderInv, EncoderTypeOK, VideoEncoderAssumption
<1> DEFINE times == with(qFTP, inPts, now')
<1>2. raw' = with(raw, inPts, now') /\ EncoderSteps(times) /\ rawFrames' = rawFrames + 1
  BY DEF encodeRaw, EncoderSteps
<1> HIDE DEF times
<1>3. times = with(qFTP, inPts, now')
  BY DEF times
<1>4. Waiting' /\ Handed'
  BY <1>1, <1>2, <1>3, TimesKept
<1>5. Recorded'
  BY <1>1, <1>2, LibraryKept, RecordedKept
<1>6. EncoderTypeOK'
  BY <1>1, <1>2, LibraryKept, ReferenceKept DEF VideoEncoderInv, EncoderTypeOK
<1> QED BY <1>1, <1>4, <1>5, <1>6, ReferenceKept DEF VideoEncoderInv

LEMMA ClientStep ==
  ASSUME VideoEncoderAssumption, VideoEncoderInv,
         \/ encoderConfigEvent \/ forceIntraEvent \/ setGopReferenceTimeEvent \/ resize
         \/ UNCHANGED videoEncoderVars
  PROVE  VideoEncoderInv'
<1> USE DEF VideoEncoderInv, EncoderTypeOK, VideoEncoderAssumption
<1>1. UNCHANGED <<now, inPts, qFTP, lib, codedPicture, raw, rawFrames>>
  BY DEF encoderConfigEvent, forceIntraEvent, setGopReferenceTimeEvent, resize, clientEvent,
    videoEncoderVars
<1>2. Recorded' /\ Waiting' /\ Handed'
  BY <1>1 DEF Recorded, Waiting, Handed, nextDts
<1>3. CASE encoderConfigEvent \/ setGopReferenceTimeEvent
  <2>1. gopTime' \in Nat /\ refTime' \in Nat /\ origin' \in Nat
    BY <1>3 DEF encoderConfigEvent, setGopReferenceTimeEvent
  <2>2. gopTime' > 0 => origin' = refTime' /\ refTime' = origin' + 0 * gopTime'
    BY <1>3, <2>1 DEF encoderConfigEvent, setGopReferenceTimeEvent
  <2>3. FirstAhead'
    BY <2>2 DEF FirstAhead, AheadAt
  <2> QED BY <1>1, <1>2, <2>1, <2>3
<1>4. CASE forceIntraEvent \/ resize \/ UNCHANGED videoEncoderVars
  <2>1. UNCHANGED <<gopTime, refTime, origin>>
    BY <1>4 DEF forceIntraEvent, resize, videoEncoderVars
  <2> QED BY <1>1, <1>2, <2>1 DEF FirstAhead
<1> QED BY <1>3, <1>4

THEOREM VideoEncoderInvariance ==
  ASSUME VideoEncoderAssumption PROVE VideoEncoderSpec => []VideoEncoderInv
<1>1. VideoEncoderInv /\ [VideoEncoderNext]_videoEncoderVars => VideoEncoderInv'
  BY EncodeStep, ClientStep DEF VideoEncoderNext
<1> QED BY <1>1, EncoderStart, PTL DEF VideoEncoderSpec

LEMMA OwnTimes ==
  ASSUME VideoEncoderAssumption, VideoEncoderInv, encodeRaw PROVE ownTimes
<1> SUFFICES ASSUME codedPicture' # codedPicture
             PROVE  /\ codedPicture'.pTime = raw'[codedPicture'.of]
                    /\ codedPicture'.dTime \in codedPicture.dTime .. codedPicture'.pTime
  BY DEF ownTimes
<1>1. now' \in Nat /\ now' > now
  BY EncodeStep
<1> DEFINE times == with(qFTP, inPts, now')
<1>2. raw' = with(raw, inPts, now')
  BY DEF encodeRaw
<1>3. PICK p \in ready, n \in NalCounts : gavePicture(times, p, n)
  BY DEF encodeRaw, lostFrame, keptFrame
<1>4. codedPicture' = timesOfPicture(times, p)
  BY <1>3 DEF gavePicture
<1> HIDE DEF times
<1>5. /\ timeIn(times, p) = raw'[p]
      /\ timeIn(times, dts) \in codedPicture.dTime .. timeIn(times, p)
  BY <1>1, <1>2, PictureInTime DEF times
<1> QED BY <1>4, <1>5 DEF timesOfPicture

LEMMA GopKept ==
  ASSUME VideoEncoderAssumption, VideoEncoderInv, encodeRaw PROVE gopKept
<1> SUFFICES ASSUME gopTime > 0, ~forceIntra, refTime = 0 \/ refTime > now
             PROVE  forced' <=> crosses
  BY DEF gopKept
<1>1. now' \in Nat /\ now' > now
  BY EncodeStep
<1>2. /\ forced' = reached(now')
      /\ origin' = IF origin = 0 THEN now' ELSE origin
      /\ gopTime' = gopTime
  BY DEF encodeRaw, reached
<1>3. now \in Nat /\ gopTime \in Nat \ {0} /\ refTime \in Nat /\ origin \in Nat /\ FirstAhead
  BY DEF VideoEncoderInv, EncoderTypeOK
<1> HIDE DEF VideoEncoderInv, VideoEncoderAssumption
<1>4. CASE refTime = 0
  <2>1. origin' = now' /\ reached(now')
    BY <1>1, <1>2, <1>3, <1>4, ReferenceOf DEF FirstAhead, AheadAt
  <2>2. 0 \in 0 .. now' /\ now' + 0 * gopTime = now'
    BY <1>1, <1>3, CrossesFirst
  <2>3. crosses
    BY <2>1, <2>2, <1>1 DEF crosses
  <2> QED BY <2>1, <2>3, <1>2
<1>5. CASE refTime # 0
  <2>1. origin # 0 /\ origin' = origin /\ refTime > now
    BY <1>2, <1>3, <1>5 DEF FirstAhead, AheadAt
  <2>2. PICK j \in Nat : /\ refTime = origin + j * gopTime
                         /\ j = 0 \/ refTime - gopTime <= now
    BY <1>3, <1>5 DEF FirstAhead, AheadAt
  <2>3. reached(now') <=> refTime <= now'
    BY <1>1, <1>3, <1>5, ReferenceOf
  <2>4. ASSUME refTime <= now' PROVE crosses
    <3>1. j * gopTime \in Nat /\ j <= j * gopTime
      BY <1>3, MultipleNotLess
    <3>2. j \in 0 .. now'
      BY <3>1, <2>2, <2>4, <1>1, <1>3
    <3> QED BY <3>2, <2>1, <2>2, <2>4 DEF crosses
  <2>5. ASSUME crosses PROVE refTime <= now'
    <3>1. PICK k \in 0 .. now' : now < origin + k * gopTime /\ origin + k * gopTime <= now'
      BY <2>1, <2>5 DEF crosses
    <3>2. k * gopTime \in Nat /\ j * gopTime \in Nat /\ k \in Nat
      BY <1>1, <1>3, <3>1
    <3>3. CASE k < j
      <4>1. k * gopTime + gopTime <= j * gopTime
        BY <3>2, <3>3, <1>3, MultiplesApart
      <4>2. j # 0 /\ refTime - gopTime <= now
        BY <3>2, <3>3, <2>2
      <4> QED BY <4>1, <4>2, <3>1, <3>2, <2>2, <1>3
    <3>4. CASE k = j
      BY <3>4, <3>1, <2>2
    <3>5. CASE j < k
      <4>1. j * gopTime + gopTime <= k * gopTime
        BY <3>2, <3>5, <1>3, MultiplesApart
      <4> QED BY <4>1, <3>1, <3>2, <2>2, <1>1, <1>3
    <3> QED BY <3>2, <3>3, <3>4, <3>5
  <2> QED BY <2>3, <2>4, <2>5, <1>2
<1> QED BY <1>4, <1>5

(* doProcessFrame: pictures carry the times of their own frames, for any   *)
(* gaps between frames, depths of the library and frames that it loses;    *)
(* and encoders of one reference cut at the same times, for any GOP times  *)
(* and references.                                                         *)
THEOREM AllCodedInTime ==
  ASSUME VideoEncoderAssumption PROVE VideoEncoderSpec => CodedInTime
<1>1. VideoEncoderInv /\ [VideoEncoderNext]_videoEncoderVars
        => [ownTimes /\ gopKept]_videoEncoderVars
  <2> SUFFICES ASSUME VideoEncoderInv, VideoEncoderNext PROVE ownTimes /\ gopKept
    OBVIOUS
  <2>1. CASE encodeRaw
    BY <2>1, OwnTimes, GopKept
  <2>2. CASE \/ encoderConfigEvent \/ forceIntraEvent \/ setGopReferenceTimeEvent \/ resize
    BY <2>2 DEF encoderConfigEvent, forceIntraEvent, setGopReferenceTimeEvent, resize,
      clientEvent, ownTimes, gopKept
  <2> QED BY <2>1, <2>2 DEF VideoEncoderNext
<1> QED BY <1>1, VideoEncoderInvariance, PTL DEF VideoEncoderSpec, CodedInTime
=============================================================================
