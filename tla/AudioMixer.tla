----------------------------- MODULE AudioMixer -----------------------------
(***************************************************************************)
(* The audio mixer (AudioMixer.cpp): a ring of sums.  A frame of a channel *)
(* is added at the place its presentation time gives, counted from the     *)
(* first frame of all, and once enough is mixed the oldest samples go out  *)
(* and their places are set to zero.  A sum is modelled by the samples     *)
(* that it is of.  Times are in ticks: T ticks are R samples, and both     *)
(* conversions round; indices are unsigned integers of 32 bits.            *)
(***************************************************************************)
EXTENDS Integers, Sequences, SequencesExt, FiniteSets

CONSTANTS
  Channels,              \* ids of the readers
  R, T,                  \* R samples last T ticks
  inputFrameSamples,     \* samples of a frame, in and out
  Modulus,               \* 2^32
  Starts,                \* first sample of a channel
  Gaps,                  \* samples that a channel loses between two frames
  MaxFrames,             \* bound: frames of all channels
  MaxEvents              \* bound: events of the client

VARIABLES
  front, rear, syncTs,
  mixBuffers,            \* the samples in the sum at each place
  gains,                 \* 0 or 1, of those that are connected; masterGain in
                         \* the same way
  masterGain,
  next, frames,          \* the next sample of each channel, frames so far
  epoch, base,           \* history: times that the mixer synchronised, and
                         \* the sample it did so with
  due,                   \* history: accepted samples that are not out yet
  out,                   \* the frame that went out last
  events

vars == <<front, rear, syncTs, mixBuffers, gains, masterGain, next, frames, epoch,
          base, due, out, events>>

mixBufferMaxSamples == inputFrameSamples * 5
mixingThreshold == inputFrameSamples * 3
outputSamples == inputFrameSamples

Places == 0 .. mixBufferMaxSamples - 1
Unset == -1

U(x) == x % Modulus                                  \* conversion to unsigned
toTicks(samples) == (samples * T) \div R
toSamples(ticks) ==                                  \* division of C++
  IF ticks < 0 THEN -((-ticks * R) \div T) ELSE (ticks * R) \div T

Init ==
  /\ front = 0 /\ rear = 0 /\ syncTs = Unset
  /\ mixBuffers = [p \in Places |-> {}]
  /\ gains = [c \in Channels |-> 1] /\ masterGain = 1
  /\ next \in [Channels -> Starts] /\ frames = 0
  /\ epoch = 0 /\ base = 0 /\ due = {} /\ out = <<>>
  /\ events = 0
-----------------------------------------------------------------------------
(* The mixer while it works, as a record.                                  *)
mixer == [front |-> front, rear |-> rear, syncTs |-> syncTs, mix |-> mixBuffers,
          epoch |-> epoch, base |-> base, due |-> due]

samplesOf(c, m) ==
  IF gains[c] * masterGain = 0 THEN {}
  ELSE [ch : {c}, n : next[c] .. next[c] + inputFrameSamples - 1, epoch : {m.epoch}]

(* mixSample, for the samples of a frame from a place on.                  *)
mixed(m, c, at) ==
  [m EXCEPT
    !.mix = [p \in Places |->
               m.mix[p] \cup {s \in samplesOf(c, m) :
                               p = U(at + s.n - next[c]) % mixBufferMaxSamples}],
    !.due = @ \cup samplesOf(c, m)]

extended(m, end) == IF end > m.rear THEN [m EXCEPT !.rear = end] ELSE m

synced(m, c) == [m EXCEPT !.syncTs = toTicks(next[c]), !.base = next[c]]

resynced(m, c) ==
  [synced(m, c) EXCEPT !.front = 0, !.rear = 0, !.epoch = @ + 1, !.due = {}]

(* Mutant of isPast: samples from the past are taken. *)
isNever(m, at) == FALSE

isPast(m, at) == at < m.front

exceeds(m, at) == at > U(m.front + mixBufferMaxSamples - inputFrameSamples)

pushToBuffer(m, c) ==
  LET started == IF m.syncTs = Unset THEN synced(m, c) ELSE m
      at == U(toSamples(toTicks(next[c]) - started.syncTs))
      after(ready, from) == extended(mixed(ready, c, from), U(from + inputFrameSamples))
  IN IF mixBufferMaxSamples - U(m.rear - m.front) < inputFrameSamples THEN m
     ELSE IF isPast(started, at) THEN started
     ELSE IF exceeds(started, at) THEN after(resynced(started, c), 0)
     ELSE after(started, at)

-----------------------------------------------------------------------------
(* extractMixedFrame: the places of the samples that go out.               *)
outgoing(m) == [j \in 1 .. outputSamples |-> U(m.front + j - 1) % mixBufferMaxSamples]

cleared(m) == [p \in Places |-> IF p \in ToSet(outgoing(m)) THEN {} ELSE m.mix[p]]

extractMixedFrame(m) ==
  /\ syncTs' = m.syncTs /\ rear' = m.rear /\ epoch' = m.epoch /\ base' = m.base
  /\ IF U(m.rear - m.front) < mixingThreshold
       THEN front' = m.front /\ mixBuffers' = m.mix /\ due' = m.due /\ UNCHANGED out
       ELSE LET sums == [j \in 1 .. outputSamples |-> m.mix[outgoing(m)[j]]]
            IN /\ front' = U(m.front + outputSamples)
               /\ mixBuffers' = cleared(m)
               /\ due' = m.due \ UNION ToSet(sums)
               /\ out' = [at |-> m.front, ts |-> toTicks(m.front) + m.syncTs, base |-> m.base,
                          sums |-> sums, due |-> m.due, epoch |-> m.epoch]

(* A new frame of each of the readers in newFrames, in any order.          *)
doProcessFrame ==
  \E newFrames \in UNION {SetToSeqs(C) : C \in SUBSET DOMAIN gains \ {{}}},
     gap \in Gaps :
    /\ frames' = frames + Len(newFrames) /\ frames' <= MaxFrames
    /\ extractMixedFrame(FoldLeft(pushToBuffer, mixer, newFrames))
    /\ next' = [c \in Channels |->
                  IF c \in ToSet(newFrames)
                    THEN next[c] + inputFrameSamples
                         + (IF c = Last(newFrames) THEN gap ELSE 0)
                    ELSE next[c]]
    /\ UNCHANGED <<gains, masterGain, events>>

-----------------------------------------------------------------------------
(* Readers come and go, and events on the thread of the filter.  What was  *)
(* mixed of a reader that goes is still put out.                           *)
mixing == <<front, rear, syncTs, mixBuffers, next, frames, epoch, base, due, out>>

event == events < MaxEvents /\ events' = events + 1 /\ UNCHANGED mixing

specificReaderConfig(c) ==
  /\ c \notin DOMAIN gains
  /\ gains' = [d \in DOMAIN gains \cup {c} |-> IF d = c THEN 1 ELSE gains[d]]
  /\ UNCHANGED <<mixing, masterGain, events>>

specificReaderDelete(c) ==
  /\ event /\ c \in DOMAIN gains
  /\ gains' = [d \in DOMAIN gains \ {c} |-> gains[d]]
  /\ UNCHANGED masterGain

setChannelGain(c) ==
  /\ event /\ c \in DOMAIN gains
  /\ \E gain \in {0, 1} : gains' = [gains EXCEPT ![c] = gain]
  /\ UNCHANGED masterGain

soloChannelEvent(c) ==
  /\ event /\ c \in DOMAIN gains
  /\ gains' = [d \in DOMAIN gains |-> IF d = c THEN 1 ELSE 0]
  /\ UNCHANGED masterGain

changeMasterVolumeEvent ==
  /\ event
  /\ masterGain' \in {0, 1}
  /\ UNCHANGED gains

Next ==
  \/ doProcessFrame
  \/ \E c \in Channels : setChannelGain(c) \/ soloChannelEvent(c)
  \/ \E c \in Channels : specificReaderConfig(c) \/ specificReaderDelete(c)
  \/ changeMasterVolumeEvent

Spec == Init /\ [][Next]_vars
-----------------------------------------------------------------------------
(* By how much sample s is before its place, as the j-th that went out.    *)
early(s, j) == (s.n - out'.base) - (out'.at + j - 1)

(* extractMixedFrame: a frame that goes out has every sample that was      *)
(* accepted for its time, once, and none that was not since the mixer last *)
(* synchronised, but for the sample by which the conversions move a frame. *)
MixedOnce ==
  [][out' # out =>
      /\ \A j \in 1 .. outputSamples, s \in UNION ToSet(out'.sums) :
           s \in out'.sums[j] /\ s.epoch = out'.epoch =>
             early(s, j) \in -1 .. 1 /\ s \in out'.due
      /\ \A s \in out'.due \ UNION ToSet(out'.sums) : early(s, outputSamples) >= 0]_vars
=============================================================================
