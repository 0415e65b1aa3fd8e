----------------------------- MODULE RtpPackets -----------------------------
(***************************************************************************)
(* From frames to RTP packets, for the payloads that this program makes    *)
(* itself: H.264 for UltraGrid (H264VideoStreamSampler,                    *)
(* UltraGridVideoFragmenter, UltraGridVideoRTPSink), audio for UltraGrid   *)
(* (UltraGridAudioRTPSink) and AAC (CustomMPEG4GenericRTPSink).  Packets   *)
(* may be lost, reordered and duplicated; a receiver puts frames together  *)
(* by what the packets say.                                                *)
(*                                                                         *)
(* The sampler gathers NAL units into the picture that an access unit      *)
(* delimiter ends; the fragmenter cuts it into pieces.  A piece of data is *)
(* the number of its frame and a range of bytes.  Frames of audio are cut  *)
(* by live555, if at all.                                                  *)
(***************************************************************************)
EXTENDS Integers, Sequences, FiniteSets, SequencesExt

CONSTANTS
  Payloads,     \* a subset of {"UltraGridV", "UltraGridA", "MPEG4"}
  MaxSize,      \* bytes of data in a packet, behind the headers
  Sets,         \* sequence parameter sets: [mbs, units, mbsOnly, crop]
  SliceSizes,   \* sizes of slices, in bytes
  AudioSizes,   \* [Payloads -> of frames of audio, in bytes]
  MaxSlices,    \* bound: slices of a picture
  MaxPictures   \* bound: frames of the source

(* Cropping leaves something of each picture, and the size of an AAC frame *)
(* has 13 bits.                                                            *)
PacketsAssumption ==
  /\ Payloads \subseteq {"UltraGridV", "UltraGridA", "MPEG4"}
  /\ MaxSize \in Nat \ {0} /\ MaxSlices \in Nat /\ MaxPictures \in Nat
  /\ SliceSizes \subseteq Nat \ {0}
  /\ \A s \in Sets :
       /\ s.mbs \in Nat /\ s.units \in Nat /\ s.mbsOnly \in {0, 1} /\ s.crop \in [1 .. 4 -> Nat]
       /\ 2 * (s.crop[1] + s.crop[2]) < s.mbs * 16 /\ 2 * (s.crop[3] + s.crop[4]) < s.units * 16
  /\ \A p \in DOMAIN AudioSizes : \A size \in AudioSizes[p] :
       size \in Nat \ {0} /\ (p = "MPEG4" => size < 8192)

(* In interlaced streams the vertical crop is of fields and counts twice;  *)
(* updateSPSInfo counts it once, and is right where there is none.         *)
Progressive == \A s \in Sets : s.mbsOnly = 1 \/ s.crop[3] + s.crop[4] = 0

VARIABLES
  payload,      \* chosen once
  source,       \* NAL units or frames that are to be sent
  sampler,      \* [bytes, wh]: gathered since the last delimiter, and the size
  validVideoSize,
  fragmenter,   \* [unit, fNumValidDataBytes, fCurDataOffset, fBufferIDx, header, time]
  packets,      \* that were sent
  received,
  units,        \* history: the frames of the source: [bytes, wh, slices]
  sent,         \* history: the numbers of the frames, in the order they were sent
  pictures      \* that the source ended

packetsVars == <<payload, source, sampler, validVideoSize, fragmenter, packets, received,
                units, sent, pictures>>

NAL_START_SIZE == 4
NoSize == <<0, 0>>
isVideo == payload = "UltraGridV"

(* The fragments of a frame have the header in common, but for the offset. *)
NoHeader == [id |-> 0, length |-> 0, wh |-> NoSize]

PacketsInit ==
  /\ payload \in Payloads /\ source = <<>>
  /\ sampler = [bytes |-> 0, wh |-> NoSize] /\ validVideoSize = FALSE
  /\ fragmenter = [unit |-> 0, fNumValidDataBytes |-> 0, fCurDataOffset |-> 0, fBufferIDx |-> 0,
                   header |-> NoHeader, time |-> 0]
  /\ packets = {} /\ received = {} /\ units = <<>> /\ sent = <<>> /\ pictures = 0
-----------------------------------------------------------------------------
(* The source: NAL units, one at a time.  A picture is of slices, some     *)
(* with a parameter set in front; the delimiter of the next one ends it.   *)

TrueSize(sps) ==
  <<sps.mbs * 16 - 2 * (sps.crop[1] + sps.crop[2]),
    (2 - sps.mbsOnly) * (sps.units * 16 - 2 * (sps.crop[3] + sps.crop[4]))>>

sizeBefore == IF units = <<>> THEN NoSize ELSE Last(units).wh

isOpen == Len(units) > pictures

arrives(nal) ==
  /\ source = <<>> /\ source' = <<nal>>
  /\ UNCHANGED <<payload, sampler, validVideoSize, fragmenter, packets, received, sent>>

parameterSet(sps) ==
  /\ isVideo /\ ~isOpen /\ pictures < MaxPictures
  /\ arrives([type |-> "SPS", size |-> 2, sps |-> sps])
  /\ units' = Append(units, [bytes |-> 2 + NAL_START_SIZE, wh |-> TrueSize(sps), slices |-> 0])
  /\ UNCHANGED pictures

slice(size) ==
  /\ isVideo /\ pictures < MaxPictures
  /\ arrives([type |-> "slice", size |-> size])
  /\ IF isOpen
       THEN LET open == Last(units) IN
            /\ open.slices < MaxSlices
            /\ units' = [units EXCEPT ![Len(units)] =
                 [open EXCEPT !.bytes = @ + size + NAL_START_SIZE, !.slices = @ + 1]]
       ELSE units' = Append(units,
              [bytes |-> size + NAL_START_SIZE, wh |-> sizeBefore, slices |-> 1])
  /\ UNCHANGED pictures

delimiter ==
  /\ isVideo /\ isOpen /\ Last(units).slices > 0
  /\ arrives([type |-> "AUD", size |-> 2])
  /\ pictures' = pictures + 1
  /\ UNCHANGED units

sound(size) ==
  /\ ~isVideo /\ pictures < MaxPictures /\ pictures' = pictures + 1
  /\ arrives([type |-> "audio", size |-> size])
  /\ units' = Append(units, [bytes |-> size, wh |-> NoSize, slices |-> 1])
-----------------------------------------------------------------------------
(* The sampler.                                                            *)

(* updateSPSInfo.  A size that comes out as zero is not taken.             *)
updateSPSInfo(sps, wh) ==
  LET width == sps.mbs * 16 - (sps.crop[1] * 2 + sps.crop[2] * 2)
      height == (2 - sps.mbsOnly) * sps.units * 16 - (sps.crop[3] * 2 + sps.crop[4] * 2)
  IN <<IF width > 0 THEN width ELSE wh[1], IF height > 0 THEN height ELSE wh[2]>>

(* A NAL unit is put behind the others, with a start code.                 *)
append(nal) ==
  [bytes |-> sampler.bytes + nal.size + NAL_START_SIZE,
   wh |-> IF nal.type = "SPS" THEN updateSPSInfo(nal.sps, sampler.wh) ELSE sampler.wh]

(* The number and the size of what the sampler delivers, without the       *)
(* delimiter that ends it.                                                 *)
delivered == [unit |-> Len(units), bytes |-> sampler.bytes]

(* Until the size of pictures is known they go into a buffer of their own, *)
(* the first one that says the size among them.                            *)
toDummy == fragmenter

(* An empty picture is asked for again.                                    *)
toFragmenter ==
  [fragmenter EXCEPT !.unit = delivered.unit, !.fNumValidDataBytes = delivered.bytes,
                     !.time = pictures + 1]

continuePlaying == IF validVideoSize THEN toFragmenter ELSE toDummy

afterGettingFrame ==
  /\ isVideo /\ source # <<>> /\ fragmenter.fNumValidDataBytes = 0
  /\ LET nal == Head(source) IN
     IF nal.type # "AUD"
     THEN sampler' = append(nal) /\ UNCHANGED <<validVideoSize, fragmenter>>
     ELSE /\ sampler' = [sampler EXCEPT !.bytes = 0]
          /\ validVideoSize' = (validVideoSize \/ (sampler.wh[1] > 0 /\ sampler.wh[2] > 0))
          /\ fragmenter' = continuePlaying
  /\ source' = Tail(source)
  /\ UNCHANGED <<payload, packets, received, units, sent, pictures>>
-----------------------------------------------------------------------------
(* The fragmenter.  The first fragment of a picture writes the header, and *)
(* each one its offset.                                                    *)
header ==
  IF fragmenter.fCurDataOffset # 0 THEN fragmenter.header
  ELSE [id |-> fragmenter.fBufferIDx, length |-> fragmenter.fNumValidDataBytes,
        wh |-> sampler.wh]

numBytesToSend(left) == IF left > MaxSize THEN MaxSize ELSE left

packet(h, unit, offset, bytes, marker, time) ==
  [id |-> h.id, length |-> h.length, wh |-> h.wh, offset |-> offset,
   unit |-> unit, from |-> offset, to |-> offset + bytes, marker |-> marker, time |-> time]

(* Mutant of nextBuffer: all frames have the same number.                  *)
nextBufferNever(f, done) == f.fBufferIDx

(* Buffers are numbered in 22 bits; a packet does not stay in the network  *)
(* for as many frames.                                                     *)
nextBuffer(f, done) == IF done THEN f.fBufferIDx + 1 ELSE f.fBufferIDx

(* doSpecialFrameHandling marks the last fragment of a picture.            *)
sendFragment ==
  LET f == fragmenter
      n == numBytesToSend(f.fNumValidDataBytes - f.fCurDataOffset)
      done == f.fCurDataOffset + n = f.fNumValidDataBytes
  IN /\ isVideo /\ f.fNumValidDataBytes > 0
     /\ packets' = packets \cup {packet(header, f.unit, f.fCurDataOffset, n, done, f.time)}
     /\ fragmenter' = [f EXCEPT !.header = header, !.fBufferIDx = nextBuffer(f, done),
                                !.fCurDataOffset = IF done THEN 0 ELSE @ + n,
                                !.fNumValidDataBytes = IF done THEN 0 ELSE @]
     /\ sent' = IF done THEN Append(sent, f.unit) ELSE sent
     /\ UNCHANGED <<payload, source, sampler, validVideoSize, received, units, pictures>>
-----------------------------------------------------------------------------
(* Sinks of audio.  A frame is cut by live555 into as many packets as it   *)
(* needs; the sink writes the header of each.                              *)

pieces(size) == {k \in 0 .. size - 1 : k % MaxSize = 0}

fullFrameSize(from, numBytes, numRemaining) == from + numBytes + numRemaining

(* The size of an AAC frame has 13 bits, and the frames are told apart by  *)
(* their times.                                                            *)
headerOfAAC(from, numBytes, numRemaining) ==
  [id |-> pictures, length |-> fullFrameSize(from, numBytes, numRemaining) % 8192, wh |-> NoSize]

(* UltraGrid is told the size of the fragment, and asserts that there is   *)
(* but one.                                                                *)
headerOfAudio(from, numBytes) ==
  [id |-> fragmenter.fBufferIDx, length |-> numBytes, wh |-> NoSize]

packetOf(from, size) ==
  LET n == IF size - from > MaxSize THEN MaxSize ELSE size - from
      remaining == size - from - n
  IN packet(IF payload = "MPEG4" THEN headerOfAAC(from, n, remaining) ELSE headerOfAudio(from, n),
            Len(units), from, n, remaining = 0, pictures)

sendAudio ==
  /\ ~isVideo /\ source # <<>> /\ source' = <<>>
  /\ payload = "UltraGridA" => pieces(Head(source).size) = {0}
  /\ packets' = packets \cup {packetOf(from, Head(source).size) : from \in pieces(Head(source).size)}
  /\ fragmenter' = [fragmenter EXCEPT !.fBufferIDx = nextBuffer(fragmenter, TRUE)]
  /\ sent' = Append(sent, Len(units))
  /\ UNCHANGED <<payload, sampler, validVideoSize, received, units, pictures>>
-----------------------------------------------------------------------------
(* The network gives a packet to the receiver, at any time or never.       *)
receive ==
  /\ \E p \in packets \ received : received' = received \cup {p}
  /\ UNCHANGED <<payload, source, sampler, validVideoSize, fragmenter, packets, units, sent,
                 pictures>>

PacketsNext ==
  \/ \E sps \in Sets : parameterSet(sps)
  \/ \E size \in SliceSizes : slice(size)
  \/ delimiter
  \/ payload \in DOMAIN AudioSizes /\ \E size \in AudioSizes[payload] : sound(size)
  \/ afterGettingFrame \/ sendFragment \/ sendAudio \/ receive

PacketsSpec == PacketsInit /\ [][PacketsNext]_packetsVars
-----------------------------------------------------------------------------
(* A receiver has a frame when the packets with the number of a buffer     *)
(* have all its bytes; it cannot see which frames they come from.          *)
gathered(id) == {p \in received : p.id = id}

isWhole(ps) ==
  \E p \in ps :
    \A byte \in 0 .. p.length - 1 : \E q \in ps : q.offset <= byte /\ byte < q.offset + q.to - q.from

(* No packet is longer than what fits, and from the first frame on that is *)
(* sent, none is left out and none is sent twice.                          *)
AllSent ==
  /\ \A p \in packets : p.to - p.from <= MaxSize
  /\ \A k \in 1 .. Len(sent) - 1 : sent[k + 1] = sent[k] + 1

(* Whatever the network loses, and in whatever order the packets come: a   *)
(* frame that can be put together is one that was sent, each byte in its   *)
(* place, with its own size, and marked where it ends; and all are sent.   *)
Reassembled ==
  /\ AllSent
  /\ \A id \in {p.id : p \in received} :
       LET ps == gathered(id) IN
       isWhole(ps) =>
         \E k \in DOMAIN units : \A p \in ps :
           /\ p.unit = k /\ p.length = units[k].bytes /\ p.wh = units[k].wh
           /\ p.from = p.offset /\ p.marker = (p.to = p.length)
           /\ \A q \in ps : p.time = q.time
=============================================================================
