---------------------------- MODULE SegmentFile ----------------------------
(***************************************************************************)
(* What a segmenter of the dasher makes of its stream: NAL units are       *)
(* gathered into frames (DashVideoSegmenterAVC, DashVideoSegmenterHEVC) or *)
(* AAC frames are stripped of their headers (DashAudioSegmenter), frames   *)
(* are added as samples to a context (i2libdash), and a context is written *)
(* as an ISO file of nested boxes (i2libisoff) that a player reads back by *)
(* offsets.                                                                *)
(*                                                                         *)
(* A box is a record: its type, the size it states (size), the size it has *)
(* (len), its fields and the boxes in it.  A field has a width in bytes    *)
(* and a number, or the data of a NAL unit; texts, brands and constants of *)
(* no consequence are zeros.  Times of frames are in microseconds, Den in  *)
(* a second; times in files are in ticks, TimeBase in a second.            *)
(***************************************************************************)
EXTENDS Integers, Sequences, FiniteSets, SequencesExt

CONSTANTS
  Codecs,         \* a subset of {"AVC", "HEVC", "AAC"}
  TimeBase, Den,  \* ticks and microseconds in a second
  SegDur,         \* duration of segments, in ticks
  Gaps,           \* times between frames of video, in microseconds
  SampleDur,      \* duration of frames of audio, in ticks
  Encoded,        \* frames of video come from an encoder, that gives them
                  \* a decode time and a size, and not from the network
  MaxChannels,    \* of frames of audio
  MaxUnits        \* bound: frames in the stream

VARIABLES
  codec, style,   \* what the stream is like, chosen once
  time,           \* of the last frame of the stream
  nals,           \* NAL units of that frame that are to be processed
  segmenter,      \* [tmpFrame, vFrame, currentIntra, previousIntra, sets, extradata]
  tsOffset, sequenceNumber,
  context,        \* samples of the segment that is being made
  init, file,     \* the boxes of the last init segment, and of the last segment
  sent,           \* frames of the stream from the first intra frame on, history
  params,         \* the parameter sets in use, history
  units, shown    \* frames of the stream, and those in all segments so far, history

vars == <<codec, style, time, nals, segmenter, tsOffset, sequenceNumber, context, init,
          file, sent, params, units, shown>>
streamVars == <<codec, style, time, sent, params, units>>

NO_DTS == 0 - 1
ADTS_HEADER_LENGTH == 7
isAudio == codec = "AAC"

-----------------------------------------------------------------------------
(* Boxes.                                                                  *)

F(w, n) == [w |-> w, n |-> n, d |-> <<>>]
Data(w, d) == [w |-> w, n |-> 0, d |-> d]
Zeros(w) == <<F(w, 0)>>

Width(fields) ==
  LET upTo[k \in 0 .. Len(fields)] == IF k = 0 THEN 0 ELSE upTo[k - 1] + fields[k].w
  IN upTo[Len(fields)]

Length(boxes) ==
  LET upTo[k \in 0 .. Len(boxes)] == IF k = 0 THEN 0 ELSE upTo[k - 1] + boxes[k].len
  IN upTo[Len(boxes)]

Stated(size, type, fields) ==
  [type |-> type, size |-> size, len |-> 8 + Width(fields), fields |-> fields, boxes |-> <<>>]

(* A box whose size is counted while it is written.                        *)
Counted(type, fields, boxes) ==
  LET len == 8 + Width(fields) + Length(boxes)
  IN [type |-> type, size |-> len, len |-> len, fields |-> fields, boxes |-> boxes]

(* The init segment.  e is the extradata, kept as pps_sps_data or aac_data.*)

write_matrix == Zeros(36)
write_mvhd == Counted("mvhd", Zeros(64) \o write_matrix, <<>>)
write_trex == Stated(32, "trex", <<F(4, 0), F(4, 1), F(4, 1), F(4, 0), F(4, 0), F(4, 0)>>)
write_mvex == Counted("mvex", <<>>, <<write_trex>>)
write_tkhd == Counted("tkhd", <<F(4, 15), F(8, 0), F(4, 1), F(24, 0)>> \o write_matrix \o Zeros(8), <<>>)
write_mdhd == Counted("mdhd", <<F(12, 0), F(4, TimeBase), F(8, 0)>>, <<>>)
write_hdlr == Counted("hdlr", Zeros(24) \o Zeros(13), <<>>)
write_vmhd == Stated(20, "vmhd", <<F(4, 1), F(8, 0)>>)
write_smhd == Stated(16, "smhd", Zeros(8))
write_url == Stated(12, "url ", <<F(4, 1)>>)
write_dref == Counted("dref", <<F(4, 0), F(4, 1)>>, <<write_url>>)
write_dinf == Counted("dinf", <<>>, <<write_dref>>)
write_avcc(e) == Stated(Width(e) + 8, "avcC", e)
write_hvcc(e) == Stated(Width(e) + 8, "hvcC", e)
visual == <<F(6, 0), F(2, 1), F(16, 0), F(54, 0)>>
write_avc1(e) == Counted("avc1", visual, <<write_avcc(e)>>)
write_hev1(e) == Counted("hev1", visual, <<write_hvcc(e)>>)

(* Descriptors in descriptors, each with a byte of tag and one of length.  *)
write_esds(e) ==
  LET dsi == Width(e)
  IN Counted("esds", <<F(4, 0), F(1, 3), F(1, (23 + dsi) % 128), F(2, 1), F(1, 0), F(1, 4),
                       F(1, (15 + dsi) % 128), F(1, 64), F(1, 21), F(3, 0), F(8, 0),
                       F(1, 5), F(1, dsi % 128)>> \o e \o <<F(1, 6), F(1, 1), F(1, 2)>>, <<>>)

write_mp4a(e) ==
  Counted("mp4a", <<F(6, 0), F(2, 1), F(8, 0), F(8, 0), F(2, TimeBase), F(2, 0)>>,
          <<write_esds(e)>>)
write_stsd(e) ==
  Counted("stsd", <<F(4, 0), F(4, 1)>>,
          <<CASE codec = "AVC" -> write_avc1(e) [] codec = "HEVC" -> write_hev1(e)
              [] codec = "AAC" -> write_mp4a(e)>>)
write_stts == Stated(16, "stts", Zeros(8))
write_stsc == Stated(16, "stsc", Zeros(8))
write_stsz == Stated(20, "stsz", Zeros(12))
write_stco == Stated(16, "stco", Zeros(8))
write_stbl(e) ==
  Counted("stbl", <<>>, <<write_stsd(e), write_stts, write_stsc, write_stsz, write_stco>>)
write_minf(e) ==
  Counted("minf", <<>>,
          <<IF isAudio THEN write_smhd ELSE write_vmhd, write_dinf, write_stbl(e)>>)
write_mdia(e) == Counted("mdia", <<>>, <<write_mdhd, write_hdlr, write_minf(e)>>)
write_trak(e) == Counted("trak", <<>>, <<write_tkhd, write_mdia(e)>>)
write_moov(e) == Counted("moov", <<>>, <<write_mvhd, write_mvex, write_trak(e)>>)
write_ftyp == Counted("ftyp", Zeros(20), <<>>)

initVideoGenerator(e) == <<write_ftyp, write_moov(e)>>
initAudioGenerator(e) == <<write_ftyp, write_moov(e)>>

-----------------------------------------------------------------------------
(* The segment, from a context c.                                          *)

write_styp == Stated(28, "styp", Zeros(20))

write_sidx(c) ==
  Counted("sidx", <<F(4, 1), F(4, 1), F(4, TimeBase), F(8, c.earliest), F(8, 0), F(2, 0), F(2, 1),
                    F(4, c.reference_size), F(4, c.current), F(4, 144)>>, <<>>)

write_mfhd(c) == Stated(16, "mfhd", <<F(4, 0), F(4, c.sequence)>>)
write_tfhd == Stated(16, "tfhd", <<F(4, 131072), F(4, 1)>>)
write_tfdt(c) == Stated(20, "tfdt", <<F(4, 1), F(8, c.earliest)>>)

(* Numbers of the trun box for a sample.                                   *)
entry(c, s) ==
  <<F(4, s.duration), F(4, s.size)>>
    \o IF c.box_flags = 769 THEN <<>> ELSE <<F(4, IF s.key THEN 0 ELSE 65536), F(4, s.pts - s.dts)>>

nitems(c) == IF c.box_flags = 769 THEN 2 ELSE 4

(* Of the data, from the first byte of the moof box.                       *)
offset(c) == (c.trun_pos - c.moof_pos) + 20 + Len(c.samples) * nitems(c) * 4 + 8

write_trun(c) ==
  Counted("trun", <<F(4, c.box_flags), F(4, Len(c.samples)), F(4, offset(c))>>
                    \o FlattenSeq([k \in DOMAIN c.samples |-> entry(c, c.samples[k])]), <<>>)

write_traf(c) ==
  Counted("traf", <<>>, <<write_tfhd, write_tfdt(c), write_trun(c)>>)

write_moof(c) == Counted("moof", <<>>, <<write_mfhd(c), write_traf(c)>>)

(* trun_pos is added what is written before the trun box, box by box.      *)
atMoof(c) ==
  LET pos == write_styp.len + write_sidx(c).len
  IN [c EXCEPT !.trun_pos = @ + pos, !.moof_pos = @ + pos]

atTraf(c) == [c EXCEPT !.trun_pos = @ + 8 + write_mfhd(c).len]
atTrun(c) == [c EXCEPT !.trun_pos = @ + 8 + write_tfhd.len + write_tfdt(c).len]

write_mdat(c) == Stated(Width(c.data) + 8, "mdat", c.data)

withReference(c, moof) == [c EXCEPT !.reference_size = moof.len + 8 + Width(c.data)]

(* The sidx box is written twice: first to know its size.                  *)
segmentGenerator(c) ==
  LET placed == atTrun(atTraf(atMoof(c)))
      moof == write_moof(placed)
      done == withReference(placed, moof)
  IN [file |-> <<write_styp, write_sidx(done), moof, write_mdat(done)>>, context |-> done]

-----------------------------------------------------------------------------
(* The context (i2libdash).                                                *)

video_sample_context_initializer == [box_flags |-> 3841, moof_pos |-> 0, trun_pos |-> 0]
audio_sample_context_initializer == [box_flags |-> 769, moof_pos |-> 0, trun_pos |-> 0]

noSamples == [samples |-> <<>>, data |-> <<>>, earliest |-> 0, sequence |-> 0, current |-> 0]

video_context_initializer == noSamples @@ [width |-> 0] @@ video_sample_context_initializer
audio_context_initializer ==
  noSamples @@ [sample_rate |-> 0, sample_duration |-> 0] @@ audio_sample_context_initializer

generate_context ==
  [reference_size |-> 0]
    @@ IF isAudio THEN audio_context_initializer ELSE video_context_initializer

fill_video_context(c, width) == [c EXCEPT !.width = width]

fill_audio_context(c, rate, samples) ==
  [c EXCEPT !.sample_rate = rate, !.sample_duration = samples]

(* Mutant of context_refresh: the positions are kept.                      *)
keepsPositions(c) == noSamples @@ c

context_refresh(c) == noSamples @@ [c EXCEPT !.moof_pos = 0, !.trun_pos = 0]

(* Nothing is written of a stream whose size is not known.                 *)
new_init_video_handler(metadata, c) ==
  IF metadata = <<>> \/ c.width = 0 THEN <<>> ELSE initVideoGenerator(metadata)

init_audio_handler(metadata) ==
  IF metadata = <<>> THEN <<>> ELSE initAudioGenerator(metadata)

(* A segment begins with an intra frame.  The duration of a sample is only *)
(* known when the next one comes.                                          *)
add_video_sample(c, s) ==
  LET n == Len(c.samples)
      dur == IF n = 0 THEN 0 ELSE s.dts - c.samples[n].dts
      lasts == IF n = 0 THEN <<>> ELSE [c.samples EXCEPT ![n].duration = dur]
  IN IF n = 0 /\ ~s.key THEN c
     ELSE [c EXCEPT !.samples = Append(lasts, s), !.data = @ \o s.data,
                    !.earliest = IF n = 0 THEN s.pts ELSE @,
                    !.sequence = IF n = 0 THEN sequenceNumber' ELSE @,
                    !.current = @ + dur]

add_audio_sample(c, s) ==
  [c EXCEPT !.samples = Append(@, s), !.data = @ \o s.data,
            !.earliest = IF c.samples = <<>> THEN s.pts ELSE @,
            !.sequence = IF c.samples = <<>> THEN sequenceNumber' ELSE @,
            !.current = @ + s.duration]

NoFile(c) == [file |-> <<>>, context |-> c]

written(c) ==
  LET g == segmentGenerator(c)
  IN [file |-> g.file, context |-> context_refresh(g.context)]

(* Mutant of longEnough: the wrong sign.                                   *)
muchLonger(c, last) == SegDur + last <= c.current - last

(* Unsigned: of a pause longer than a segment the difference is huge.      *)
longEnough(c, last) == last <= SegDur /\ SegDur - last <= c.current + last

(* Cut before an intra frame, as near to the duration as can be known.     *)
generate_video_segment(c, nextFrameIsIntra, nextFramePts) ==
  LET n == Len(c.samples)
      last == nextFramePts - c.samples[n].pts
  IN IF n # 0 /\ nextFrameIsIntra /\ longEnough(c, last)
     THEN written([c EXCEPT !.samples[n].duration = last, !.current = @ + last])
     ELSE NoFile(c)

generate_audio_segment(c) ==
  IF SegDur <= c.current THEN written(c) ELSE NoFile(c)

force_generate_audio_segment(c) ==
  IF c.samples = <<>> THEN NoFile(c) ELSE written(c)

-----------------------------------------------------------------------------
(* Frames from NAL units.                                                  *)

NewFrame == [data |-> <<>>, pts |-> 0, dts |-> NO_DTS, width |-> 0]
getFrameTime(f) == IF f.dts # NO_DTS /\ f.dts <= f.pts THEN f.dts ELSE f.pts

NewSegmenter ==
  [tmpFrame |-> NewFrame, vFrame |-> NewFrame, currentIntra |-> FALSE,
   previousIntra |-> FALSE, sets |-> [s \in {"VPS", "SPS", "PPS"} |-> <<>>], extradata |-> <<>>]

needed == IF codec = "AVC" THEN <<"SPS", "PPS">> ELSE <<"VPS", "SPS", "PPS">>

isSet(nal) == nal.type \in ToSet(needed)
isSlice(nal) == nal.type \in {"intra", "inter"}
isKnown(nal) == isSet(nal) \/ isSlice(nal) \/ nal.type \in {"SEI", "AUD"}

(* The parser of H.264 also asks that there is a frame to end.             *)
endsFrame(s, nal) ==
  /\ nal.type = "AUD" \/ getFrameTime(nal) > getFrameTime(s.tmpFrame)
  /\ codec = "AVC" => s.tmpFrame.data # <<>>

appendNalToFrame(f, nal) ==
  [data |-> f.data \o <<F(4, nal.size), Data(nal.size, nal.id)>>,
   pts |-> nal.pts, dts |-> nal.dts, width |-> nal.width]

(* The last one of its kind is kept.                                       *)
saveSet(sets, nal) == [sets EXCEPT ![nal.type] = <<Data(nal.size, nal.id)>>]

(* The buffers are swapped, and the one to fill next keeps its old times.  *)
parseNal(s, nal) ==
  LET seen == [s EXCEPT !.previousIntra = s.currentIntra,
                 !.currentIntra = IF nal.type = "AUD" THEN @ ELSE nal.type = "intra",
                 !.sets = IF isSet(nal) THEN saveSet(@, nal) ELSE @]
      ended == IF endsFrame(s, nal)
               THEN [seen EXCEPT !.vFrame = s.tmpFrame, !.tmpFrame = [s.vFrame EXCEPT !.data = <<>>]]
               ELSE seen
  IN CASE ~isKnown(nal) -> [s EXCEPT !.previousIntra = s.currentIntra]
       [] isSlice(nal)  -> [ended EXCEPT !.tmpFrame = appendNalToFrame(@, nal)]
       [] OTHER         -> ended

(* The frame that this NAL unit ends, without data if there is none.       *)
frameOf(s, nal) == IF isKnown(nal) /\ endsFrame(s, nal) THEN s.tmpFrame ELSE NewFrame

(* Arrays of parameter sets, behind a header of constants.                 *)
array(set) == <<F(2, Width(set))>> \o set

avcExtradata(sets) ==
  <<F(1, 1), F(3, 0), F(1, 252 + 3), F(1, 224 + 1)>> \o array(sets["SPS"])
    \o <<F(1, 1)>> \o array(sets["PPS"])

hevcExtradata(sets) ==
  <<F(1, 1), F(1, 1), F(1, 96), F(3, 0), F(1, 144), F(5, 0), F(1, 93), F(2, 0), F(1, 0),
    F(1, 0), F(1, 0), F(1, 0), F(2, 0), F(1, 12 + 3), F(1, 3), F(1, 32), F(2, 1)>>
    \o array(sets["VPS"]) \o <<F(1, 33), F(2, 1)>> \o array(sets["SPS"])
    \o <<F(1, 34), F(2, 1)>> \o array(sets["PPS"])

createExtradata(sets) == IF codec = "AVC" THEN avcExtradata(sets) ELSE hevcExtradata(sets)

complete(sets) == \A k \in DOMAIN needed : sets[needed[k]] # <<>>

updateExtradata(s) ==
  IF complete(s.sets)
  THEN [s EXCEPT !.extradata = createExtradata(s.sets), !.sets = NewSegmenter.sets] ELSE s

-----------------------------------------------------------------------------
(* The dasher.                                                             *)

(* Set by the first frame, and again as long as it is zero.                *)
newOffset(t) == IF tsOffset = 0 THEN t ELSE tsOffset

microsToTimeBase(t) == ((t - tsOffset') * TimeBase) \div Den

sampleOf(f, key) ==
  [data |-> f.data, size |-> Width(f.data), pts |-> microsToTimeBase(f.pts),
   dts |-> microsToTimeBase(f.dts), key |-> key, duration |-> 0]

(* What is made of g: its file is kept until the next one.                 *)
generateSegment(g) ==
  IF g.file = <<>> THEN UNCHANGED <<file, sequenceNumber, shown>>
  ELSE /\ file' = g.file /\ sequenceNumber' = sequenceNumber + 1
       /\ shown' = shown + Len(context.samples)

(* The init segment is written again whenever there is extradata, which is *)
(* then forgotten.                                                         *)
videoInitSegment(s, c) == new_init_video_handler(s.extradata, c)
audioInitSegment(s) == init_audio_handler(s.extradata)

generateInitSegment(s, boxes) ==
  /\ init' = IF boxes = <<>> THEN init ELSE boxes
  /\ segmenter' = IF boxes = <<>> THEN s ELSE [s EXCEPT !.extradata = <<>>]

customGenerateVideo(c, s, nextFrameTs) ==
  generate_video_segment(c, s.previousIntra, microsToTimeBase(nextFrameTs))

customGenerateAudio(c, force) ==
  IF force THEN force_generate_audio_segment(c) ELSE generate_audio_segment(c)

(* A NAL unit, and the frame that it ends, if any.                         *)
keepNal(s) == segmenter' = s /\ UNCHANGED <<init, file, sequenceNumber, shown, context>>

(* setup: the context knows the size of the frame.                         *)
appendFrame(s, f) ==
  LET c == fill_video_context(context, f.width)
      g == customGenerateVideo(c, s, f.pts)
  IN /\ generateInitSegment(s, videoInitSegment(s, c))
     /\ generateSegment(g)
     /\ context' = add_video_sample(g.context, sampleOf(f, s.previousIntra))

processVideo ==
  /\ nals # <<>> /\ ~isAudio /\ nals' = Tail(nals)
  /\ tsOffset' = newOffset(getFrameTime(Head(nals)))
  /\ LET s == updateExtradata(parseNal(segmenter, Head(nals)))
         f == frameOf(segmenter, Head(nals))
     IN IF f.data = <<>> THEN keepNal(s) ELSE appendFrame(s, f)
  /\ UNCHANGED streamVars

(* Of audio the extradata is made of bits of two bytes of the header of    *)
(* the frame, which is left out of the sample.                             *)
getProfileFromADTSHeader(header) == header[1] \div 64
getSamplingFreqIdxFromADTSHeader(header) == (header[1] \div 4) % 16

(* The bits of two places, one or the other: of more than 3 channels the   *)
(* higher bit is taken for the lowest one.                                 *)
getChannelConfFromADTSHeader(header) ==
  LET low == header[2] \div 64
  IN IF header[1] % 2 = 1 /\ low % 2 = 0 THEN low + 1 ELSE low

getExtradata1stByte(audioObjectType, frequency) == audioObjectType * 8 + frequency \div 2
getExtradata2ndByte(frequency, channels) == (frequency % 2) * 128 + channels * 8

extradataOf(header) ==
  LET frequency == getSamplingFreqIdxFromADTSHeader(header)
  IN <<F(1, getExtradata1stByte(getProfileFromADTSHeader(header) + 1, frequency)),
       F(1, getExtradata2ndByte(frequency, getChannelConfFromADTSHeader(header)))>>

audioSampleOf(adts) ==
  LET raw == adts.size - ADTS_HEADER_LENGTH  t == microsToTimeBase(adts.pts)
  IN [data |-> <<Data(raw, adts.id)>>, size |-> raw, pts |-> t, dts |-> t, key |-> TRUE,
      duration |-> adts.samples]

(* Besides video, segments are cut when those of video are.                *)
processAudio ==
  /\ nals # <<>> /\ isAudio /\ nals' = Tail(nals)
  /\ tsOffset' = newOffset(getFrameTime(Head(nals)))
  /\ LET adts == Head(nals)
         s == [segmenter EXCEPT !.extradata = extradataOf(adts.header)]
         c == fill_audio_context(context, TimeBase, adts.samples)
         g == IF style.hasVideo THEN NoFile(c) ELSE customGenerateAudio(c, FALSE)
     IN /\ generateInitSegment(s, audioInitSegment(s))
        /\ generateSegment(g)
        /\ context' = add_audio_sample(g.context, audioSampleOf(adts))
  /\ UNCHANGED streamVars

forceAudio ==
  /\ isAudio /\ style.hasVideo /\ nals = <<>>
  /\ LET g == customGenerateAudio(context, TRUE)
     IN generateSegment(g) /\ context' = g.context
  /\ UNCHANGED <<streamVars, nals, segmenter, tsOffset, init>>

-----------------------------------------------------------------------------
(* The stream.                                                             *)

Unit(type, size, k, t) ==
  [type |-> type, size |-> size, id |-> <<units + 1, k>>, pts |-> t,
   dts |-> IF Encoded THEN t ELSE NO_DTS, width |-> IF Encoded THEN 1 ELSE 0]

slices(intra, t) ==
  [k \in 1 .. style.slices |-> IF intra THEN Unit("intra", 6, k, t) ELSE Unit("inter", 2 + k, k, t)]

(* Parameter sets, all of the same version, go before each intra frame.    *)
heading(intra, version, t) ==
  IF ~intra THEN <<>>
  ELSE [k \in DOMAIN needed |-> [Unit(needed[k], 4 + k, k, t) EXCEPT !.id = <<version, k>>]]
         \o <<Unit("SEI", 2, 0, t)>>

If(b, seq) == IF b THEN seq ELSE <<>>

lengths(units_) == FlattenSeq([k \in DOMAIN units_ |->
                     <<F(4, units_[k].size), Data(units_[k].size, units_[k].id)>>])

Sent(f) == sent' = IF f.key \/ sent # <<>> THEN Append(sent, f) ELSE sent

video(intra, gap, anew) ==
  LET t == time + gap
      version == IF intra /\ (anew \/ params = 0) THEN units + 1 ELSE params
  IN /\ ~isAudio /\ nals = <<>> /\ units < MaxUnits /\ units' = units + 1
     /\ time' = t /\ params' = version
     /\ nals' = If(style.aud, <<Unit("AUD", 1, 0, t)>>) \o heading(intra, version, t)
                  \o slices(intra, t) \o If(style.filler, <<Unit("filler", 3, 0, t)>>)
     /\ Sent([data |-> lengths(slices(intra, t)), pts |-> t, key |-> intra, params |-> version])
     /\ UNCHANGED <<codec, style, segmenter, tsOffset, sequenceNumber, context, init, file, shown>>

(* The configuration of audio of each version, and the bytes of a header   *)
(* of ADTS that hold it: profile, sampling frequency and channels.         *)
configuration(version) ==
  [profile |-> 1, frequency |-> 3 + (version % 2), channels |-> 1 + (version % MaxChannels)]

headerOf(c) == <<c.profile * 64 + c.frequency * 4 + c.channels \div 4, (c.channels % 4) * 64>>

(* Frames of audio are evenly spaced, but for the rounding of their times. *)
audio(anew) ==
  LET t == 1 + (units * SampleDur * Den) \div TimeBase
      version == IF anew \/ params = 0 THEN units + 1 ELSE params
      raw == 2 + (units % 2)
  IN /\ isAudio /\ nals = <<>> /\ units < MaxUnits /\ units' = units + 1
     /\ time' = t /\ params' = version
     /\ nals' = <<[type |-> "AAC", size |-> ADTS_HEADER_LENGTH + raw, id |-> <<units + 1>>,
                   pts |-> t, dts |-> NO_DTS, samples |-> SampleDur,
                   header |-> headerOf(configuration(version))]>>
     /\ Sent([data |-> <<Data(raw, <<units + 1>>)>>, pts |-> t, key |-> TRUE, params |-> version])
     /\ UNCHANGED <<codec, style, segmenter, tsOffset, sequenceNumber, context, init, file, shown>>

Init ==
  /\ codec \in Codecs
  /\ style \in [aud : BOOLEAN, slices : {1, 2}, filler : BOOLEAN, hasVideo : BOOLEAN]
  /\ style.hasVideo => isAudio
  /\ isAudio => ~style.aud /\ ~style.filler /\ style.slices = 1
  /\ time = 0 /\ nals = <<>> /\ segmenter = NewSegmenter /\ tsOffset = 0 /\ sequenceNumber = 0
  /\ context = generate_context /\ init = <<>> /\ file = <<>>
  /\ sent = <<>> /\ params = 0 /\ units = 0 /\ shown = 0

Next ==
  \/ processVideo \/ processAudio \/ forceAudio
  \/ \E intra, anew \in BOOLEAN, gap \in Gaps : video(intra, gap, anew)
  \/ \E anew \in BOOLEAN : audio(anew)

Spec == Init /\ [][Next]_vars

-----------------------------------------------------------------------------
(* A player, by the ISO base media file format.                            *)

(* Lengths of the fields of boxes, those not listed vary.                  *)
Standard ==
  [ftyp |-> 20, styp |-> 20, mvhd |-> 100, trex |-> 24, tkhd |-> 84, mdhd |-> 24, vmhd |-> 12,
   smhd |-> 8, dref |-> 8, stsd |-> 8, avc1 |-> 78, hev1 |-> 78, mp4a |-> 28, stts |-> 8,
   stsc |-> 8, stsz |-> 12, stco |-> 8, sidx |-> 44, mfhd |-> 8, tfhd |-> 8, tfdt |-> 12]

RECURSIVE WellFormed(_)
WellFormed(boxes) ==
  \A k \in DOMAIN boxes :
    /\ boxes[k].size = boxes[k].len
    /\ boxes[k].type \in DOMAIN Standard => Width(boxes[k].fields) = Standard[boxes[k].type]
    /\ WellFormed(boxes[k].boxes)

(* The box at a path of types, and where a box of a file begins.           *)
boxAt(boxes, path) ==
  FoldLeft(LAMBDA b, type : SelectSeq(b.boxes, LAMBDA c : c.type = type)[1],
           [boxes |-> boxes], path)
startOf(boxes, type) ==
  LET k == CHOOSE j \in DOMAIN boxes : boxes[j].type = type
  IN Length(SubSeq(boxes, 1, k - 1))

(* The fields that make up n bytes, and the number they hold.              *)
bytes(fields, from, n) ==
  LET end == [k \in 0 .. Len(fields) |-> Width(SubSeq(fields, 1, k))]
      first == {k \in DOMAIN end : end[k] = from}
      last == {k \in DOMAIN end : end[k] = from + n}
  IN IF first = {} \/ last = {} THEN <<>>
     ELSE SubSeq(fields, 1 + CHOOSE k \in first : TRUE, CHOOSE k \in last : TRUE)

number(box, from, n) ==
  LET fs == bytes(box.fields, from, n) IN IF Len(fs) = 1 THEN fs[1].n ELSE 0 - 1

play(boxes) ==
  LET moof(type) == boxAt(boxes, <<"moof", "traf", type>>)
      trun == moof("trun")
      each == IF number(trun, 0, 4) = 3841 THEN 16 ELSE 8
      item(k, j) == number(trun, 12 + (k - 1) * each + 4 * j, 4)
      upTo(k, j) == FoldLeft(LAMBDA sum, l : sum + item(l, j), 0, [l \in 1 .. k - 1 |-> l])
      from == startOf(boxes, "moof") + number(trun, 8, 4) - startOf(boxes, "mdat") - 8
  IN [k \in 1 .. number(trun, 4, 4) |->
       [data |-> bytes(boxAt(boxes, <<"mdat">>).fields, from + upTo(k, 1), item(k, 1)),
        time |-> number(moof("tfdt"), 4, 8) + upTo(k, 0) + IF each = 16 THEN item(k, 3) ELSE 0,
        key  |-> each = 8 \/ item(k, 2) = 0]]

(* The decoder configuration: parameter sets without the header that says  *)
(* their length, or the bits of an AudioSpecificConfig.                    *)
configOf(boxes) ==
  LET box == boxAt(boxes, <<"moov", "trak", "mdia", "minf", "stbl", "stsd">>).boxes[1].boxes[1]
      byte1 == number(box, 26, 1)
      byte2 == number(box, 27, 1)
  IN IF isAudio
     THEN [profile |-> byte1 \div 8 - 1, frequency |-> 2 * (byte1 % 8) + byte2 \div 128,
           channels |-> (byte2 % 128) \div 8]
     ELSE SelectSeq(box.fields, LAMBDA f : f.d # <<>>)

ticks(t) == ((t - tsOffset) * TimeBase) \div Den
Near(a, b) == IF isAudio THEN a - b \in {0 - 1, 0, 1} ELSE a = b

-----------------------------------------------------------------------------
(* A player of the last segment gets the frames that follow those of the   *)
(* segments before, whole, in order, at their times (of audio, but for the *)
(* rounding) and with the intra frames marked; and none is lost between    *)
(* the segments.                                                           *)
Playable ==
  /\ nals = <<>> => shown + Len(context.samples) >= Len(sent) - 1
  /\ file # <<>> =>
       LET p == play(file) IN
       /\ WellFormed(file) /\ p # <<>> /\ p[1].key
       /\ \A k \in DOMAIN p :
            LET f == sent[shown - Len(p) + k] IN
            p[k].data = f.data /\ p[k].key = f.key /\ Near(p[k].time, ticks(f.pts))

(* The index of a segment says how much a client has to read, how long it  *)
(* plays, up to where the next one begins, and its number.                 *)
Indexed ==
  file # <<>> =>
    LET sidx == boxAt(file, <<"sidx">>)
        until == number(sidx, 12, 8) + number(sidx, 36, 4)
    IN /\ number(sidx, 32, 4) = boxAt(file, <<"moof">>).len + boxAt(file, <<"mdat">>).len
       /\ number(boxAt(file, <<"moof", "mfhd">>), 4, 4) = sequenceNumber - 1
       /\ context.samples # <<>> => Near(until, context.samples[1].pts)

(* The init segment describes the last frame that was added: the one of    *)
(* new parameter sets is written before the first frame that needs it.     *)
InitCurrent ==
  context.samples # <<>> =>
    LET last == sent[shown + Len(context.samples)] IN
    /\ WellFormed(init)
    /\ configOf(init) = IF isAudio THEN configuration(last.params)
                        ELSE [k \in DOMAIN needed |-> Data(4 + k, <<last.params, k>>)]

(* A segment is cut at the first intra frame after its duration.           *)
CutInTime ==
  \A k \in 2 .. Len(context.samples) :
    context.samples[k].key /\ ~isAudio =>
      context.samples[k].pts - context.samples[1].pts < SegDur

(* A player that is given the init segment and the segments one after the  *)
(* other plays the stream that was sent.                                   *)
PlayedBack == Playable /\ Indexed /\ InitCurrent
=============================================================================
