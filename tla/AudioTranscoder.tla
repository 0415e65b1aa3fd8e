--------------------------- MODULE AudioTranscoder ---------------------------
(***************************************************************************)
(* An audio decoder and the encoder behind it: streams change, events set  *)
(* what the one and the other put out, and they are connected and          *)
(* disconnected, in any order.  The samples in the queue between them are  *)
(* in AudioCircularBuffer.                                                 *)
(***************************************************************************)
EXTENDS Integers, TLC

CONSTANTS
  CodedSamples,     \* coded frames: [codec, channels, rate, format, damaged]
  DecoderParams,    \* what events ask the decoder to put out
  EncoderParams,    \* of events for the encoder
  Supports,         \* the codecs, channels and rates that the library can open
  FrameSize(_)      \* samples in a frame of a codec, 0 for as many as one likes

AudioAssumption == \A codec \in Supports : codec.codec # "AC_NONE"

-----------------------------------------------------------------------------
(* What the decoder and the encoder of audio use of libswresample.  A      *)
(* context keeps the conversion that it was set to and the one that it was *)
(* initialised for: setting it again changes the first one only, and it    *)
(* goes on converting as it was initialised.                               *)

Unset == [format |-> "S_NONE", channels |-> 0, rate |-> 0]

(* swr_alloc_set_opts on nothing; nothing is initialised.                  *)
NoResampler == [set |-> <<Unset, Unset>>, made |-> <<Unset, Unset>>]

swr_is_initialized(ctx) == ctx.made # <<Unset, Unset>>

valid(params) == params.format # "S_NONE" /\ params.channels > 0 /\ params.rate > 0

(* swr_alloc_set_opts, and swr_init if it is not initialised, which fails  *)
(* when something is not known.                                            *)
resampler(ctx, from, to) ==
  [set |-> <<from, to>>,
   made |-> IF ~swr_is_initialized(ctx) /\ valid(from) /\ valid(to) THEN <<from, to>>
            ELSE ctx.made]

-----------------------------------------------------------------------------
(* The filter that decodes audio (AudioDecoderLibav.cpp).  Its context of  *)
(* the library is made for the codec, the channels and the rate of a frame *)
(* that is not like the one before, its resampler when the library gives   *)
(* samples of another format; events set what it puts out.                 *)
(*                                                                         *)
(* A coded frame has a codec, the channels and the rate that its stream    *)
(* says, the format of its samples, and may be damaged.  The library gives *)
(* an error for a damaged frame and when it is not open; of others it      *)
(* gives samples, or nothing if it wants more.                             *)

VARIABLES
  fCodec, inChannels, inSampleRate,   \* of the last frame
  inSampleFmt,                        \* that the library gave last
  codecCtx,     \* the codec, channels and rate it is open for, Closed, or NoCodec
  inResampler,
  outParams,    \* format, channels and rate that it puts out
  decoded       \* the last samples put out: the frame, and the context that decoded it

decoderVars == <<fCodec, inChannels, inSampleRate, inSampleFmt, codecCtx, inResampler,
                 outParams, decoded>>

context(codec, channels, rate) == [codec |-> codec, channels |-> channels, rate |-> rate]
NoCodec == context("AC_NONE", 0, 0)
Closed == context("AC_NONE", 1, 0)
NoSamples == [of |-> NoCodec, by |-> NoCodec]

DecoderInit ==
  /\ fCodec = "AC_NONE" /\ inChannels = 0 /\ inSampleRate = 0 /\ inSampleFmt = "S_NONE"
  /\ codecCtx = NoCodec /\ inResampler = NoResampler /\ decoded = NoSamples
  /\ outParams = [format |-> "FLTP", channels |-> 2, rate |-> 48000]

inParams(format) == [format |-> format, channels |-> inChannels, rate |-> inSampleRate]

(* configure0 with outputConfig: the resampler is set once a frame came.   *)
configureDecoder(params) ==
  /\ outParams' = params
  /\ inResampler' = IF inChannels = 0 /\ inSampleRate = 0 THEN inResampler
                    ELSE resampler(inResampler, inParams(inSampleFmt), params)
  /\ UNCHANGED <<fCodec, inChannels, inSampleRate, inSampleFmt, codecCtx, decoded>>

DecodableAudio == {"PCMU", "OPUS", "AAC", "MP3"}
of(org) == context(org.codec, org.channels, org.rate)
sameAsLast(org) == of(org) = context(fCodec, inChannels, inSampleRate)

(* A frame is remembered before a context is made for it, and one like it  *)
(* is not tried again.                                                     *)
reconfigureDecoder(org, opens) ==
  /\ fCodec' = org.codec /\ inChannels' = org.channels /\ inSampleRate' = org.rate
  /\ codecCtx' = IF sameAsLast(org) \/ org.codec \notin DecodableAudio THEN codecCtx
                 ELSE IF opens THEN of(org) ELSE Closed

(* checkSampleFormat and inputConfig: only another format sets it again.   *)
checkSampleFormat(org) ==
  /\ inSampleFmt' = org.format
  /\ inResampler' =
       IF org.format = inSampleFmt THEN inResampler
       ELSE resampler(inResampler,
                      [format |-> org.format, channels |-> org.channels, rate |-> org.rate],
                      outParams)

(* One that is refused, damaged, or that nothing is open for; there is no  *)
(* decoding without a context, the program would end.                      *)
decodingFails(org, opens) ==
  /\ sameAsLast(org) => codecCtx # NoCodec
  /\ reconfigureDecoder(org, opens)
  /\ \/ org.damaged \/ codecCtx' = Closed
     \/ ~sameAsLast(org) /\ org.codec \notin DecodableAudio
  /\ UNCHANGED <<inSampleFmt, inResampler, outParams, decoded>>

decodable(org) ==
  /\ reconfigureDecoder(org, TRUE)
  /\ ~org.damaged /\ codecCtx' \notin {Closed, NoCodec}
  /\ sameAsLast(org) \/ org.codec \in DecodableAudio

(* A frame of which the library gives nothing is put out all the same,     *)
(* with the samples that are in its place from before.                     *)
wantsMore(org) ==
  /\ decodable(org)
  /\ UNCHANGED <<inSampleFmt, inResampler, outParams, decoded>>

decodedTo(org) ==
  /\ decodable(org) /\ checkSampleFormat(org)
  /\ decoded' = IF swr_is_initialized(inResampler') THEN [of |-> of(org), by |-> codecCtx']
                ELSE decoded
  /\ UNCHANGED outParams

-----------------------------------------------------------------------------
(* The filter that encodes audio (AudioEncoderLibav.cpp).  An event sets   *)
(* its codec once; it takes no reader before that succeeded and no writer  *)
(* before it was tried.  Its resampler is set when a frame is not like the *)
(* one before.                                                             *)

VARIABLES
  outputStreamInfo,   \* codec, channels and rate, as queues are told
  encoderCtx,         \* those the context is open for, or NoEncoder
  samplesPerFrame,
  input,              \* format, channels and rate of the last frame
  outResampler,
  inLine,             \* the samples per frame that the queue of the reader gives, 0 for none
  outLine,            \* what the queue of the writer was made for, or NoEncoder
  coded               \* the last frame put out: what its queue says, and its context

encoderVars == <<outputStreamInfo, encoderCtx, samplesPerFrame, input, outResampler,
                 inLine, outLine, coded>>

NoEncoder == [codec |-> "AC_NONE", channels |-> 0, rate |-> 0]
NotCoded == [label |-> NoEncoder, by |-> NoEncoder, samples |-> 0, room |-> 0]

EncoderInit ==
  /\ outputStreamInfo = NoEncoder /\ encoderCtx = NoEncoder /\ samplesPerFrame = 0
  /\ input = Unset /\ outResampler = NoResampler /\ inLine = 0
  /\ outLine = NoEncoder /\ coded = NotCoded

internalFormat == IF outputStreamInfo.codec = "MP3" THEN "S16P" ELSE "S16"

getDefaultSamples(rate) == (20000 * rate) \div 1000000

(* codingConfig: what the library does not open leaves the stream info set *)
(* and no samples per frame.                                               *)
codingConfig(info) ==
  IF info \in Supports
  THEN /\ encoderCtx' = info
       /\ samplesPerFrame' = IF FrameSize(info.codec) # 0 THEN FrameSize(info.codec)
                             ELSE getDefaultSamples(input.rate)
  ELSE UNCHANGED <<encoderCtx, samplesPerFrame>>

(* Mutant of unconfigured: one that failed is tried again. *)
unopened == samplesPerFrame = 0

(* configEvent, configure0: once a codec was asked for no other is taken,  *)
(* also when that failed.                                                  *)
unconfigured == outputStreamInfo.codec = "AC_NONE"

configureEncoder(params) ==
  /\ unconfigured
  /\ outputStreamInfo' = params @@ outputStreamInfo
  /\ codingConfig(outputStreamInfo')
  /\ UNCHANGED <<input, outResampler, inLine, outLine, coded>>

(* The queue has to give frames of the size of the codec.                  *)
specificReaderConfig ==
  /\ inLine = 0 /\ samplesPerFrame # 0
  /\ inLine' = samplesPerFrame
  /\ UNCHANGED <<outputStreamInfo, encoderCtx, samplesPerFrame, input, outResampler,
                 outLine, coded>>

(* A queue is not made without a codec.                                    *)
allocQueue ==
  /\ outLine = NoEncoder /\ outputStreamInfo.codec # "AC_NONE"
  /\ outLine' = outputStreamInfo
  /\ UNCHANGED <<outputStreamInfo, encoderCtx, samplesPerFrame, input, outResampler,
                 inLine, coded>>

disconnectReader ==
  /\ inLine # 0 /\ inLine' = 0
  /\ UNCHANGED <<outputStreamInfo, encoderCtx, samplesPerFrame, input, outResampler,
                 outLine, coded>>

disconnectWriter ==
  /\ outLine # NoEncoder /\ outLine' = NoEncoder
  /\ UNCHANGED <<outputStreamInfo, encoderCtx, samplesPerFrame, input, outResampler,
                 inLine, coded>>

(* reconfigure and resamplingConfig: what came is remembered before the    *)
(* resampler is set to it.                                                 *)
reconfigureEncoder(frame) ==
  /\ input' = frame
  /\ outResampler' =
       IF input = frame THEN outResampler
       ELSE resampler(outResampler, frame,
                      [format |-> internalFormat, channels |-> outputStreamInfo.channels,
                       rate |-> outputStreamInfo.rate])

(* The library codes samplesPerFrame samples, and may want more first.     *)
encode(frame, gotFrame) ==
  /\ inLine # 0 /\ outLine # NoEncoder
  /\ reconfigureEncoder(frame)
  /\ coded' = IF gotFrame /\ swr_is_initialized(outResampler')
              THEN [label |-> outLine, by |-> encoderCtx,
                    samples |-> inLine, room |-> samplesPerFrame]
              ELSE coded
  /\ UNCHANGED <<outputStreamInfo, encoderCtx, samplesPerFrame, inLine, outLine>>

-----------------------------------------------------------------------------
(* The two together.                                                     *)
VARIABLE line      \* format, channels and rate of the queue between them, or Unset

audioVars == <<decoderVars, encoderVars, line>>

AudioInit == DecoderInit /\ EncoderInit /\ line = Unset

ConfigureDecoder ==
  /\ \E params \in DecoderParams : configureDecoder(params)
  /\ UNCHANGED <<encoderVars, line>>

ConfigureEncoder ==
  /\ \E params \in EncoderParams : configureEncoder(params)
  /\ UNCHANGED <<decoderVars, line>>

(* The queue is made for what the decoder puts out at that time.           *)
Connect ==
  /\ specificReaderConfig /\ line' = outParams
  /\ UNCHANGED decoderVars

ConnectNext == allocQueue /\ UNCHANGED <<decoderVars, line>>

Disconnect ==
  /\ disconnectReader /\ line' = Unset
  /\ UNCHANGED decoderVars

DisconnectNext == disconnectWriter /\ UNCHANGED <<decoderVars, line>>

DecodeFrame ==
  /\ line # Unset
  /\ \E org \in CodedSamples :
       \/ \E opens \in BOOLEAN : decodingFails(org, opens)
       \/ wantsMore(org) \/ decodedTo(org)
  /\ UNCHANGED <<encoderVars, line>>

EncodeFrame ==
  /\ \E gotFrame \in BOOLEAN : encode(line, gotFrame)
  /\ UNCHANGED <<decoderVars, line>>

AudioNext ==
  \/ ConfigureDecoder \/ ConfigureEncoder
  \/ Connect \/ ConnectNext \/ Disconnect \/ DisconnectNext
  \/ DecodeFrame \/ EncodeFrame

AudioSpec == AudioInit /\ [][AudioNext]_audioVars

------------------------------------------------------------------------------
(* reconfigureDecoder, configure0, specificReaderConfig, allocQueue: what  *)
(* is decoded was decoded by a context for its own stream, if the decoder  *)
(* takes its codec at all; what is coded was coded by a context for the    *)
(* codec, channels and rate that the queue behind it says, and in frames   *)
(* of the size that the codec takes.                                       *)
SamplesAsLabelled ==
  /\ decoded.of.codec \in DecodableAudio => decoded.by = decoded.of
  /\ coded.by = coded.label /\ coded.samples = coded.room
==============================================================================
