------------------------------ MODULE MCMedia -------------------------------
(***************************************************************************)
(* The filters that carry media, under TLC in one run: which model takes   *)
(* steps is chosen in the initial state, and the others stay in theirs.    *)
(* Every behaviour is a behaviour of the chosen model.  None of these has  *)
(* a liveness property.                                                    *)
(***************************************************************************)
EXTENDS AudioCircularBuffer, MediaConverters, VideoEncoderX264or5

VARIABLES
  part,                    \* the model that runs
  mFront, mRear, syncTs, mixBuffers, gains, masterGain, mNext, mFrames, epoch, base,
  due, out, mEvents,  \* AudioMixer
  delimited, sRear, sFront, slots, sInputFrame, ws, rs, made, dropped, numbered, access,
  header, buffer, frameData, newFrame, seqNum, rd, copy, sRead,  \* SharedMemory
  cropsConfig, dstFrames, channelsConfig, size, wOut, hidden, wQueue, last, orgFrames,
  wFrames, wEvents         \* VideoWall

Mixer == INSTANCE AudioMixer
  WITH Channels <- {1, 2}, R <- 3, T <- 4, inputFrameSamples <- 2, Modulus <- 4096,
       Starts <- {3, 4}, Gaps <- {0, 9}, MaxFrames <- 5, MaxEvents <- 1, next <- mNext,
       rear <- mRear, front <- mFront, frames <- mFrames, events <- mEvents

Memory == INSTANCE SharedMemory
  WITH Size <- 4, Slices <- {1, 2}, MaxPictures <- 3, rear <- sRear, front <- sFront,
       inputFrame <- sInputFrame, read <- sRead

rect(x, y, width, height) == [x |-> x, y |-> y, width |-> width, height |-> height]
channel(where, layer, enabled, opaque) ==
  [place |-> where, layer |-> layer, enabled |-> enabled, opaque |-> opaque]

Wall == INSTANCE VideoWall
  WITH Writers <- {1, 2}, Readers <- {1, 2}, maxChannels <- 2, Unit <- 2,
       Crops <- {rect(0, 0, 2, 1), rect(2, 0, 2, 2)},
       Configs <- {channel(rect(0, 0, 1, 2), 0, TRUE, TRUE),
                   channel(rect(1, 0, 1, 2), 1, TRUE, TRUE),
                   channel(rect(1, 1, 2, 1), 0, TRUE, FALSE),
                   channel(rect(0, 0, 2, 2), 2, TRUE, TRUE)},
       Sizes <- {<<4, 2>>, <<2, 2>>}, Origins <- {<<4, 2>>, <<2, 2>>}, Capacity <- 1,
       MaxFrames <- 2, MaxEvents <- 6, out <- wOut, queue <- wQueue, frames <- wFrames,
       events <- wEvents

picture(format, damaged, codec, width) ==
  [codec |-> codec, size |-> <<width, 1>>, format |-> format, damaged |-> damaged]

MCPictures ==
  {picture("YUV420P", FALSE, "H264", 1), picture("YUV420P", FALSE, "H264", 2),
   picture("NV12", FALSE, "H264", 1), picture("YUVJ420P", FALSE, "VP8", 1),
   picture("YUV420P", TRUE, "VP8", 1), picture("YUV420P", FALSE, "RAW", 2)}

MCResamplerParams ==
  {[width |-> 0], [width |-> 2, height |-> 1], [pixelFormat |-> "P_NONE"],
   [pixelFormat |-> "RGB24"], [pixelFormat |-> "YUVJ420P"]}

packet(codec, channels, rate, format, damaged) ==
  [codec |-> codec, channels |-> channels, rate |-> rate, format |-> format,
   damaged |-> damaged]

MCSamples ==
  {packet("AAC", 2, 48000, "FLTP", FALSE), packet("AAC", 2, 44100, "FLTP", FALSE),
   packet("PCMU", 1, 8000, "S16", FALSE), packet("AAC", 2, 48000, "FLTP", TRUE),
   packet("PCM", 2, 48000, "S16", FALSE)}

MCDecoderParams == {[format |-> "S16", channels |-> 2, rate |-> 48000]}

MCSupports == {context(codec, 2, 48000) : codec \in {"AAC", "PCM", "OPUS"}}

MCEncoderParams == MCSupports \cup {context("OPUS", 2, 44100), [rate |-> 44100]}

MCFrameSize(c) == IF c = "AAC" THEN 1024 ELSE IF c = "OPUS" THEN 960 ELSE 0

ASSUME BufferAssumption /\ VideoAssumption /\ AudioAssumption /\ VideoEncoderAssumption

mixerVars == <<mFront, mRear, syncTs, mixBuffers, gains, masterGain, mNext, mFrames,
               epoch, base, due, out, mEvents>>
memoryVars == <<delimited, sRear, sFront, slots, sInputFrame, ws, rs, made, dropped,
                numbered, access, header, buffer, frameData, newFrame, seqNum, rd, copy,
                sRead>>
wallVars == <<cropsConfig, dstFrames, channelsConfig, size, wOut, hidden, wQueue, last,
              orgFrames, wFrames, wEvents>>

mediaVars == <<part, bufferVars, mixerVars, videoEncoderVars, memoryVars, wallVars,
               videoVars, audioVars>>

(* The models that do not run stay in one of their initial states.         *)
MediaInit ==
  /\ part \in {"buffer", "mixer", "encoder", "memory", "wall", "converter", "transcoder"}
  /\ BufferInit
  /\ Mixer!Init /\ (part = "mixer" \/ \A c \in DOMAIN mNext : mNext[c] = 3)
  /\ VideoEncoderInit /\ (part = "encoder" \/ gopTime = 0)
  /\ Memory!Init /\ (part = "memory" \/ (delimited /\ numbered = "units"))
  /\ Wall!Init /\ (part = "wall" \/ size = <<4, 2>>)
  /\ ConvertersInit /\ (part = "converter" \/ outPixFmt = "RGB24")

Only(model) ==
  /\ part = model /\ UNCHANGED part
  /\ model = "buffer" \/ UNCHANGED bufferVars
  /\ model = "mixer" \/ UNCHANGED mixerVars
  /\ model = "encoder" \/ UNCHANGED videoEncoderVars
  /\ model = "memory" \/ UNCHANGED memoryVars
  /\ model = "wall" \/ UNCHANGED wallVars
  /\ model = "converter" \/ UNCHANGED videoVars
  /\ model = "transcoder" \/ UNCHANGED audioVars

MediaNext ==
  \/ Only("buffer") /\ BufferNext
  \/ Only("mixer") /\ Mixer!Next
  \/ Only("encoder") /\ VideoEncoderNext
  \/ Only("memory") /\ Memory!Next
  \/ Only("wall") /\ Wall!Next
  \/ Only("converter") /\ VideoNext
  \/ Only("transcoder") /\ AudioNext

MediaSpec == MediaInit /\ [][MediaNext]_mediaVars
-----------------------------------------------------------------------------
(* AudioMixer: each sample is mixed once, at its time.                     *)
MixedOnce == Mixer!MixedOnce

(* SharedMemory: another process reads whole pictures, in order.           *)
ReadsFrames == Memory!ReadsFrames

(* VideoSplitter and VideoMixer: a wall shows what is asked for.           *)
WallShown == Wall!WallShown
=============================================================================
