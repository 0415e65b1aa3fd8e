--------------------------- MODULE VideoConverter ---------------------------
(***************************************************************************)
(* A video decoder and the resampler behind it: pictures of one stream     *)
(* after the other change their codec, size and pixel format while events  *)
(* change what is put out, and frames of before a change wait in the queue *)
(* between the two.                                                        *)
(***************************************************************************)
EXTENDS Sequences, Naturals, TLC

CONSTANTS
  CodedPictures,    \* coded frames: [codec, size, format, damaged]
  ResamplerParams,  \* of events
  MaxWaiting        \* bound: pictures in the queue

VideoAssumption ==
  /\ CodedPictures \subseteq [codec : STRING, size : Nat \X Nat, format : STRING,
                             damaged : BOOLEAN]
  /\ MaxWaiting \in Nat

-----------------------------------------------------------------------------
(* The filter that decodes pictures (VideoDecoderLibav.cpp).  Its context  *)
(* of the library is made for the codec of a frame when that is another    *)
(* than the one before, and made again after a frame it could not decode.  *)
(*                                                                         *)
(* A coded frame has a codec, the size and the pixel format of the picture *)
(* in it, and may be damaged.  The library gives an error for a damaged    *)
(* frame, or one that the context is not open for; of another it gives the *)
(* picture, or nothing if it wants more of them.                           *)

VARIABLES
  videoCodec, \* of the last frame, whether or not a context could be made
  videoCtx,   \* the codec it is open for, "closed", or "none"
  pictures    \* the pictures put out that nobody took yet

videoDecoderVars == <<videoCodec, videoCtx, pictures>>

VideoDecoderInit == videoCodec = "VC_NONE" /\ videoCtx = "none" /\ pictures = <<>>

DecodableVideo == {"H264", "H265", "VP8", "MJPEG"}
KnownFormats == {"RGB24", "RGB32", "YUYV422", "YUV420P", "YUV422P", "YUV444P", "YUVJ420P"}

(* A codec that is not supported leaves the context as it is; one that     *)
(* cannot be opened leaves it closed.                                      *)
inputConfig(codec, ctx, opens) ==
  IF codec \notin DecodableVideo THEN ctx ELSE IF opens THEN codec ELSE "closed"

configured(codec, opens) == codec \in DecodableVideo /\ opens

(* The codec is remembered before the context is made for it.              *)
reconfigure(codec, opens) ==
  /\ videoCodec' = codec
  /\ videoCtx' = IF codec = videoCodec THEN videoCtx ELSE inputConfig(codec, videoCtx, opens)

getPixelFormat(format) == IF format \in KnownFormats THEN format ELSE "P_NONE"

(* toBuffer: the size and the format of a frame are those of its picture.  *)
toBuffer(org) ==
  [picture |-> [size |-> org.size, format |-> org.format],
   size |-> org.size, pixFmt |-> getPixelFormat(org.format)]

refused(org, opens) ==
  /\ org.codec # videoCodec /\ ~configured(org.codec, opens)
  /\ reconfigure(org.codec, opens)
  /\ UNCHANGED pictures

(* Nothing is decoded without a context: the program would end there.      *)
failed(org, opens) ==
  /\ IF org.codec = videoCodec THEN videoCtx # "none" ELSE configured(org.codec, TRUE)
  /\ LET ctx == IF org.codec = videoCodec THEN videoCtx ELSE org.codec IN
     /\ org.damaged \/ ctx # org.codec
     /\ videoCtx' = inputConfig(org.codec, ctx, opens)
  /\ videoCodec' = org.codec
  /\ UNCHANGED pictures

passed(org, gotFrame) ==
  /\ reconfigure(org.codec, TRUE)
  /\ videoCtx' = org.codec /\ ~org.damaged
  /\ pictures' = IF gotFrame THEN Append(pictures, toBuffer(org)) ELSE pictures

decode(org) ==
  \/ \E opens \in BOOLEAN : refused(org, opens) \/ failed(org, opens)
  \/ \E gotFrame \in BOOLEAN : passed(org, gotFrame)

-----------------------------------------------------------------------------
(* The filter that scales pictures and changes their pixel format          *)
(* (VideoResampler.cpp).  Events set the size and the format that it puts  *)
(* out; the context that converts is made again when a frame is not like   *)
(* the one before.  The frame rate that events set is in FilterSync.       *)
(*                                                                         *)
(* A size is width and height, 0 in what events ask for being that of the  *)
(* frame.  A frame has the picture that is in it and the size and format   *)
(* that it says it has.                                                    *)

VARIABLES
  outputWidth, outputHeight, outPixFmt, needsConfig,
  inSize, inPixFmt,   \* of the last frame
  imgConvertCtx,      \* what the context converts from and to, or NoContext
  resampled           \* the last frame put out, with the context that made it, or NoPicture

resamplerVars == <<outputWidth, outputHeight, outPixFmt, needsConfig, inSize, inPixFmt,
                   imgConvertCtx, resampled>>

Nothing == [size |-> <<0, 0>>, format |-> "P_NONE"]
NoContext == [from |-> Nothing, to |-> Nothing]
NoPicture == [by |-> NoContext]

PixTypes == {"RGB24", "RGB32", "YUV420P", "YUV422P", "YUV444P", "YUYV422", "YUVJ420P"}

(* outPixFmt is read before it was ever set: it may have any value.        *)
ResamplerInit ==
  /\ outputWidth = 0 /\ outputHeight = 0
  /\ outPixFmt \in {"P_NONE", "RGB24"} /\ needsConfig = FALSE
  /\ inSize = <<0, 0>> /\ inPixFmt = "P_NONE"
  /\ imgConvertCtx = NoContext /\ resampled = NoPicture

getLibavPixFmt(pixType) == IF pixType \in PixTypes THEN pixType ELSE "AV_PIX_FMT_NONE"

(* An event may ask for P_NONE, which is set and makes it fail, and not    *)
(* for the last of the formats.                                            *)
configEvent(params) ==
  LET asked == params @@ [width |-> outputWidth, height |-> outputHeight,
                          pixelFormat |-> outPixFmt] IN
  /\ asked.pixelFormat # "YUVJ420P"
  /\ outputWidth' = asked.width /\ outputHeight' = asked.height
  /\ outPixFmt' = asked.pixelFormat
  /\ needsConfig' = TRUE
  /\ UNCHANGED <<inSize, inPixFmt, imgConvertCtx, resampled>>

outSize(org) == <<IF outputWidth = 0 THEN org.size[1] ELSE outputWidth,
                  IF outputHeight = 0 THEN org.size[2] ELSE outputHeight>>

(* Mutant of outdated: another pixel format is not noticed. *)
outdatedBySize(org) ==
  imgConvertCtx = NoContext \/ needsConfig \/ org.size # inSize

outdated(org) ==
  \/ imgConvertCtx = NoContext \/ needsConfig
  \/ org.size # inSize \/ org.pixFmt # inPixFmt

convertible(org) == getLibavPixFmt(org.pixFmt) # "AV_PIX_FMT_NONE"

(* sws_getContext gives nothing for a format that is none.                 *)
sws_getContext(org) ==
  IF getLibavPixFmt(outPixFmt) = "AV_PIX_FMT_NONE" THEN NoContext
  ELSE [from |-> [size |-> org.size, format |-> org.pixFmt],
        to |-> [size |-> outSize(org), format |-> outPixFmt]]

(* The format of the frame is remembered also when it cannot be converted. *)
makeContext(org) ==
  /\ inPixFmt' = IF outdated(org) THEN org.pixFmt ELSE inPixFmt
  /\ imgConvertCtx' = IF outdated(org) /\ convertible(org) THEN sws_getContext(org)
                      ELSE imgConvertCtx
  /\ needsConfig' = (needsConfig /\ (~convertible(org) \/ imgConvertCtx' = NoContext))

usable(org) == imgConvertCtx' # NoContext /\ convertible(org)

(* setAVFrame fails for the frame that reconfigure lets through although   *)
(* it has no format, since another with none came before it.               *)
resample(org) ==
  /\ makeContext(org)
  /\ inSize' = IF usable(org) THEN org.size ELSE inSize
  /\ resampled' = IF usable(org)
                  THEN [by |-> imgConvertCtx', of |-> org.picture,
                        size |-> outSize(org), pixFmt |-> outPixFmt]
                  ELSE resampled
  /\ UNCHANGED <<outputWidth, outputHeight, outPixFmt>>

-----------------------------------------------------------------------------
videoVars == <<videoDecoderVars, resamplerVars>>

VideoInit == VideoDecoderInit /\ ResamplerInit

DecodePicture ==
  /\ Len(pictures) < MaxWaiting
  /\ \E org \in CodedPictures : decode(org)
  /\ UNCHANGED resamplerVars

ResamplePicture ==
  /\ pictures # <<>> /\ resample(Head(pictures))
  /\ pictures' = Tail(pictures)
  /\ UNCHANGED <<videoCodec, videoCtx>>

ConfigureResampler ==
  /\ \E params \in ResamplerParams : configEvent(params)
  /\ UNCHANGED videoDecoderVars

VideoNext == DecodePicture \/ ResamplePicture \/ ConfigureResampler

VideoSpec == VideoInit /\ [][VideoNext]_videoVars

-----------------------------------------------------------------------------
DecodedFrames ==
  [picture : [size : Nat \X Nat, format : STRING], size : Nat \X Nat,
   pixFmt : PixTypes \cup {"P_NONE"}]

VideoTypeOK ==
  /\ videoCtx \in DecodableVideo \cup {"none", "closed"}
  /\ pictures \in Seq(DecodedFrames)
  /\ needsConfig \in BOOLEAN

(* reconfigure, doProcessFrame: a picture that is put out was converted by *)
(* a context that was made for its own size and format, and that gives the *)
(* size and the format that the frame says it has.                         *)
ConvertedAsIs ==
  resampled # NoPicture =>
    /\ resampled.by.from = resampled.of
    /\ resampled.by.to = [size |-> resampled.size, format |-> resampled.pixFmt]
=============================================================================
