------------------------------- MODULE MCEnds -------------------------------
(***************************************************************************)
(* The ends of the pipelines under TLC in one run: the capture of devices  *)
(* and the demuxer at one end; the dasher with its segmenters, segments    *)
(* and MPD, the bytes of one representation, and RTP packets at the other. *)
(* Which one takes steps is chosen in the initial state, and the others    *)
(* stay in theirs.  Every behaviour is a behaviour of the chosen model.    *)
(***************************************************************************)
EXTENDS V4LCapture, RtpPackets

VARIABLES
  part,                    \* the model that runs
  readers, next, refTime, queue, pc, batch, tmpFrame, ctx, seg, adaptationSets,
  maxSeg, mpd, files, changes, dashFailures, since, settled,  \* Dasher
  codec, style, time, nals, segmenter, tsOffset, sequenceNumber, context, init, file,
  fSent, params, fUnits, shown,  \* SegmentFile
  uri, streams, lastPTS, nextPacket, av_pkt, running, dBuffer, bufferOffset, copies,
  dWriters, dFrame, given, opens, dFailures, dChanges,  \* HeadDemuxerLibav
  extradata, connection, ports, cRTCPInstances, instances, tasks, statsDB, measures,
                           \* RtpConnection
  session, smsStats, db, now, nextStatsMeasurementUSecs, task  \* SessionStats

Dash == INSTANCE Dasher
  WITH Video <- {1, 2}, Audio <- {3}, First <- {1, 3}, SyncMargin <- 0, SegDur <- 4,
       GopTime <- 4, Depths <- {2, 3}, MayShrink <- FALSE, Lag <- 1, MaxTime <- 22,
       MaxTroubles <- 2, failures <- dashFailures

File == INSTANCE SegmentFile
  WITH Codecs <- {"AVC", "HEVC", "AAC"}, TimeBase <- 2, Den <- 3, SegDur <- 3,
       Gaps <- {1, 3}, SampleDur <- 1, Encoded <- TRUE, MaxChannels <- 3, MaxUnits <- 4,
       sent <- fSent, units <- fUnits

unit(code, bytes) == [code |-> code, size |-> bytes]
pkt(stream, pts, us) == [stream |-> stream, pts |-> pts, units |-> us]

Demuxer == INSTANCE HeadDemuxerLibav
  WITH Files <-
         <<[kinds |-> <<"annexb", "whole">>,
            packets |-> <<pkt(1, 1, <<unit(4, 1), unit(3, 2), unit(4, 9)>>),
                          pkt(2, 1, <<unit(4, 5)>>),
                          pkt(1, -1, <<unit(4, 5), unit(4, 5)>>),
                          pkt(1, 3, <<unit(3, 1), unit(3, 6), unit(4, 1)>>),
                          pkt(2, -1, <<unit(4, 2), unit(4, 7)>>)>>],
           [kinds |-> <<"avcc", "avcc">>,
            packets |-> <<pkt(1, 1, <<unit(4, 1), unit(3, 2), unit(3, 9)>>),
                          pkt(2, -1, <<unit(4, 5), unit(3, 5)>>),
                          pkt(1, 2, <<unit(4, 1), unit(3, 1)>>),
                          pkt(2, 3, <<unit(4, 8)>>)>>]>>,
       WhileConnected <- FALSE, MaxOpens <- 3, MaxFailures <- 2, MaxChanges <- 4,
       buffer <- dBuffer, writers <- dWriters, frame <- dFrame, failures <- dFailures,
       changes <- dChanges

spsOf(mbs, mbsOnly, crop) == [mbs |-> mbs, units |-> 1, mbsOnly |-> mbsOnly, crop |-> crop]

MCSets == {spsOf(1, 0, <<1, 0, 0, 0>>), spsOf(2, 1, <<0, 1, 0, 4>>)}

MCAudioSizes ==
  [p \in {"UltraGridA", "MPEG4"} |-> IF p = "MPEG4" THEN {2, 8, 11} ELSE {2, 4, 5}]

stream(kind) == [codec |-> kind, channels |-> 2, rate |-> 44100, format |-> "S16"]
connectionOf(form, kinds, port) ==
  [format |-> form, streams |-> [k \in DOMAIN kinds |-> stream(kinds[k])], port |-> port]
unitOf(type, bytes) == [type |-> type, size |-> bytes]

(* The same streams over RTP and RTSP, alone and multiplexed.              *)
Connections == INSTANCE RtpConnection
  WITH Conns <- 1 .. 4,
       Request <- <<connectionOf("std", <<"PCM">>, 4),
                    connectionOf("rtsp", <<"PCM", "H265">>, 0),
                    connectionOf("mpegts", <<"H265", "AAC">>, 6),
                    connectionOf("rtsp_mpegts", <<"H265", "AAC">>, 0)>>,
       Extradata <- {[annexb |-> TRUE,
                      units |-> <<unitOf("VPS", 3), unitOf("SPS", 255),
                                  unitOf("SPS", 2), unitOf("PPS", 1)>>],
                     [annexb |-> TRUE,
                      units |-> <<unitOf("SPS", 255), unitOf("PPS", 1)>>]},
       Busy <- {1}, Ids <- {1, 2}, Reports <- {3, 50}, MaxInstances <- 2, MaxMeasures <- 3

Stats == INSTANCE SessionStats
  WITH Ports <- {1, 2}, Interval <- 2, Lateness <- 3, MaxTime <- 5, MaxPackets <- 3

ASSUME Dash!DasherAssumption /\ CaptureAssumption /\ PacketsAssumption /\ Progressive

dashVars == <<readers, next, refTime, queue, pc, batch, tmpFrame, ctx, seg,
              adaptationSets, maxSeg, mpd, files, changes, dashFailures,
              since, settled>>
fileVars == <<codec, style, time, nals, segmenter, tsOffset, sequenceNumber, context,
              init, file, fSent, params, fUnits, shown>>

demuxerVars == <<uri, streams, lastPTS, nextPacket, av_pkt, running, dBuffer,
                 bufferOffset, copies, dWriters, dFrame, given, opens, dFailures, dChanges>>

connectionVars == <<extradata, connection, ports, cRTCPInstances, instances, tasks,
                    statsDB, measures>>
statsVars == <<session, smsStats, db, now, nextStatsMeasurementUSecs, task>>

allVars == <<part, dashVars, fileVars, captureVars, demuxerVars, packetsVars,
          connectionVars, statsVars>>

(* The models that do not run stay in one of their initial states.  The    *)
(* MPD starts with the least depth, which is then changed.                 *)
Init ==
  /\ part \in {"dash", "file", "capture", "demuxer", "packets", "connection", "stats"}
  /\ Dash!Init /\ CaptureInit /\ Demuxer!Init
  /\ maxSeg = 2
  /\ File!Init
  /\ part # "file" =>
       codec = "AAC" /\ style = [aud |-> FALSE, slices |-> 1, filler |-> FALSE, hasVideo |-> FALSE]
  /\ PacketsInit /\ (part = "packets" \/ payload = "MPEG4")
  /\ Connections!Init /\ (part = "connection" \/ Len(extradata.units) = 2)
  /\ Stats!Init

Only(model) ==
  /\ part = model /\ UNCHANGED part
  /\ model = "dash" \/ UNCHANGED dashVars
  /\ model = "file" \/ UNCHANGED fileVars
  /\ model = "capture" \/ UNCHANGED captureVars
  /\ model = "demuxer" \/ UNCHANGED demuxerVars
  /\ model = "packets" \/ UNCHANGED packetsVars
  /\ model = "connection" \/ UNCHANGED connectionVars
  /\ model = "stats" \/ UNCHANGED statsVars

Next ==
  \/ Only("dash") /\ Dash!Next
  \/ Only("file") /\ File!Next
  \/ Only("capture") /\ CaptureNext
  \/ Only("demuxer") /\ Demuxer!Next
  \/ Only("packets") /\ PacketsNext
  \/ Only("connection") /\ Connections!Next
  \/ Only("stats") /\ Stats!Next

Spec == Init /\ [][Next]_allVars
-----------------------------------------------------------------------------
(* writeSegmentsToDisk, cleanSegments: the MPD lists what is on disk.      *)
OnDisk == Dash!OnDisk

(* sendSetReferenceEvent: representations start their segments together.   *)
Realigned == Dash!Realigned

(* i2libdash and i2libisoff: the segments play as the stream was sent.     *)
PlayedBack == File!PlayedBack

(* DashVideoSegmenter: segments end at the first intra frame after their   *)
(* duration.                                                               *)
CutInTime == File!CutInTime

(* V4LCapture and HeadDemuxerLibav: frames come out in the order they were *)
(* captured in, and packets are split into their units, at their times.    *)
HeadsInOrder == [][FramesForward /\ Demuxer!UnitsInTurn]_allVars

(* RtpConnection and SessionStats: what is measured is there, of the same  *)
(* packets for RTP and RTSP, with parameter sets that are whole, and       *)
(* extremes enclose what is between.                                       *)
Measured == Connections!Measured /\ Stats!Statistics
=============================================================================
