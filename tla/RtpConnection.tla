---------------------------- MODULE RtpConnection ----------------------------
(***************************************************************************)
(* The life of what a connection of the transmitter owns (Connection.cpp   *)
(* and the subsessions of its RTSP server): the ports of an RTP            *)
(* connection, the sinks that make packets, and the RTCP instances, which  *)
(* a connection keeps in a map so that the state of the filter can report  *)
(* their measures.  An RTP connection has one RTCP instance, an RTSP       *)
(* connection one for each client and subsession, under a random number.   *)
(*                                                                         *)
(* The control thread makes and removes connections; the scheduler of      *)
(* live555 runs the tasks that measure; clients come and go.               *)
(***************************************************************************)
EXTENDS Integers, Sequences, SequencesExt

CONSTANTS
  Conns,         \* ids of connections
  Request,       \* [Conns -> [format, streams: a sequence of [codec, ...], port]]
  Extradata,     \* what a stream may come with: [annexb, units]
  Busy,          \* server ports that others have
  Ids,           \* what rand() may return, for RTSP clients
  Reports,       \* values that a receiver may report
  MaxInstances,  \* bound: RTCP instances ever made
  MaxMeasures    \* bound: reports and measures

VARIABLES
  extradata,     \* of the video streams, chosen once
  connection,    \* [Conns -> "none" or "playing"]
  ports,         \* [Conns -> server ports of its sockets]
  cRTCPInstances,  \* [Conns -> pairs <<id, instance>>: a map]
  instances,     \* a sequence: the RTCP instances, by their creation
  tasks,         \* instances whose measure is scheduled
  statsDB,       \* [instance -> what its receivers last reported]
  measures

vars == <<extradata, connection, ports, cRTCPInstances, instances, tasks, statsDB, measures>>

Init ==
  /\ extradata \in Extradata
  /\ connection = [c \in Conns |-> "none"] /\ ports = [c \in Conns |-> {}]
  /\ cRTCPInstances = [c \in Conns |-> {}]
  /\ instances = <<>> /\ tasks = {} /\ statsDB = <<>> /\ measures = 0

-----------------------------------------------------------------------------
(* The parameter sets that the SDP of a video stream states.               *)

setsOf(codec) == IF codec = "H264" THEN {"SPS", "PPS"} ELSE {"VPS", "SPS", "PPS"}

(* Of each type the last is taken; its size is kept in eight bits.         *)
feedHeaders(codec, nals) ==
  [t \in {nals[k].type : k \in DOMAIN nals} \cap setsOf(codec) |->
     nals[Max({k \in DOMAIN nals : nals[k].type = t})].size % 256]

(* NAL units are looked for if there is a start code in front.             *)
parseExtradata(codec) ==
  feedHeaders(codec, IF extradata.annexb THEN extradata.units ELSE <<>>)

allFound(codec) == DOMAIN parseExtradata(codec) = setsOf(codec)

(* What the RTSP server says of H.264 and H.265: all the sets, or none.    *)
sdpSets(codec) == IF allFound(codec) THEN parseExtradata(codec) ELSE <<>>
-----------------------------------------------------------------------------
(* The sinks: what makes packets of a stream, and their payload type, if   *)
(* it is one of the static ones.                                           *)

NoSink == [name |-> "none"]
sinkOf(name, payload) == [name |-> name, payload |-> payload, sets |-> <<>>]
video(s) == s.codec \in {"H264", "H265", "VP8", "RAW"}

VideoConnection(s) ==
  IF s.codec = "RAW" THEN NoSink ELSE sinkOf(s.codec, "dynamic")

isL16(s) == s.codec = "PCM" /\ s.format = "S16"

AudioConnection(s) ==
  LET payloadType ==
        CASE isL16(s) /\ s.rate = 44100 /\ s.channels = 2 -> 10
          [] isL16(s) /\ s.rate = 44100 /\ s.channels = 1 -> 11
          [] s.codec \in {"PCMU", "G711"} /\ s.rate = 8000 /\ s.channels = 1 -> 0
          [] OTHER -> "dynamic"
  IN CASE s.codec = "MP3" -> sinkOf("MP3", 14)
       [] s.codec = "AAC" -> sinkOf("ADTS", "dynamic")
       [] isL16(s) -> sinkOf("L16", payloadType)
       [] OTHER -> sinkOf(s.codec, payloadType)

UltraGridVideoConnection(s) ==
  IF s.codec = "H264" THEN sinkOf("UltraGridVideo", 20) ELSE NoSink

UltraGridAudioConnection(s) ==
  IF s.codec = "MP3" THEN sinkOf("UltraGridAudio", 21) ELSE NoSink

(* One stream of each kind at most, of the codecs that can be multiplexed. *)
addVideoSource(q) ==
  LET videos == {k \in DOMAIN q.streams : video(q.streams[k])}
  IN Cardinality(videos) < 2 /\ \A k \in videos : q.streams[k].codec \in {"H264", "H265"}

addAudioSource(q) ==
  LET audios == {k \in DOMAIN q.streams : ~video(q.streams[k])}
  IN Cardinality(audios) < 2 /\ \A k \in audios : q.streams[k].codec \in {"AAC", "MP3"}

MpegTsConnection(q) ==
  IF addVideoSource(q) /\ addAudioSource(q) THEN sinkOf("MP2T", 33) ELSE NoSink

additionalSetup(q) ==
  CASE q.format = "mpegts" -> MpegTsConnection(q)
    [] q.format = "ultragrid" /\ video(q.streams[1]) -> UltraGridVideoConnection(q.streams[1])
    [] q.format = "ultragrid" /\ ~video(q.streams[1]) -> UltraGridAudioConnection(q.streams[1])
    [] q.format = "std" /\ video(q.streams[1]) -> VideoConnection(q.streams[1])
    [] q.format = "std" /\ ~video(q.streams[1]) -> AudioConnection(q.streams[1])

(* The subsessions of an RTSP connection make their sinks themselves.      *)
AudioQueueServerMediaSubsession(s) ==
  CASE s.codec = "MP3" -> sinkOf("MP3", 14)
    [] s.codec = "PCM" /\ s.format = "S16" ->
         sinkOf("L16", IF s.rate # 44100 THEN "dynamic"
                       ELSE IF s.channels = 2 THEN 10
                       ELSE IF s.channels = 1 THEN 11 ELSE "dynamic")
    [] OTHER -> sinkOf(s.codec, IF s.codec \in {"PCMU", "G711"} /\ s.rate = 8000 /\ s.channels = 1
                                THEN 0 ELSE "dynamic")

ADTSQueueServerMediaSubsession == sinkOf("ADTS", "dynamic")
VP8QueueServerMediaSubsession == sinkOf("VP8", "dynamic")

H264or5QueueServerMediaSubsession(s) ==
  [sinkOf(s.codec, "dynamic") EXCEPT !.sets = sdpSets(s.codec)]

MPEGTSQueueServerMediaSubsession(q) ==
  IF addVideoSource(q) /\ addAudioSource(q) THEN sinkOf("MP2T", 33) ELSE NoSink

rawSubsession(s) ==
  CASE s.codec \in {"H264", "H265"} -> H264or5QueueServerMediaSubsession(s)
    [] s.codec = "VP8" -> VP8QueueServerMediaSubsession
    [] s.codec = "AAC" -> ADTSQueueServerMediaSubsession
    [] ~video(s) /\ s.codec # "AAC" -> AudioQueueServerMediaSubsession(s)
    [] s.codec = "RAW" -> NoSink

isRTSP(c) == Request[c].format \in {"rtsp", "rtsp_mpegts"}

subsessions(q) ==
  IF q.format = "rtsp_mpegts" THEN <<MPEGTSQueueServerMediaSubsession(q)>>
  ELSE [k \in DOMAIN q.streams |-> rawSubsession(q.streams[k])]
-----------------------------------------------------------------------------
(* RTCP instances.                                                         *)

Nothing == [current |-> 0, least |-> 100, most |-> 0]

live == {i \in DOMAIN instances : instances[i].live}
liveOf(c) == {i \in live : instances[i].conn = c}

addConnectionRTCPInstance(m, id, i) == {e \in m : e[1] # id} \cup {<<id, i>>}

(* Mutant of deleteConnectionRTCPInstance: the entry stays.                *)
keepsEntry(m, id) == m

deleteConnectionRTCPInstance(m, id) == {e \in m : e[1] # id}

(* A new instance starts to measure at once.                               *)
ConnRTCPInstance(c, id, sink) ==
  /\ Len(instances) < MaxInstances
  /\ instances' = Append(instances, [conn |-> c, id |-> id, sink |-> sink, live |-> TRUE,
                                     report |-> Nothing])
  /\ tasks' = tasks \cup {Len(instances) + 1}
  /\ cRTCPInstances' = [cRTCPInstances EXCEPT
       ![c] = addConnectionRTCPInstance(@, id, Len(instances) + 1)]
  /\ statsDB' = Append(statsDB, {})

(* ~ConnRTCPInstance, of several: what is in the map under the number of   *)
(* each goes, and its task.                                                *)
closed(is) ==
  /\ instances' = [i \in DOMAIN instances |->
                     IF i \in is THEN [instances[i] EXCEPT !.live = FALSE, !.report = Nothing]
                     ELSE instances[i]]
  /\ statsDB' = [i \in DOMAIN statsDB |-> IF i \in is THEN {} ELSE statsDB[i]]
  /\ tasks' = tasks \ is
  /\ cRTCPInstances' = [c \in Conns |->
       FoldSet(LAMBDA i, m : IF instances[i].conn = c
                             THEN deleteConnectionRTCPInstance(m, instances[i].id) ELSE m,
               cRTCPInstances[c], is)]

(* Mutant of measured: a value is the least or the most, never both.       *)
measuredOnce(m, v) ==
  [current |-> v, least |-> IF v < m.least THEN v ELSE m.least,
   most |-> IF v >= m.least /\ v > m.most THEN v ELSE m.most]

measured(m, v) ==
  [current |-> v, least |-> IF v < m.least THEN v ELSE m.least,
   most |-> IF v > m.most THEN v ELSE m.most]

(* The scheduler runs a task: every receiver's last report is looked at,   *)
(* in any order, and the task is scheduled again.                          *)
periodicConnStatMeasurement(i) ==
  /\ i \in tasks /\ measures < MaxMeasures /\ measures' = measures + 1
  /\ \E order \in SetToSeqs({r[2] : r \in statsDB[i]}) :
       instances' = [instances EXCEPT ![i].report = FoldLeft(measured, @, order)]
  /\ UNCHANGED <<extradata, connection, ports, cRTCPInstances, tasks, statsDB>>

(* A receiver reports loss, jitter or delay to the instance.               *)
report(i, receiver, v) ==
  /\ i \in live /\ measures < MaxMeasures /\ measures' = measures + 1
  /\ statsDB' = [statsDB EXCEPT ![i] = {r \in @ : r[1] # receiver} \cup {<<receiver, v>>}]
  /\ UNCHANGED <<extradata, connection, ports, cRTCPInstances, instances, tasks>>
-----------------------------------------------------------------------------
(* Connections.                                                            *)

taken == Busy \cup UNION Range(ports)

(* The first pair of ports, from INITIAL_SERVER_PORT up, that is free.     *)
serverPort == Min({n \in 0 .. 2 * Cardinality(taken) : n % 2 = 0 /\ {n, n + 1} \cap taken = {}})

firstStepSetup(c) == Request[c].port % 2 = 0

(* RTPConnection::setup.  One that fails is deleted, with its sockets.     *)
setup(c) ==
  LET sink == additionalSetup(Request[c]) IN
  /\ connection[c] = "none" /\ ~isRTSP(c)
  /\ firstStepSetup(c) /\ sink # NoSink
  /\ connection' = [connection EXCEPT ![c] = "playing"]
  /\ ports' = [ports EXCEPT ![c] = {serverPort, serverPort + 1}]
  /\ ConnRTCPInstance(c, Request[c].port, sink)
  /\ UNCHANGED <<extradata, measures>>

(* RTSPConnection::setup, when all its subsessions were added.             *)
addServerMediaSession(c) ==
  /\ connection[c] = "none" /\ isRTSP(c) /\ NoSink \notin ToSet(subsessions(Request[c]))
  /\ connection' = [connection EXCEPT ![c] = "playing"]
  /\ UNCHANGED <<extradata, ports, cRTCPInstances, instances, tasks, statsDB, measures>>

(* A client of an RTSP connection plays one of its subsessions.            *)
createRTCP(c, k, id) ==
  /\ connection[c] = "playing" /\ isRTSP(c) /\ k \in DOMAIN subsessions(Request[c])
  /\ ConnRTCPInstance(c, id, subsessions(Request[c])[k])
  /\ UNCHANGED <<extradata, connection, ports, measures>>

(* The client leaves, or is given up.                                      *)
reclaim(i) ==
  /\ i \in live /\ isRTSP(instances[i].conn)
  /\ closed({i})
  /\ UNCHANGED <<extradata, connection, ports, measures>>

(* stopPlaying and the destructors: the RTCP instance and the sockets of   *)
(* an RTP connection, or the clients of an RTSP connection.                *)
removeConnection(c) ==
  /\ connection[c] = "playing"
  /\ closed(liveOf(c))
  /\ connection' = [connection EXCEPT ![c] = "none"]
  /\ ports' = [ports EXCEPT ![c] = {}]
  /\ UNCHANGED <<extradata, measures>>

Next ==
  \/ \E c \in Conns : \/ setup(c) \/ addServerMediaSession(c) \/ removeConnection(c)
                      \/ \E k \in 1 .. 2, id \in Ids : createRTCP(c, k, id)
  \/ \E i \in DOMAIN instances : \/ reclaim(i) \/ periodicConnStatMeasurement(i)
                                 \/ \E r \in 1 .. 2, v \in Reports : report(i, r, v)

Spec == Init /\ [][Next]_vars
-----------------------------------------------------------------------------
(* What the state of the filter looks at.                                  *)
doGetState(c) == {e[2] : e \in cRTCPInstances[c]}

(* doGetState can use what the maps hold, each instance measures, and a    *)
(* connection that is removed leaves nothing behind.                       *)
Accounted ==
  /\ tasks = live
  /\ \A c \in Conns :
       /\ doGetState(c) \subseteq liveOf(c)
       /\ connection[c] = "none" => ports[c] = {} /\ liveOf(c) = {}
       /\ connection[c] = "playing" /\ ~isRTSP(c) =>
            \E i \in live : liveOf(c) = {i} /\ cRTCPInstances[c] = {<<Request[c].port, i>>}

(* An RTP and an RTSP connection with the same stream make the same        *)
(* packets of it.                                                          *)
SamePackets ==
  \A i, j \in live :
    LET p == Request[instances[i].conn]
        q == Request[instances[j].conn]
    IN \/ p.format \notin {"std", "mpegts"} \/ ~isRTSP(instances[j].conn)
       \/ (p.format = "mpegts") # (q.format = "rtsp_mpegts") \/ p.streams # q.streams
       \/ [instances[i].sink EXCEPT !.sets = <<>>] = [instances[j].sink EXCEPT !.sets = <<>>]

(* The SDP states all the parameter sets a stream came with, whole, or it  *)
(* states none.                                                            *)
WholeSets ==
  \A i \in live : LET sets == instances[i].sink.sets IN
    \/ sets = <<>>
    \/ /\ DOMAIN sets = setsOf(instances[i].sink.name)
       /\ \A t \in DOMAIN sets :
            \E u \in ToSet(extradata.units) : u.type = t /\ u.size = sets[t]

(* The extremes enclose what was measured.                                 *)
Enclosed ==
  \A i \in DOMAIN instances :
    LET m == instances[i].report IN m = Nothing \/ m.current \in m.least .. m.most

Measured == Accounted /\ SamePackets /\ WholeSets /\ Enclosed
=============================================================================
