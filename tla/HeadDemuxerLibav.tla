-------------------------- MODULE HeadDemuxerLibav --------------------------
(***************************************************************************)
(* The demuxer of files and network streams (HeadDemuxerLibav.cpp).  The   *)
(* library opens a URI and reads packets of its streams.  A packet of      *)
(* H.264 holds NAL units: it is brought into the format of Annex B, in a   *)
(* buffer of its own if need be, and each run of the filter puts out one   *)
(* unit, found by the start codes, until the packet is used up.  Other     *)
(* packets are put out as they are.                                        *)
(*                                                                         *)
(* A unit is the length of its start code and the size of what follows it, *)
(* which contains no start code.  An event that opens a URI runs on the    *)
(* control thread, between two runs of the filter.                         *)
(***************************************************************************)
EXTENDS Integers, Sequences, FiniteSetsExt

CONSTANTS
  Files,           \* of each URI: kinds of its streams, and its packets
  WhileConnected,  \* whether a URI is ever opened with writers connected
  MaxOpens,        \* bound: URIs that are opened
  MaxFailures,     \* bound: calls of the library that fail
  MaxChanges       \* bound: connections of writers

VARIABLES
  uri,             \* that is open, 0 if none is
  streams,         \* whose stream information is there
  lastPTS,         \* of each stream
  nextPacket,      \* that the library reads
  av_pkt,          \* the packet in hand, 0 if none is
  running,         \* a run of the filter has read it and not put it out
  buffer,          \* "NULL", the data of the "packet" or a "copy" of it
  bufferOffset,
  copies,          \* allocated and not freed
  writers,         \* streams that a writer is connected for
  frame,           \* the last one that was put out
  given,           \* history: units of the packet in hand that are out
  opens, failures, changes

packet == <<av_pkt, running, buffer, bufferOffset, copies, given, lastPTS>>
vars == <<uri, streams, nextPacket, packet, writers, frame, opens, failures, changes>>

NoPTS == -1
kinds == Files[uri].kinds        \* "annexb", "avcc" or "whole", of each stream
packets == Files[uri].packets    \* each with its stream, its time and its units
NoFrame == [packet |-> 0, stream |-> 0, units |-> {}, time |-> 0]

Init ==
  /\ uri = 0 /\ streams = {} /\ lastPTS = <<>> /\ nextPacket = 1
  /\ av_pkt = 0 /\ running = FALSE /\ buffer = "NULL" /\ bufferOffset = 0 /\ copies = 0
  /\ writers = {} /\ frame = NoFrame /\ given = {}
  /\ opens = 0 /\ failures = 0 /\ changes = 0
-----------------------------------------------------------------------------
(* The unit i of the units us starts at a place, and the buffer ends after *)
(* the last one.                                                           *)
length(us, i) == us[i].code + us[i].size
place(us, i) == FoldSet(LAMBDA k, sum : sum + length(us, k), 0, 1 .. i - 1)
bufferSize(us) == place(us, Len(us) + 1)

(* A start code of four bytes is one of three bytes behind a zero.         *)
startCodes(us) ==
  {place(us, i) : i \in DOMAIN us} \cup
    {place(us, i) + 1 : i \in {j \in DOMAIN us : us[j].code = 4}}

findStartCode(us, offs, buffer_length) ==
  LET found == {p \in startCodes(us) : offs <= p /\ p < buffer_length - 3}
  IN IF found = {} THEN -1 ELSE Min(found)

(* Mutant of searchEnd: the end is searched from the start code on.        *)
searchEndAtStart(us, offs) == findStartCode(us, offs, bufferSize(us) - 4)

searchEnd(us, offs) == findStartCode(us, offs + 4, bufferSize(us) - 4)

(* The units from the start code at offs to the next one.                  *)
unitsBetween(us, start, end) ==
  {i \in DOMAIN us : start <= place(us, i) /\ place(us, i) < end}
-----------------------------------------------------------------------------
(* Mutant of freed: a copy is kept, as if it were the packet.              *)
freedNever == copies

(* A buffer that is not the data of the packet was allocated for it.       *)
freed == IF buffer = "copy" THEN copies - 1 ELSE copies

releasePacket == av_pkt' = 0 /\ buffer' = "NULL" /\ copies' = freed

(* configureEvent, setURI, reset.  Without information on its streams the  *)
(* URI is open and has none.                                               *)
setURI(u) ==
  /\ ~running /\ opens < MaxOpens /\ opens' = opens + 1
  /\ writers # {} => WhileConnected
  /\ releasePacket /\ given' = {} /\ nextPacket' = 1
  /\ \/ uri' = u /\ streams' = DOMAIN Files[u].kinds /\ UNCHANGED failures
     \/ failures < MaxFailures /\ failures' = failures + 1
        /\ uri' \in {0, u} /\ streams' = {}
  /\ lastPTS' = [s \in streams' |-> 0]
  /\ UNCHANGED <<running, bufferOffset, writers, frame, changes>>

(* A writer is connected for a stream that is known.                       *)
connect(s) ==
  /\ ~running /\ s \in streams \ writers /\ changes < MaxChanges
  /\ writers' = writers \cup {s} /\ changes' = changes + 1
  /\ UNCHANGED <<uri, streams, nextPacket, opens, failures, packet, frame>>

disconnect(s) ==
  /\ ~running /\ s \in writers
  /\ writers' = writers \ {s}
  /\ UNCHANGED <<uri, streams, nextPacket, opens, failures, changes, packet, frame>>
-----------------------------------------------------------------------------
(* The parts of doProcessFrame.  Without a packet in hand one is read; it  *)
(* is dropped if its stream is not known or if it cannot be converted.     *)
hand == packets[av_pkt]

(* Mutant of remembered: the time of the first packet is kept.             *)
rememberedOnce(p) ==
  IF lastPTS[p.stream] = 0 THEN [lastPTS EXCEPT ![p.stream] = p.pts] ELSE lastPTS

remembered(p) ==
  IF p.pts = NoPTS THEN lastPTS ELSE [lastPTS EXCEPT ![p.stream] = p.pts]

dropPacket == UNCHANGED <<av_pkt, buffer, copies, bufferOffset, running, given>>

readPacket ==
  LET p == packets[nextPacket] IN
  /\ ~running /\ uri # 0 /\ av_pkt = 0 /\ writers # {} /\ nextPacket <= Len(packets)
  /\ nextPacket' = nextPacket + 1
  /\ IF p.stream \notin streams THEN dropPacket /\ UNCHANGED <<lastPTS, failures>>
     ELSE /\ lastPTS' = remembered(p)
          /\ \/ /\ av_pkt' = nextPacket /\ bufferOffset' = 0 /\ given' = {}
                /\ buffer' = IF kinds[p.stream] = "avcc" THEN "copy" ELSE "packet"
                /\ copies' = IF kinds[p.stream] = "avcc" THEN copies + 1 ELSE copies
                /\ running' = TRUE /\ UNCHANGED failures
             \/ /\ kinds[p.stream] = "avcc"
                /\ failures < MaxFailures /\ failures' = failures + 1
                /\ dropPacket
  /\ UNCHANGED <<uri, streams, writers, frame, opens, changes>>

(* No writer is connected for the stream of the packet.                    *)
discard ==
  /\ av_pkt # 0 /\ hand.stream \notin writers
  /\ releasePacket /\ running' = FALSE
  /\ UNCHANGED <<uri, streams, lastPTS, nextPacket, bufferOffset, writers, frame, given,
                 opens, failures, changes>>

splits == kinds[hand.stream] \in {"annexb", "avcc"}

(* What is put out, and the place that the next run goes on from, -1 if    *)
(* there is none.                                                          *)
nextOffset == IF splits THEN searchEnd(hand.units, bufferOffset) ELSE -1

unitsOut ==
  LET us == hand.units
      start == findStartCode(us, bufferOffset, bufferSize(us))
  IN IF splits THEN unitsBetween(us, start, IF nextOffset = -1 THEN bufferSize(us) ELSE nextOffset)
     ELSE DOMAIN us

putOut ==
  /\ av_pkt # 0 /\ hand.stream \in writers /\ running' = FALSE
  /\ frame' = [packet |-> av_pkt, stream |-> hand.stream, units |-> unitsOut,
               time |-> IF hand.pts = NoPTS THEN lastPTS[hand.stream] ELSE hand.pts]
  /\ given' = given \cup unitsOut
  /\ bufferOffset' = nextOffset
  /\ IF nextOffset = -1 THEN releasePacket ELSE UNCHANGED <<av_pkt, buffer, copies>>
  /\ UNCHANGED <<uri, streams, lastPTS, nextPacket, writers, opens, failures, changes>>

doProcessFrame == readPacket \/ discard \/ putOut
-----------------------------------------------------------------------------
Next ==
  \/ \E u \in DOMAIN Files : setURI(u)
  \/ \E s \in UNION {DOMAIN Files[u].kinds : u \in DOMAIN Files} : connect(s) \/ disconnect(s)
  \/ doProcessFrame

Spec == Init /\ [][Next]_vars
-----------------------------------------------------------------------------
(* The copies that were allocated are freed, each of them once.            *)
CopiesFreed == copies = IF buffer = "copy" THEN 1 ELSE 0

(* findStartCode stops seven bytes before the end of a packet: a last unit *)
(* that is shorter goes with the one before it.                            *)
isShort(us, i) == i = Len(us) /\ length(us, i) < 8

(* The time of the packet k, or of the last one before it that has one.    *)
ownTime(k) ==
  LET timed == {j \in 1 .. k : packets[j].stream = packets[k].stream /\ packets[j].pts # NoPTS}
  IN IF timed = {} THEN 0 ELSE packets[Max(timed)].pts

(* doProcessFrame: while a writer is connected its frames are the units of *)
(* the packets of its stream, one by one, none twice and none left out,    *)
(* with the time of the packet or, if it has none, of the one before it;   *)
(* and the copies are freed, whatever happens to the packet.               *)
UnitsInTurn ==
  /\ CopiesFreed'
  /\ frame' # frame =>
       LET us == packets[frame'.packet].units
           out == frame'.units
       IN  /\ out # {} /\ \A i \in out, j \in given : j < i
           /\ frame'.time = ownTime(frame'.packet)
           /\ av_pkt' = 0 => given' = DOMAIN us
           /\ splits => \A i, j \in out : i < j => j = i + 1 /\ isShort(us, j)
=============================================================================
