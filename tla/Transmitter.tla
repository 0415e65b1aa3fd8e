---------------------------- MODULE Transmitter ----------------------------
(***************************************************************************)
(* The tail filter that sends frames to clients (SinkManager), with the    *)
(* queue source of each of its readers, the live555 replicator that copies *)
(* a source to several connections, and the connections.                   *)
(*                                                                         *)
(* The worker puts each new frame into the source of its reader, and runs  *)
(* the live555 scheduler step by step until every source has given its     *)
(* frame away.  What the scheduler does in a step (a triggered event, a    *)
(* sink that asks for its next frame, a client that comes or goes) may be  *)
(* several calls nested in one another: a step ends in pc "after" and the  *)
(* worker goes on when no call is pending.  The control thread adds and    *)
(* removes connections at any time, without a lock.  Of a frame only its   *)
(* number, per reader, is kept.                                            *)
(***************************************************************************)
EXTENDS Integers, Sequences, FiniteSets, SequencesExt

CONSTANTS
  Readers,     \* ids of readers
  Codec,       \* [Readers -> the codec of their queue]
  Ids,         \* ids of connections
  Request,     \* [Ids -> [format, readers: a sequence, port]], as asked for
  None,        \* no replica
  LeaveBusy,   \* a reader may be deleted while the worker is in its loop
  MaxFrames,   \* bound: frames per reader
  MaxChanges   \* bound: readers and connections added and removed, plays, stops

ASSUME TransmitterAssumption ==
  /\ IsFiniteSet(Readers) /\ IsFiniteSet(Ids) /\ None \notin Ids
  /\ \A i \in Ids : Request[i].readers \in Seq(Readers)
  /\ LeaveBusy \in BOOLEAN /\ MaxFrames \in Nat /\ MaxChanges \in Nat

VARIABLES
  reader,      \* readers that are connected
  stream,      \* [Readers -> the queue source and its replicator]
  trigger,     \* sources with a triggered event in the scheduler
  connections, \* [Ids -> the readers it sends], {} where there is none
  pc, pFrames, \* the worker in doProcessFrame
  made,        \* frames taken from each reader's queue so far
  log,         \* [Ids \X Readers -> frames its client was given], history
  left,        \* readers that a client stopped to play, history
  changes

vars == <<reader, stream, trigger, connections, pc, pFrames, made, log, left, changes>>

Video == {"H264", "H265", "VP8"}

(* A source: its frame, or 0; whether that was processed; whether nobody   *)
(* wants frames, somebody waits for one, deliverFrame is to be called.     *)
(* Then its replicator: the frame it holds for its master, the replicas    *)
(* that were given that frame already, and what each replica is doing.     *)
Streams ==
  [frame : Nat, processed : BOOLEAN, stop : BOOLEAN, awaiting : BOOLEAN,
   call : BOOLEAN, held : Nat, master : Ids \cup {None}, served : SUBSET Ids,
   rep : [Ids -> {"off", "asks", "eager", "busy", "next"}]]

(* One that was just created, behind a replicator without replicas.        *)
NewStream ==
  [frame |-> 0, processed |-> FALSE, stop |-> TRUE, awaiting |-> FALSE,
   call |-> FALSE, held |-> 0, master |-> None, served |-> {},
   rep |-> [i \in Ids |-> "off"]]

TypeOK ==
  /\ reader \subseteq Readers /\ trigger \subseteq Readers /\ left \subseteq Readers
  /\ stream \in [Readers -> Streams]
  /\ connections \in [Ids -> SUBSET Readers]
  /\ pc \in {"idle", "single", "step", "after"}
  /\ pFrames \in 0 .. Cardinality(Readers)
  /\ made \in [Readers -> 0 .. MaxFrames]
  /\ log \in [Ids \X Readers -> Seq(Nat)]
  /\ changes \in 0 .. MaxChanges

Init ==
  /\ reader = {} /\ stream = [r \in Readers |-> NewStream] /\ trigger = {}
  /\ connections = [i \in Ids |-> {}]
  /\ pc = "idle" /\ pFrames = 0
  /\ made = [r \in Readers |-> 0] /\ log = [c \in Ids \X Readers |-> <<>>]
  /\ left = {} /\ changes = 0

-----------------------------------------------------------------------------
(* The queue source.                                                       *)

(* A call pending is deliverFrame, on a frame that is already there.       *)
doGetNextFrame(s) ==
  [s EXCEPT !.awaiting = TRUE, !.stop = FALSE, !.call = s.frame # 0]

doStopGettingFrames(s) == [s EXCEPT !.awaiting = FALSE, !.stop = TRUE, !.call = FALSE]

(* The source of H.264 and H.265 overrides deliverFrame and does not look  *)
(* whether the frame was processed.                                        *)
checksProcessed(r) == Codec[r] \notin {"H264", "H265"}

(* Mutant of canDeliver: the frame is given whether it was processed or    *)
(* not.                                                                    *)
givesAgain(r, s) == s.awaiting /\ s.frame # 0

canDeliver(r, s) ==
  s.awaiting /\ s.frame # 0 /\ (s.processed => ~checksProcessed(r))

setFrame(s, f) == IF s.frame = 0 THEN [s EXCEPT !.frame = f] ELSE s

(* Mutant of gotFrame: the frame of a source without clients is kept.      *)
keepsUnread(s) ==
  IF s.processed THEN [s EXCEPT !.processed = FALSE, !.frame = 0] ELSE s

gotFrame(s) ==
  IF s.processed \/ s.stop THEN [s EXCEPT !.processed = FALSE, !.frame = 0] ELSE s

-----------------------------------------------------------------------------
(* The replicator of live555.  The first replica that asks is the master:  *)
(* the frame is read into its buffer, and it is given to it last.          *)

active(s) == {i \in Ids : s.rep[i] # "off"}

(* The sampler of UltraGrid, and the multiplexor of MPEG-TS, ask again     *)
(* before they return; the other sinks when they have sent their packet.   *)
isEager(i, r) ==
  \/ Request[i].format = "mpegts"
  \/ Request[i].format = "ultragrid" /\ Codec[r] \in Video

afterGetting(i, r) == IF isEager(i, r) THEN "eager" ELSE "busy"

(* Replicas that get the frame the master holds.                           *)
waiting(s) == {i \in Ids : s.rep[i] = "asks"} \ {s.master}

copies(r, s) ==
  [s EXCEPT !.served = @ \cup waiting(s),
            !.rep = [i \in Ids |-> IF i \in waiting(s) THEN afterGetting(i, r) ELSE @[i]]]

(* All others have the frame: the master gets it, and one that asked for   *)
(* the next frame meanwhile becomes the master.                            *)
allServed(s) == s.master # None /\ active(s) \ {s.master} \subseteq s.served

asksNext(s) == {i \in Ids : s.rep[i] = "next"}

complete(r, s) ==
  LET nxt == asksNext(s)
      over == [s EXCEPT !.held = 0, !.served = {},
                 !.master = IF nxt = {} THEN None ELSE CHOOSE i \in nxt : TRUE,
                 !.rep = [i \in Ids |-> CASE i = s.master -> afterGetting(i, r)
                                          [] i \in nxt -> "asks"
                                          [] OTHER -> @[i]]]
  IN IF nxt = {} THEN over ELSE doGetNextFrame(over)

deliverReceived(r, s) ==
  LET c == copies(r, s) IN IF allServed(c) THEN complete(r, c) ELSE c

(* Who is given the frame held when deliverReceived is called.             *)
receivers(r, s) ==
  waiting(s) \cup IF allServed(copies(r, s)) THEN {s.master} ELSE {}

(* A replica asks for a frame.                                             *)
asked(i, s) ==
  IF s.master = None
  THEN doGetNextFrame([s EXCEPT !.rep[i] = "asks", !.master = i])
  ELSE [s EXCEPT !.rep[i] = IF i \in s.served THEN "next" ELSE "asks"]

(* The frame is already there, in the buffer of the master.                *)
heldFor(s) == s.master # None /\ s.held # 0

(* A replica stops.  A read pending for the master is stopped and begun    *)
(* again for another one; a frame that only the master had is lost.        *)
stopped(i, s) ==
  LET gone == [s EXCEPT !.rep[i] = "off", !.served = @ \ {i}]
      heirs == IF waiting(gone) # {} THEN waiting(gone) ELSE asksNext(gone)
      none == [gone EXCEPT !.held = 0, !.served = {},
                 !.master = IF heirs = {} THEN None ELSE CHOOSE j \in heirs : TRUE,
                 !.rep = [j \in Ids |-> IF j \in asksNext(gone) THEN "asks" ELSE @[j]]]
  IN IF active(gone) # {} /\ i # s.master THEN gone
     ELSE IF heirs # {} THEN doGetNextFrame(none)
     ELSE IF active(gone) = {} \/ s.awaiting THEN doStopGettingFrames(none)
     ELSE none

leave(i, s) == IF s.rep[i] = "off" THEN s ELSE stopped(i, s)

allLeave(is, s) == FoldSet(leave, s, is)

(* Every change of who asks or is there ends here: what is held is given.  *)
given(r, s) == IF heldFor(s) THEN receivers(r, s) ELSE {}

Become(f, l) ==
  /\ stream' = [r \in Readers |-> IF heldFor(f[r]) THEN deliverReceived(r, f[r]) ELSE f[r]]
  /\ log' = [c \in Ids \X Readers |->
               IF c[1] \in given(c[2], f[c[2]]) THEN Append(l[c], f[c[2]].held) ELSE l[c]]

With(r, s) == [stream EXCEPT ![r] = s]

-----------------------------------------------------------------------------
(* The worker.                                                             *)

pending == \E r \in Readers : stream[r].call \/ \E i \in Ids : stream[r].rep[i] = "eager"

(* doProcessFrame is called with the readers that have a new frame.        *)
begin ==
  /\ pc = "idle" /\ ~pending
  /\ \E new \in SUBSET {r \in reader : made[r] < MaxFrames} :
       /\ made' = [r \in Readers |-> IF r \in new THEN made[r] + 1 ELSE made[r]]
       /\ LET took == {r \in new : stream[r].frame = 0} IN
          /\ stream' = [r \in Readers |->
                          IF r \in took THEN setFrame(stream[r], made'[r]) ELSE stream[r]]
          /\ trigger' = trigger \cup took
          /\ pFrames' = Cardinality(took)
          /\ pc' = IF took = {} THEN "single" ELSE "step"
  /\ UNCHANGED <<reader, connections, log, left, changes>>

(* One step of the scheduler, which ends when nothing is pending.          *)
InStep == pc \in {"single", "step"} /\ ~pending
          /\ pc' = IF pc = "step" THEN "after" ELSE "idle"

quiet == InStep /\ UNCHANGED <<reader, stream, trigger, connections, pFrames, made,
                               log, left, changes>>

event(r) ==
  /\ InStep /\ r \in trigger
  /\ trigger' = trigger \ {r}
  /\ stream' = [stream EXCEPT ![r].call = TRUE]
  /\ UNCHANGED <<reader, connections, pFrames, made, log, left, changes>>

deliverFrame(r) ==
  /\ stream[r].call
  /\ IF canDeliver(r, stream[r])
     THEN Become(With(r, [stream[r] EXCEPT !.call = FALSE, !.awaiting = FALSE,
                                           !.processed = TRUE, !.held = stream[r].frame]), log)
     ELSE stream' = [stream EXCEPT ![r].call = FALSE] /\ UNCHANGED log
  /\ UNCHANGED <<reader, trigger, connections, pc, pFrames, made, left, changes>>

(* A sink has sent its packet and asks for the next frame.                 *)
askNext(i, r) ==
  /\ InStep /\ stream[r].rep[i] = "busy"
  /\ Become(With(r, asked(i, stream[r])), log)
  /\ UNCHANGED <<reader, trigger, connections, pFrames, made, left, changes>>

(* One that asks before it returns may also have enough for now.           *)
askAgain(i, r) ==
  /\ stream[r].rep[i] = "eager" /\ ~stream[r].call
  /\ Len(log[<<i, r>>]) < 2 * MaxFrames
  /\ Become(With(r, asked(i, stream[r])), log)
  /\ UNCHANGED <<reader, trigger, connections, pc, pFrames, made, left, changes>>

enough(i, r) ==
  /\ stream[r].rep[i] = "eager" /\ ~stream[r].call
  /\ stream' = [stream EXCEPT ![r].rep[i] = "busy"]
  /\ UNCHANGED <<reader, trigger, connections, pc, pFrames, made, log, left, changes>>

(* Mutant of getsRid: sources without a frame are counted too.             *)
isFree(r) == gotFrame(stream[r]).frame = 0

getsRid(r) == stream[r].frame # 0 /\ gotFrame(stream[r]).frame = 0

(* The sources that got rid of their frame are counted, and the loop goes  *)
(* on until there are as many as there were frames.                        *)
collect ==
  /\ pc = "after" /\ ~pending
  /\ LET got == {r \in reader : getsRid(r)} IN
     /\ pFrames' = pFrames - Cardinality(got)
     /\ pc' = IF pFrames' > 0 THEN "step" ELSE "idle"
  /\ stream' = [r \in Readers |-> IF r \in reader THEN gotFrame(stream[r]) ELSE stream[r]]
  /\ UNCHANGED <<reader, trigger, connections, made, log, left, changes>>

-----------------------------------------------------------------------------
(* Readers and connections.                                                *)

Change == changes < MaxChanges /\ changes' = changes + 1

(* The reader is connected: a source and a replicator are created.         *)
specificReaderConfig(r) ==
  /\ Change /\ r \notin reader
  /\ reader' = reader \cup {r}
  /\ stream' = [stream EXCEPT ![r] = NewStream]
  /\ trigger' = trigger \ {r} /\ made' = [made EXCEPT ![r] = 0]
  /\ log' = [c \in Ids \X Readers |-> IF c[2] = r THEN <<>> ELSE log[c]]
  /\ left' = left \ {r}
  /\ UNCHANGED <<connections, pc, pFrames>>

(* What each kind of connection takes.                                     *)
acceptedCodecs(format) ==
  CASE format = "std" -> Video \cup {"AAC", "MP3", "PCM"}
    [] format = "rtsp" -> Video \cup {"AAC", "MP3", "PCM"}
    [] format = "ultragrid" -> {"H264", "MP3"}
    [] format \in {"mpegts", "rtsp_mpegts"} -> {"H264", "H265", "AAC", "MP3"}

kind(r) == Codec[r] \in Video

accepts(i, r) == Codec[r] \in acceptedCodecs(Request[i].format)

stdReaders(i) ==
  LET rs == Request[i].readers
  IN IF Len(rs) = 1 /\ accepts(i, rs[1]) THEN {rs[1]} ELSE {}

(* One reader of each kind.  Whether it worked is what the last one says:  *)
(* one that was refused before is left out of the connection, and another  *)
(* of its kind is refused then.                                            *)
mpegTsReaders(i) ==
  LET rs == Request[i].readers
      added == {k \in DOMAIN rs :
                  /\ accepts(i, rs[k])
                  /\ \A j \in DOMAIN rs : kind(rs[j]) = kind(rs[k]) => j >= k}
  IN IF Len(rs) <= 2 /\ Len(rs) \in added THEN {rs[k] : k \in added} ELSE {}

(* Every reader of an RTSP session must be accepted, and none twice.       *)
rtspReaders(i) ==
  LET rs == Request[i].readers
      same(k, l) == \/ rs[k] = rs[l]
                    \/ Request[i].format = "rtsp_mpegts" /\ kind(rs[k]) = kind(rs[l])
  IN IF /\ \A k \in DOMAIN rs : accepts(i, rs[k])
        /\ \A k, l \in DOMAIN rs : same(k, l) => k = l
     THEN ToSet(rs) ELSE {}

isRtsp(i) == Request[i].format \in {"rtsp", "rtsp_mpegts"}

canAdd(i) == connections[i] = {} /\ ToSet(Request[i].readers) \subseteq reader

(* The first frame is asked for by startPlaying, in the control thread.    *)
addRTPConnection(i) ==
  /\ Change /\ canAdd(i) /\ ~isRtsp(i)
  /\ LET rs == IF Request[i].port % 2 # 0 THEN {}
               ELSE IF Request[i].format = "mpegts" THEN mpegTsReaders(i) ELSE stdReaders(i)
     IN /\ connections' = [connections EXCEPT ![i] = rs]
        /\ Become([r \in Readers |-> IF r \in rs THEN asked(i, stream[r]) ELSE stream[r]], log)
  /\ UNCHANGED <<reader, trigger, pc, pFrames, made, left>>

addRTSPConnection(i) ==
  /\ Change /\ canAdd(i) /\ isRtsp(i)
  /\ connections' = [connections EXCEPT ![i] = rtspReaders(i)]
  /\ UNCHANGED <<reader, stream, trigger, pc, pFrames, made, log, left>>

(* A client of an RTSP session plays or stops, in a step of the scheduler. *)
play(i) ==
  /\ Change /\ InStep /\ isRtsp(i) /\ connections[i] # {}
  /\ \A r \in connections[i] : stream[r].rep[i] = "off"
  /\ Become([r \in Readers |->
               IF r \in connections[i] THEN asked(i, stream[r]) ELSE stream[r]], log)
  /\ UNCHANGED <<reader, trigger, connections, pFrames, made, left>>

(* The clients of connection i leave every source; who comes back later is *)
(* another client.                                                         *)
playsOn(i) == {r \in Readers : stream[r].rep[i] # "off"}

stopPlaying(is) ==
  /\ Become([r \in Readers |-> allLeave(is, stream[r])],
            [c \in Ids \X Readers |-> IF c[1] \in is THEN <<>> ELSE log[c]])
  /\ left' = left \cup UNION {playsOn(i) : i \in is}

teardown(i) ==
  /\ Change /\ InStep /\ isRtsp(i) /\ playsOn(i) # {}
  /\ stopPlaying({i})
  /\ UNCHANGED <<reader, trigger, connections, pFrames, made>>

removeConnection(i) ==
  /\ Change /\ connections[i] # {}
  /\ connections' = [connections EXCEPT ![i] = {}]
  /\ stopPlaying({i})
  /\ UNCHANGED <<reader, trigger, pc, pFrames, made>>

(* Mutant of usedBy: no connection is looked for.                          *)
unused(r) == {}

usedBy(r) == {i \in Ids : r \in connections[i]}

(* The connections that use the reader are deleted with it.  If there are  *)
(* none, its source and replicator are forgotten, but not closed.          *)
specificReaderDelete(r) ==
  /\ Change /\ r \in reader /\ (pc = "idle" \/ LeaveBusy)
  /\ reader' = reader \ {r}
  /\ connections' = [i \in Ids |-> IF i \in usedBy(r) THEN {} ELSE connections[i]]
  /\ stopPlaying(usedBy(r))
  /\ UNCHANGED <<trigger, pc, pFrames, made>>

-----------------------------------------------------------------------------
Next ==
  \/ begin \/ quiet \/ collect
  \/ \E r \in Readers : \/ event(r) \/ deliverFrame(r)
                        \/ specificReaderConfig(r) \/ specificReaderDelete(r)
  \/ \E i \in Ids, r \in Readers : askNext(i, r) \/ askAgain(i, r) \/ enough(i, r)
  \/ \E i \in Ids : \/ addRTPConnection(i) \/ addRTSPConnection(i) \/ removeConnection(i)
                    \/ play(i) \/ teardown(i)

Spec == Init /\ [][Next]_vars

(* The worker is run again and again; the scheduler serves every event and *)
(* every socket and timer of a sink in turn.                               *)
Fairness ==
  /\ WF_vars(quiet) /\ WF_vars(collect)
  /\ WF_vars(\E r \in Readers : deliverFrame(r)) /\ \A r \in Readers : SF_vars(event(r))
  /\ \A i \in Ids : \A r \in ToSet(Request[i].readers) : SF_vars(askNext(i, r))
  /\ WF_vars(\E i \in Ids, r \in Readers : enough(i, r))

FairSpec == Spec /\ Fairness

-----------------------------------------------------------------------------
(* Each client is given the frames of a reader once and in order; and if   *)
(* none of the clients of that reader has left, it misses none from its    *)
(* first one on, however slow the others are.                              *)
OnceInOrder ==
  \A c \in Ids \X Readers : \A k \in 1 .. Len(log[c]) - 1 :
    /\ log[c][k] < log[c][k + 1]
    /\ c[2] \notin left => log[c][k + 1] = log[c][k] + 1

(* specificReaderDelete, removeConnection: no connection and no client     *)
(* uses the source of a reader that is gone: that source was closed.       *)
NoClosedSource ==
  \A r \in Readers \ reader :
    active(stream[r]) = {} /\ \A i \in Ids : r \notin connections[i]

(* A source points at a frame only while the worker is in the call that    *)
(* was given it, and the worker waits for exactly the sources that do:     *)
(* after the call the slot of the frame is freed and filled again.  The    *)
(* sources that are used belong to readers that are there.                 *)
FramesCounted ==
  LET holding == {r \in Readers : stream[r].frame # 0}
  IN /\ TypeOK /\ NoClosedSource
     /\ pFrames = Cardinality(holding) /\ (pc \in {"idle", "single"} => holding = {})

(* A call of doProcessFrame returns, although it waits for all clients and *)
(* they come and go: otherwise the transmitter sends nothing any more.     *)
LoopEnds == pc # "idle" ~> pc = "idle"
=============================================================================
