------------------------------ MODULE Receiver ------------------------------
(***************************************************************************)
(* The head filter that receives streams (SourceManager), its sessions and *)
(* the sinks that put what arrives at a port into the frames of a queue.   *)
(*                                                                         *)
(* Each time the worker runs the filter it takes a frame from the queue of *)
(* every writer, hands it to the sink of the same port, runs ONE step of   *)
(* the live555 scheduler and adds the frames that were received.  A step   *)
(* is an answer of an RTSP server, a frame that has arrived, a task of a   *)
(* sink, a timer or nothing.  The control thread adds and removes sessions *)
(* at any time, and connects and disconnects writers.                      *)
(*                                                                         *)
(* A frame is a slot of the queue of a connection: <<connection, index>>.  *)
(* Ports of different sessions are different.                              *)
(***************************************************************************)
EXTENDS Integers, Sequences, FiniteSets, SequencesExt

CONSTANTS
  Sessions, Ports,
  Subsessions,  \* [Sessions -> a sequence of ports]
  Slots,        \* length of the queues
  Troubles,     \* what may happen that the code is not ready for, see Troublesome
  MaxConnects   \* bound: connections of a port

(* What the code is not ready for.                                         *)
Troublesome ==
  {"leave_waiting",     \* a writer leaves while its sink waits for a frame
   "remove_connected",  \* a session is removed while its writers are connected
   "remove_sdp",        \* a session that has no RTSP client is removed
   "early",             \* a session is used before it is described
   "refused",           \* the server refuses to describe or to play
   "ends",              \* the stream ends after the time that the SDP states
   "bye"}               \* the server says goodbye, or closes the stream

ASSUME ReceiverAssumption == Troubles \subseteq Troublesome /\ Slots \in Nat \ {0, 1}

VARIABLES
  session,    \* [Sessions -> what the session waits for]
  todo,       \* [Sessions -> subsessions that are still to be set up]
  client,     \* [Sessions -> the RTSP client: "none", "open" or "closed"]
  keepAlive,  \* sessions whose keep-alive timer runs
  sinks,      \* ports in the map of sinks
  sink,       \* [Ports -> the sink that was made for the port]
  writer,     \* [Ports -> "none", "connected" or "left" by its reader]
  queue,      \* [Ports -> [id, rear, elements]] of its last connection
  infos,      \* ports whose stream information is cached
  pc,
  dFrames,    \* [Ports -> the frame that was demanded, or None]
  consumed,   \* [Ports -> what was put into that frame: "no", "blank" or "data"]
  added,      \* connections of which a frame was added, per port
  troubled,   \* history: one of Troublesome has happened
  bad         \* history: something that was freed, or never there, was used

sessionVars == <<session, todo, client, keepAlive>>
sinkVars == <<sinks, sink>>
writerVars == <<writer, queue, infos, added>>
frameVars == <<dFrames, consumed>>
vars == <<sessionVars, sinkVars, writerVars, frameVars, pc, troubled, bad>>

Trouble(t, happens) ==
  /\ happens => t \in Troubles
  /\ troubled' = (troubled \/ happens)

None == <<0, 0>>
NoSink == [state |-> "none", frame |-> None, nextFrame |-> TRUE, reads |-> "nothing",
           into |-> None]

portsOf(s) == ToSet(Subsessions[s])
sessionOf(p) == CHOOSE s \in Sessions : p \in portsOf(s)
rearOf(p) == <<queue[p].id, queue[p].rear>>

(* A connection and a place in its queue.                                  *)
Frames == (0 .. MaxConnects) \X (0 .. Slots - 1)

TypeOK ==
  /\ session \in [Sessions -> {"none", "describe", "setup", "play", "playing", "over"}]
  /\ todo \in [Sessions -> Nat] /\ \A s \in Sessions : todo[s] <= Len(Subsessions[s])
  /\ client \in [Sessions -> {"none", "open", "closed"}] /\ keepAlive \subseteq Sessions
  /\ sinks \subseteq Ports /\ infos \subseteq Ports
  /\ sink \in [Ports -> [state : {"none", "live", "closed"}, frame : Frames,
                         nextFrame : BOOLEAN, into : Frames,
                         reads : {"nothing", "task", "dummy", "frame"}]]
  /\ writer \in [Ports -> {"none", "connected", "left"}]
  /\ queue \in [Ports -> [id : 0 .. MaxConnects, rear : 0 .. Slots - 1,
                          elements : 0 .. Slots - 1]]
  /\ added \in [Ports -> 0 .. MaxConnects] /\ dFrames \in [Ports -> Frames]
  /\ consumed \in [Ports -> {"no", "blank", "data"}]
  /\ pc \in {"idle", "step", "add"} /\ troubled \in BOOLEAN /\ bad \in BOOLEAN

Init ==
  /\ session = [s \in Sessions |-> "none"] /\ todo = [s \in Sessions |-> 0]
  /\ client = [s \in Sessions |-> "none"] /\ keepAlive = {}
  /\ sinks = {} /\ sink = [p \in Ports |-> NoSink]
  /\ writer = [p \in Ports |-> "none"]
  /\ queue = [p \in Ports |-> [id |-> 0, rear |-> 0, elements |-> 0]]
  /\ infos = {} /\ pc = "idle" /\ dFrames = [p \in Ports |-> None]
  /\ consumed = [p \in Ports |-> "no"] /\ added = [p \in Ports |-> 0]
  /\ bad = FALSE /\ troubled = FALSE

-----------------------------------------------------------------------------
(* The sink of a port (QueueSink).                                         *)

(* startPlaying has called continuePlaying, without a frame.               *)
NewSink == [NoSink EXCEPT !.state = "live", !.reads = "dummy"]

ClosedSink == [NoSink EXCEPT !.state = "closed"]

setFrame(k, f) ==
  IF k.nextFrame THEN [k EXCEPT !.frame = f, !.nextFrame = FALSE] ELSE k

disconnected(k) == [k EXCEPT !.frame = None]

(* Without a frame it reads into a buffer of its own; with one that was    *)
(* filled already it waits, in a task, for the next one.                   *)
continuePlaying(k) ==
  CASE k.frame = None -> [k EXCEPT !.reads = "dummy", !.into = None]
    [] k.frame # None /\ k.nextFrame -> [k EXCEPT !.reads = "task", !.into = None]
    [] OTHER -> [k EXCEPT !.reads = "frame", !.into = k.frame]

(* Mutant of afterGettingFrame: the next read begins at once.              *)
readsAgain(k) ==
  [k EXCEPT !.reads = "dummy", !.into = None, !.nextFrame = @ \/ k.frame # None]

(* Mutant of afterGettingFrame: no task is scheduled for the next read.    *)
readsOnce(k) ==
  [k EXCEPT !.reads = "nothing", !.into = None, !.nextFrame = @ \/ k.frame # None]

(* What was read is for the frame that the sink has now, if any.           *)
afterGettingFrame(k) ==
  [k EXCEPT !.reads = "task", !.into = None, !.nextFrame = @ \/ k.frame # None]

-----------------------------------------------------------------------------
(* The worker.                                                             *)

(* A frame is forced out of the queue: of a full one the last is dropped.  *)
forceGetRear(q) ==
  IF q.elements = Slots - 1
  THEN [q EXCEPT !.rear = (@ + Slots - 1) % Slots, !.elements = @ - 1] ELSE q

connected(p) == writer[p] = "connected"

(* demandDestinationFrames, and what doProcessFrame does before the step.  *)
(* A writer that its reader has left is deleted.                           *)
begin ==
  /\ pc = "idle" /\ pc' = "step"
  /\ writer' = [p \in Ports |-> IF writer[p] = "left" THEN "none" ELSE writer[p]]
  /\ queue' = [p \in Ports |-> IF connected(p) THEN forceGetRear(queue[p]) ELSE queue[p]]
  /\ dFrames' = [p \in Ports |-> IF connected(p) THEN <<queue'[p].id, queue'[p].rear>> ELSE None]
  /\ consumed' = [p \in Ports |-> "no"]
  /\ sink' = [p \in Ports |->
                CASE writer[p] = "left" -> disconnected(sink[p])
                  [] connected(p) /\ p \in sinks -> setFrame(sink[p], dFrames'[p])
                  [] OTHER -> sink[p]]
  /\ bad' = (bad \/ \E p \in Ports : \/ writer[p] = "left" /\ sink[p].state # "live"
                                     \/ connected(p) /\ p \in sinks /\ sink[p].state # "live")
  /\ UNCHANGED <<sessionVars, sinks, infos, added, troubled>>

(* One step of the scheduler.                                              *)
Step == pc = "step" /\ pc' = "add"

quiet == Step /\ UNCHANGED <<sessionVars, sinkVars, writerVars, frameVars, bad, troubled>>

(* A frame arrives for a sink that reads; it is written where the read     *)
(* was asked to, even if the queue of that slot is gone.                   *)
arrive(p) ==
  /\ Step /\ session[sessionOf(p)] = "playing" /\ sink[p].state = "live"
  /\ sink[p].reads \in {"dummy", "frame"}
  /\ sink' = [sink EXCEPT ![p] = afterGettingFrame(sink[p])]
  /\ consumed' = IF sink[p].frame = None THEN consumed
                 ELSE [consumed EXCEPT ![p] = IF sink[p].into = sink[p].frame THEN "data"
                                                                              ELSE "blank"]
  /\ bad' = \/ bad
            \/ sink[p].reads = "frame" /\ (writer[p] = "none" \/ sink[p].into[1] # queue[p].id)
  /\ UNCHANGED <<sessionVars, sinks, writerVars, dFrames, troubled>>

task(p) ==
  /\ Step /\ sink[p].state = "live" /\ sink[p].reads = "task"
  /\ sink' = [sink EXCEPT ![p] = continuePlaying(sink[p])]
  /\ UNCHANGED <<sessionVars, sinks, writerVars, frameVars, bad, troubled>>

(* Frames that were received are added, if there is room.                  *)
addFrames ==
  /\ pc = "add" /\ pc' = "idle"
  /\ LET new == {p \in Ports : dFrames[p] # None /\ consumed[p] # "no" /\ connected(p)} IN
     /\ queue' = [p \in Ports |->
          IF p \in new /\ queue[p].elements < Slots - 1
          THEN [queue[p] EXCEPT !.rear = (@ + 1) % Slots, !.elements = @ + 1] ELSE queue[p]]
     /\ added' = [p \in Ports |-> IF p \in new THEN queue[p].id ELSE added[p]]
  /\ dFrames' = [p \in Ports |-> None] /\ consumed' = [p \in Ports |-> "no"]
  /\ UNCHANGED <<sessionVars, sinkVars, writer, infos, bad, troubled>>

(* The filter that reads the queue, an environment here.                   *)
removeFrame(p) ==
  /\ connected(p) /\ queue[p].elements > 0
  /\ queue' = [queue EXCEPT ![p].elements = @ - 1]
  /\ UNCHANGED <<sessionVars, sinkVars, writer, infos, added, frameVars, pc, bad, troubled>>

-----------------------------------------------------------------------------
(* Answers and timers of sessions (Handlers), each a step of the scheduler.*)

(* The sink of the subsession is made, plays, and is added to the map.     *)
addSubsessionSink(ps) ==
  /\ sink' = [p \in Ports |-> IF p \in ps THEN NewSink ELSE sink[p]]
  /\ sinks' = sinks \cup ps

(* setupNextSubsession: those that cannot be initiated are skipped.        *)
setupNextSubsession(s, n) ==
  \E k \in n .. Len(Subsessions[s]) + 1 :
    IF k > Len(Subsessions[s])
    THEN session' = [session EXCEPT ![s] = "play"] /\ todo' = [todo EXCEPT ![s] = 0]
    ELSE session' = [session EXCEPT ![s] = "setup"] /\ todo' = [todo EXCEPT ![s] = k]

continueAfterDESCRIBE(s) ==
  /\ Step /\ session[s] = "describe" /\ client[s] = "open"
  /\ setupNextSubsession(s, 1)
  /\ UNCHANGED <<client, keepAlive, sinkVars, writerVars, frameVars, bad, troubled>>

continueAfterSETUP(s) ==
  /\ Step /\ session[s] = "setup" /\ client[s] = "open"
  /\ \E ok \in BOOLEAN :
       addSubsessionSink(IF ok THEN {Subsessions[s][todo[s]]} ELSE {})
  /\ setupNextSubsession(s, todo[s] + 1)
  /\ UNCHANGED <<client, keepAlive, writerVars, frameVars, bad, troubled>>

continueAfterPLAY(s) ==
  /\ Step /\ session[s] = "play" /\ client[s] = "open"
  /\ session' = [session EXCEPT ![s] = "playing"]
  /\ \E alive \in SUBSET {s} : keepAlive' = keepAlive \cup alive
  /\ UNCHANGED <<todo, client, sinkVars, writerVars, frameVars, bad, troubled>>

(* The timer is set again each time; it uses the client of the session.    *)
checkSessionTimeoutBrokenServer(s) ==
  /\ Step /\ s \in keepAlive
  /\ bad' = (bad \/ client[s] = "closed")
  /\ UNCHANGED <<sessionVars, sinkVars, writerVars, frameVars, troubled>>

(* Sinks and client are closed, but the map of sinks, the session and its  *)
(* timer keep them.                                                        *)
shutdownStream(s) ==
  /\ Step /\ client[s] = "open"
  /\ \/ session[s] \in {"describe", "play"} /\ Trouble("refused", TRUE)
     \/ session[s] = "playing" /\ Trouble("ends", TRUE)
  /\ session' = [session EXCEPT ![s] = IF @ = "describe" THEN @ ELSE "over"]
  /\ client' = [client EXCEPT ![s] = "closed"]
  /\ sink' = [p \in Ports |-> IF p \in portsOf(s) /\ sink[p].state = "live"
                              THEN ClosedSink ELSE sink[p]]
  /\ UNCHANGED <<todo, keepAlive, sinks, writerVars, frameVars, bad>>

(* An RTCP BYE, or the source is closed: the sink is, but not in the map.  *)
subsessionAfterPlaying(p) ==
  /\ Step /\ Trouble("bye", TRUE)
  /\ session[sessionOf(p)] = "playing" /\ sink[p].state = "live"
  /\ sink' = [sink EXCEPT ![p] = ClosedSink]
  /\ UNCHANGED <<sessionVars, sinks, writerVars, frameVars, bad>>

-----------------------------------------------------------------------------
(* The control thread.  Events of a head filter are run by it, at once.    *)

(* By the URL of a server, or with its SDP: then there is no client, and   *)
(* all its sinks are made now.                                             *)
initiateSession(s, sdp) ==
  IF sdp THEN /\ session' = [session EXCEPT ![s] = "playing"] /\ UNCHANGED client
              /\ addSubsessionSink(portsOf(s))
         ELSE /\ session' = [session EXCEPT ![s] = "describe"]
              /\ client' = [client EXCEPT ![s] = "open"] /\ UNCHANGED sinkVars

addSession(s) ==
  /\ session[s] = "none"
  /\ \E sdp \in BOOLEAN : initiateSession(s, sdp)
  /\ UNCHANGED <<todo, keepAlive, writerVars, frameVars, pc, bad, troubled>>

(* The destructor of a session closes its sinks, if they are not yet.      *)
sessionDeleted(s) ==
  /\ sink' = [p \in Ports |-> IF p \in portsOf(s) THEN ClosedSink ELSE sink[p]]
  /\ session' = [session EXCEPT ![s] = "none"] /\ todo' = [todo EXCEPT ![s] = 0]
  /\ client' = [client EXCEPT ![s] = "none"] /\ keepAlive' = keepAlive \ {s}

(* Mutant of closes: the sinks stay in the map.                            *)
closesOnly(s) == {}

(* Sinks in the map are closed and erased, before their writer is deleted. *)
closes(s) == portsOf(s) \cap sinks

removeSession(s) ==
  /\ session[s] # "none"
  /\ LET in == CASE session[s] = "describe" -> "early"
                 [] client[s] = "none" -> "remove_sdp"
                 [] OTHER -> "remove_connected"
     IN Trouble(in, in # "remove_connected" \/ \E p \in portsOf(s) : writer[p] # "none")
  /\ sinks' = sinks \ closes(s)
  /\ writer' = [p \in Ports |-> IF p \in closes(s) THEN "none" ELSE writer[p]]
  /\ sessionDeleted(s)
  /\ bad' = \/ bad \/ session[s] = "describe" \/ client[s] # "open"
            \/ \E p \in closes(s) : writer[p] # "none" \/ sink[p].state # "live"
  /\ UNCHANGED <<queue, infos, added, frameVars, pc>>

(* The writer must have a sink.  The stream information is kept for ever;  *)
(* when it is looked for, so are sessions that have no SDP yet.            *)
connect(p) ==
  /\ writer[p] = "none" /\ p \in sinks /\ queue[p].id < MaxConnects
  /\ LET notDescribed == \E s \in Sessions : session[s] = "describe" IN
     /\ Trouble("early", p \notin infos /\ notDescribed)
     /\ bad' = (bad \/ (p \notin infos /\ notDescribed))
  /\ writer' = [writer EXCEPT ![p] = "connected"]
  /\ queue' = [queue EXCEPT ![p] = [id |-> @.id + 1, rear |-> 0, elements |-> 0]]
  /\ infos' = infos \cup {p}
  /\ UNCHANGED <<sessionVars, sinkVars, frameVars, added, pc>>

(* Nothing leaves while the worker uses its frames, see Connection.        *)
leaves(p) ==
  pc = "idle" /\ connected(p) /\ Trouble("leave_waiting", ~sink[p].nextFrame)

disconnectWriter(p) ==
  /\ leaves(p)
  /\ writer' = [writer EXCEPT ![p] = "none"]
  /\ sink' = [sink EXCEPT ![p] = disconnected(@)]
  /\ bad' = (bad \/ sink[p].state # "live")
  /\ UNCHANGED <<sessionVars, sinks, queue, infos, added, frameVars, pc>>

disconnectReader(p) ==
  /\ leaves(p)
  /\ writer' = [writer EXCEPT ![p] = "left"]
  /\ UNCHANGED <<sessionVars, sinkVars, queue, infos, added, frameVars, pc, bad>>

-----------------------------------------------------------------------------
Next ==
  \/ begin \/ quiet \/ addFrames
  \/ \E p \in Ports : \/ arrive(p) \/ task(p) \/ removeFrame(p) \/ subsessionAfterPlaying(p)
                      \/ connect(p) \/ disconnectWriter(p) \/ disconnectReader(p)
  \/ \E s \in Sessions : \/ continueAfterDESCRIBE(s) \/ continueAfterSETUP(s)
                         \/ continueAfterPLAY(s) \/ checkSessionTimeoutBrokenServer(s)
                         \/ shutdownStream(s) \/ addSession(s) \/ removeSession(s)

Spec == Init /\ [][Next]_vars

(* The filter is a server, run without end; the scheduler gives each task  *)
(* and each socket its turn, and frames keep arriving.                     *)
Fairness ==
  /\ WF_vars(begin) /\ WF_vars(quiet) /\ WF_vars(addFrames)
  /\ \A p \in Ports : SF_vars(task(p)) /\ SF_vars(arrive(p))

FairSpec == Spec /\ Fairness

-----------------------------------------------------------------------------
(* A sink that began to read into its own buffer is given a frame          *)
(* meanwhile, and then marks it received although nothing is in it: this   *)
(* happens to the first frame of a connection and to no other.             *)
OnlyFirstBlank ==
  \A p \in Ports : consumed[p] = "blank" /\ ~troubled => added[p] # queue[p].id

(* The network writes into the slot at the rear of the queue that the port *)
(* is connected to now, which the reader cannot see, however often the     *)
(* queue overflowed or was replaced while the read waited.                 *)
ReadsIntoRear ==
  \A p \in Ports : 
    sink[p].reads = "frame" /\ ~troubled => writer[p] # "none" /\ sink[p].into = rearOf(p)

(* No sink, client, session or queue is used that is freed or not there:   *)
(* the map of sinks, the sessions, the writers and the timers, which know  *)
(* each other by port only, go together.                                   *)
NothingFreed == bad => troubled

(* A frame that the reader takes was received from the network, but for    *)
(* the first one, by a sink that is there.                                 *)
FramesReceived == TypeOK /\ OnlyFirstBlank /\ ReadsIntoRear /\ NothingFreed

(* A port that is connected, at first or again, is sent frames that were   *)
(* received, as long as its session plays.                                 *)
Resumes ==
  \A p \in Ports :
    connected(p) /\ session[sessionOf(p)] = "playing" /\ ~troubled
      ~> \/ pc = "add" /\ consumed[p] = "data"
         \/ ~connected(p) \/ troubled

(* The same, also for a port whose writer left while its sink waited for a *)
(* frame: the message "no writer connected yet", for reads into the buffer *)
(* of the sink, says that a connected sink reads into frames.              *)
ReceivesAgain ==
  \A p \in Ports :
    connected(p) /\ session[sessionOf(p)] = "playing"
      ~> \/ pc = "add" /\ consumed[p] = "data"
         \/ ~connected(p) \/ sink[p].state # "live"
=============================================================================
