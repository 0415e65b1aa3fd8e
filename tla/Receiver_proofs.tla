-------------------------- MODULE Receiver_proofs --------------------------
(***************************************************************************)
(* Proofs about the receiver, for any sessions, ports and queues, as long  *)
(* as nothing of Troublesome happens.  What the sink of a port does and    *)
(* what the writer of the port does are tied by PortOK; the properties     *)
(* follow from it.                                                         *)
(***************************************************************************)
EXTENDS Receiver, TLAPS

(* A port belongs to one session, and to it once.                          *)
OwnPorts ==
  /\ Subsessions \in [Sessions -> Seq(Ports)] /\ MaxConnects \in Nat
  /\ \A s \in Sessions : \A i, j \in 1 .. Len(Subsessions[s]) :
       Subsessions[s][i] = Subsessions[s][j] => i = j
  /\ \A s, t \in Sessions : s # t => portsOf(s) \cap portsOf(t) = {}

Assumption == ReceiverAssumption /\ OwnPorts

(* The sinks of a session are made one by one, in its order.               *)
SinksInOrder ==
  \A s \in Sessions :
    /\ session[s] \in {"none", "describe"} => portsOf(s) \cap sinks = {}
    /\ session[s] = "setup" =>
         /\ todo[s] \in 1 .. Len(Subsessions[s])
         /\ \A i \in todo[s] .. Len(Subsessions[s]) : Subsessions[s][i] \notin sinks

(* What the map of sinks, the sinks and the writers say of a port agrees.  *)
SinkThere(p) ==
  /\ sink[p].state = "live" <=> p \in sinks
  /\ p \notin sinks => writer[p] = "none"
  /\ writer[p] = "none" => sink[p].frame = None /\ sink[p].nextFrame
  /\ writer[p] # "none" => queue[p].id > 0
  /\ writer[p] = "left" => pc = "idle" /\ sink[p].nextFrame

(* A sink that still waits for its frame has the one at the rear, which    *)
(* stays there because the queue was not full when it was demanded.        *)
WaitsForRear(p) ==
  /\ ~sink[p].nextFrame => /\ connected(p) /\ sink[p].frame = rearOf(p)
                           /\ queue[p].elements < Slots - 1
  /\ sink[p].reads = "frame" => ~sink[p].nextFrame /\ sink[p].into = sink[p].frame

(* A connected sink reads into its own buffer only before its first frame. *)
BlankOnce(p) ==
  /\ added[p] <= queue[p].id
  /\ connected(p) /\ (sink[p].reads = "dummy" \/ sink[p].frame = None)
       => added[p] # queue[p].id
  /\ consumed[p] # "no" => /\ connected(p) /\ pc = "add" /\ sink[p].frame # None
                           /\ sink[p].nextFrame /\ sink[p].reads = "task"
  /\ consumed[p] = "blank" => added[p] # queue[p].id

PortsOK == \A p \in Ports : SinkThere(p) /\ WaitsForRear(p) /\ BlankOnce(p)

Sound == /\ PortsOK
         /\ \A s \in Sessions : client[s] # "closed"
         /\ ~bad

IInv == TypeOK /\ SinksInOrder /\ (~troubled => Sound)

-----------------------------------------------------------------------------
(* What the proofs use of ports, slots and sinks.                          *)

LEMMA PortsOf ==
  ASSUME Assumption, NEW s \in Sessions
  PROVE  /\ portsOf(s) = {Subsessions[s][i] : i \in 1 .. Len(Subsessions[s])}
         /\ portsOf(s) \subseteq Ports
         /\ Len(Subsessions[s]) \in Nat
         /\ \A i \in 1 .. Len(Subsessions[s]) : Subsessions[s][i] \in Ports
BY DEF Assumption, OwnPorts, portsOf, ToSet

(* The two places of a frame tell None from every slot of a connection.    *)
LEMMA SlotsTyped ==
  ASSUME Assumption
  PROVE  /\ None \in Frames
         /\ \A p \in Ports : TypeOK => rearOf(p) \in Frames
         /\ \A p \in Ports : TypeOK /\ queue[p].id > 0 => rearOf(p) # None
BY DEF Assumption, ReceiverAssumption, OwnPorts, None, Frames, TypeOK, rearOf

SinkSet == [state : {"none", "live", "closed"}, frame : Frames, nextFrame : BOOLEAN,
            into : Frames, reads : {"nothing", "task", "dummy", "frame"}]

QueueSet == [id : 0 .. MaxConnects, rear : 0 .. Slots - 1, elements : 0 .. Slots - 1]

LEMMA SinksTyped ==
  ASSUME Assumption
  PROVE  /\ NoSink \in SinkSet /\ NewSink \in SinkSet /\ ClosedSink \in SinkSet
         /\ \A k \in SinkSet : /\ \A f \in Frames : setFrame(k, f) \in SinkSet
                               /\ disconnected(k) \in SinkSet
                               /\ continuePlaying(k) \in SinkSet
                               /\ afterGettingFrame(k) \in SinkSet
<1>1. None \in Frames
  BY SlotsTyped
<1>2. NoSink \in SinkSet /\ NewSink \in SinkSet /\ ClosedSink \in SinkSet
  BY <1>1 DEF NoSink, NewSink, ClosedSink, SinkSet
<1>3. ASSUME NEW k \in SinkSet, NEW f \in Frames PROVE setFrame(k, f) \in SinkSet
  BY DEF setFrame, SinkSet
<1>4. ASSUME NEW k \in SinkSet PROVE disconnected(k) \in SinkSet
  BY <1>1 DEF disconnected, SinkSet
<1>5. ASSUME NEW k \in SinkSet PROVE continuePlaying(k) \in SinkSet
  BY <1>1 DEF continuePlaying, SinkSet
<1>6. ASSUME NEW k \in SinkSet PROVE afterGettingFrame(k) \in SinkSet
  BY <1>1 DEF afterGettingFrame, SinkSet
<1> QED
  BY <1>2, <1>3, <1>4, <1>5, <1>6

LEMMA QueuesTyped ==
  ASSUME Assumption, TypeOK, NEW p \in Ports
  PROVE  LET q == forceGetRear(queue[p]) IN
         /\ q \in QueueSet
         /\ q.id = queue[p].id /\ q.elements < Slots - 1
         /\ queue[p].elements < Slots - 1 => q = queue[p]
<1>1. Slots \in Nat /\ Slots > 1 /\ queue[p] \in QueueSet
  BY DEF Assumption, ReceiverAssumption, TypeOK, QueueSet
<1>2. \A r \in 0 .. Slots - 1 : (r + Slots - 1) % Slots \in 0 .. Slots - 1
  BY <1>1
<1>3. \A q \in QueueSet :
        /\ forceGetRear(q) \in QueueSet /\ forceGetRear(q).id = q.id
        /\ forceGetRear(q).elements < Slots - 1
        /\ q.elements < Slots - 1 => forceGetRear(q) = q
  <2> SUFFICES ASSUME NEW q \in QueueSet
               PROVE  /\ forceGetRear(q) \in QueueSet /\ forceGetRear(q).id = q.id
                      /\ forceGetRear(q).elements < Slots - 1
                      /\ q.elements < Slots - 1 => forceGetRear(q) = q
    OBVIOUS
  <2>1. CASE q.elements = Slots - 1
    <3>1. forceGetRear(q) = [id |-> q.id, rear |-> (q.rear + Slots - 1) % Slots,
                             elements |-> q.elements - 1]
      BY <2>1 DEF forceGetRear, QueueSet
    <3>2. (q.rear + Slots - 1) % Slots \in 0 .. Slots - 1
      BY <1>2 DEF QueueSet
    <3> QED
      BY <1>1, <2>1, <3>1, <3>2 DEF QueueSet
  <2>2. CASE q.elements # Slots - 1
    BY <1>1, <2>2 DEF forceGetRear, QueueSet
  <2> QED
    BY <2>1, <2>2
<1> QED
  BY <1>1, <1>3 DEF QueueSet

-----------------------------------------------------------------------------
LEMMA InitIInv == ASSUME Assumption PROVE Init => IInv
<1> SUFFICES ASSUME Init PROVE IInv
  OBVIOUS
<1>1. TypeOK
  <2>1. sink \in [Ports -> SinkSet] /\ dFrames \in [Ports -> Frames]
    BY SinksTyped, SlotsTyped DEF Init
  <2>2. queue \in [Ports -> [id : 0 .. MaxConnects, rear : 0 .. Slots - 1,
                             elements : 0 .. Slots - 1]]
    BY DEF Init, Assumption, ReceiverAssumption, OwnPorts
  <2>3. todo \in [Sessions -> Nat] /\ \A s \in Sessions : todo[s] <= Len(Subsessions[s])
    BY PortsOf DEF Init
  <2>4. added \in [Ports -> 0 .. MaxConnects]
    BY DEF Init, Assumption, OwnPorts
  <2> QED
    BY <2>1, <2>2, <2>3, <2>4 DEF Init, TypeOK, SinkSet
<1>2. SinksInOrder
  BY DEF Init, SinksInOrder
<1>3. Sound
  BY DEF Init, Sound, PortsOK, SinkThere, WaitsForRear, BlankOnce, NoSink, connected
<1> QED
  BY <1>1, <1>2, <1>3 DEF IInv

(* A sink that waits keeps its frame, the others get the one at the rear.  *)
LEMMA BeginIInv == ASSUME Assumption, IInv, begin PROVE IInv'
<1>1. TypeOK'
  <2>1. queue' \in [Ports -> QueueSet]
    BY QueuesTyped DEF IInv, TypeOK, QueueSet, begin
  <2>2. dFrames' \in [Ports -> Frames]
    BY <2>1, SlotsTyped DEF begin, Frames, QueueSet
  <2>3. sink' \in [Ports -> SinkSet]
    <3>1. sink \in [Ports -> SinkSet]
      BY DEF IInv, TypeOK, SinkSet
    <3> QED
      BY <2>2, <3>1, SinksTyped DEF begin
  <2> QED
    BY <2>1, <2>2, <2>3 DEF IInv, TypeOK, begin, SinkSet, QueueSet, sessionVars
<1>2. SinksInOrder'
  BY DEF IInv, SinksInOrder, begin, sessionVars
<1>3. ASSUME ~troubled' PROVE Sound'
  <2>1. ~troubled /\ Sound
    BY <1>3 DEF begin, IInv
  <2>2. ASSUME NEW p \in Ports PROVE (SinkThere(p) /\ WaitsForRear(p) /\ BlankOnce(p))'
    <3>0. SinkThere(p) /\ WaitsForRear(p) /\ BlankOnce(p)
      BY <2>1 DEF Sound, PortsOK
    <3>1. /\ consumed'[p] = "no" /\ added' = added /\ sinks' = sinks /\ pc' = "step"
          /\ writer'[p] = IF writer[p] = "left" THEN "none" ELSE writer[p]
      BY DEF begin
    <3>2. CASE writer[p] = "left"
      <4>1. sink'[p] = disconnected(sink[p]) /\ queue'[p] = queue[p]
        BY <3>2 DEF begin, connected
      <4>2. sink[p].nextFrame /\ sink'[p].frame = None /\ sink'[p].nextFrame
              /\ sink'[p].state = sink[p].state /\ sink'[p].reads = sink[p].reads
        BY <3>0, <3>2, <4>1 DEF SinkThere, disconnected, IInv, TypeOK
      <4> QED
        BY <3>0, <3>1, <3>2, <4>1, <4>2 DEF SinkThere, WaitsForRear, BlankOnce, connected
    <3>3. CASE writer[p] = "none"
      <4>1. sink'[p] = sink[p] /\ queue'[p] = queue[p]
        BY <3>3 DEF begin, connected
      <4> QED
        BY <3>0, <3>1, <3>3, <4>1 DEF SinkThere, WaitsForRear, BlankOnce, connected
    <3>4. CASE connected(p)
      <4>1. p \in sinks
        BY <3>0, <3>4 DEF SinkThere, connected
      <4>2. /\ queue'[p] = forceGetRear(queue[p])
            /\ dFrames'[p] = <<queue'[p].id, queue'[p].rear>>
            /\ sink'[p] = setFrame(sink[p], dFrames'[p])
        BY <3>4, <4>1 DEF begin, connected
      <4>3. /\ queue'[p].id = queue[p].id /\ queue'[p].elements < Slots - 1
            /\ queue[p].elements < Slots - 1 => queue'[p] = queue[p]
        BY <4>2, QueuesTyped DEF IInv
      <4>4. /\ dFrames'[p] # None /\ dFrames'[p] = rearOf(p)'
        BY <3>0, <3>4, <4>2, <4>3 DEF SinkThere, connected, None, rearOf, IInv, TypeOK
      <4>5. sink'[p].state = sink[p].state /\ sink'[p].reads = sink[p].reads
              /\ sink'[p].into = sink[p].into /\ ~sink'[p].nextFrame
              /\ sink'[p].frame = IF sink[p].nextFrame THEN dFrames'[p] ELSE sink[p].frame
        BY <4>2 DEF setFrame, IInv, TypeOK
      <4>6. sink'[p].frame = rearOf(p)'
        BY <3>0, <4>3, <4>4, <4>5 DEF WaitsForRear, rearOf
      <4> QED
        BY <3>0, <3>1, <3>4, <4>1, <4>3, <4>4, <4>5, <4>6
           DEF SinkThere, WaitsForRear, BlankOnce, connected
    <3> QED
      BY <3>2, <3>3, <3>4 DEF IInv, TypeOK, connected
  <2>3. ~bad' /\ client' = client
    BY <2>1 DEF begin, Sound, PortsOK, SinkThere, connected, sessionVars
  <2> QED
    BY <2>1, <2>2, <2>3 DEF Sound, PortsOK
<1> QED
  BY <1>1, <1>2, <1>3 DEF IInv

LEMMA QuietIInv == ASSUME Assumption, IInv, quiet PROVE IInv'
<1>1. TypeOK' /\ SinksInOrder'
  BY DEF IInv, TypeOK, SinksInOrder, quiet, Step, sessionVars, sinkVars, writerVars, frameVars
<1>2. ASSUME ~troubled' PROVE Sound'
  BY <1>2
     DEF IInv, quiet, Step, sessionVars, sinkVars, writerVars, frameVars, Sound, PortsOK,
         SinkThere, WaitsForRear, BlankOnce, connected, rearOf
<1> QED
  BY <1>1, <1>2 DEF IInv

(* A blank frame is the first, because it was read into the sink's buffer. *)
LEMMA ArriveIInv == ASSUME Assumption, IInv, NEW p \in Ports, arrive(p) PROVE IInv'
<1> DEFINE k == sink[p]
<1>1. TypeOK'
  <2>1. sink \in [Ports -> SinkSet]
    BY DEF IInv, TypeOK, SinkSet
  <2>2. sink' \in [Ports -> SinkSet]
    BY <2>1, SinksTyped DEF arrive
  <2>3. consumed' \in [Ports -> {"no", "blank", "data"}]
    BY DEF IInv, TypeOK, arrive
  <2> QED
    BY <2>2, <2>3 DEF IInv, TypeOK, arrive, Step, SinkSet, sessionVars, writerVars
<1>2. SinksInOrder'
  BY DEF IInv, SinksInOrder, arrive, sessionVars
<1>3. ASSUME ~troubled' PROVE Sound'
  <2>1. ~troubled /\ Sound
    BY <1>3 DEF arrive, IInv
  <2>2. ASSUME NEW o \in Ports PROVE writer[o] # "left" /\ consumed[o] = "no"
    BY <2>1 DEF arrive, Step, Sound, PortsOK, SinkThere, BlankOnce
  <2>3. /\ sink' = [sink EXCEPT ![p] = afterGettingFrame(sink[p])]
        /\ \A o \in Ports \ {p} : consumed'[o] = consumed[o] /\ sink'[o] = sink[o]
        /\ pc' = "add" /\ writer' = writer /\ queue' = queue /\ added' = added /\ sinks' = sinks
        /\ client' = client
    BY DEF arrive, Step, IInv, TypeOK, sessionVars, writerVars
  <2>4. SinkThere(p) /\ WaitsForRear(p) /\ BlankOnce(p)
    BY <2>1 DEF Sound, PortsOK
  <2>5. k.frame # None => connected(p)
    BY <2>2, <2>4 DEF SinkThere, IInv, TypeOK, connected
  <2>6. k.frame # None \/ k.nextFrame
    BY <2>4, SlotsTyped DEF SinkThere, WaitsForRear, connected, IInv
  <2>7. /\ sink'[p].state = k.state /\ sink'[p].frame = k.frame /\ sink'[p].nextFrame
        /\ sink'[p].reads = "task"
    <3>1. k \in SinkSet /\ sink'[p] = afterGettingFrame(k)
      BY <2>3 DEF IInv, TypeOK, SinkSet
    <3>2. afterGettingFrame(k).nextFrame = (k.nextFrame \/ k.frame # None)
      BY <3>1 DEF afterGettingFrame, SinkSet
    <3>3. afterGettingFrame(k).nextFrame
      BY <2>6, <3>2
    <3>4. /\ afterGettingFrame(k).state = k.state /\ afterGettingFrame(k).frame = k.frame
          /\ afterGettingFrame(k).reads = "task"
      BY <3>1 DEF afterGettingFrame, SinkSet
    <3> QED
      BY <3>1, <3>3, <3>4
  <2>8. consumed'[p] = "blank" => added[p] # queue[p].id
    <3>1. SUFFICES ASSUME consumed'[p] = "blank" PROVE added[p] # queue[p].id
      OBVIOUS
    <3>2. k.frame # None /\ k.into # k.frame
      BY <2>2, <3>1 DEF arrive, IInv, TypeOK
    <3>3. k.reads = "dummy"
      BY <2>4, <3>2 DEF WaitsForRear, arrive
    <3> QED
      BY <2>4, <2>5, <3>2, <3>3 DEF BlankOnce
  <2>9. consumed'[p] # "no" => k.frame # None
    BY <2>2 DEF arrive
  <2>10. (SinkThere(p) /\ WaitsForRear(p) /\ BlankOnce(p))'
    <3>1. SinkThere(p)'
      BY <2>2, <2>3, <2>4, <2>7 DEF SinkThere
    <3>2. WaitsForRear(p)'
      BY <2>7 DEF WaitsForRear
    <3>3. BlankOnce(p)'
      BY <2>3, <2>4, <2>5, <2>7, <2>8, <2>9 DEF BlankOnce, connected
    <3> QED
      BY <3>1, <3>2, <3>3
  <2>11. ASSUME NEW o \in Ports \ {p} PROVE (SinkThere(o) /\ WaitsForRear(o) /\ BlankOnce(o))'
    BY <2>1, <2>2, <2>3
       DEF Sound, PortsOK, SinkThere, WaitsForRear, BlankOnce, connected, rearOf
  <2>12. ~bad'
    <3>1. k.reads = "frame" => writer[p] = "connected" /\ k.into = rearOf(p)
      BY <2>4 DEF WaitsForRear, connected
    <3> QED
      BY <2>1, <3>1 DEF arrive, Sound, rearOf
  <2> QED
    BY <2>1, <2>3, <2>10, <2>11, <2>12 DEF Sound, PortsOK
<1> QED
  BY <1>1, <1>2, <1>3 DEF IInv

(* A task reads into the frame that the sink waits for, or, before the     *)
(* first one of a connection, into the sink's own buffer.                  *)
LEMMA TaskIInv == ASSUME Assumption, IInv, NEW p \in Ports, task(p) PROVE IInv'
<1> DEFINE k == sink[p]
<1>1. TypeOK'
  <2>1. sink \in [Ports -> SinkSet]
    BY DEF IInv, TypeOK, SinkSet
  <2>2. sink' \in [Ports -> SinkSet]
    BY <2>1, SinksTyped DEF task
  <2> QED
    BY <2>2 DEF IInv, TypeOK, task, Step, SinkSet, sessionVars, writerVars, frameVars
<1>2. SinksInOrder'
  BY DEF IInv, SinksInOrder, task, sessionVars
<1>3. ASSUME ~troubled' PROVE Sound'
  <2>1. ~troubled /\ Sound
    BY <1>3 DEF task, IInv
  <2>2. ASSUME NEW o \in Ports PROVE writer[o] # "left" /\ consumed[o] = "no"
    BY <2>1 DEF task, Step, Sound, PortsOK, SinkThere, BlankOnce
  <2>3. /\ sink' = [sink EXCEPT ![p] = continuePlaying(sink[p])]
        /\ \A o \in Ports \ {p} : sink'[o] = sink[o]
        /\ consumed' = consumed /\ bad' = bad
        /\ pc' = "add" /\ writer' = writer /\ queue' = queue /\ added' = added /\ sinks' = sinks
        /\ client' = client
    BY DEF task, Step, IInv, TypeOK, sessionVars, writerVars, frameVars
  <2>4. SinkThere(p) /\ WaitsForRear(p) /\ BlankOnce(p)
    BY <2>1 DEF Sound, PortsOK
  <2>5. /\ sink'[p].state = k.state /\ sink'[p].frame = k.frame
        /\ sink'[p].nextFrame = k.nextFrame
        /\ sink'[p].reads = "frame" => ~k.nextFrame /\ sink'[p].into = k.frame
        /\ sink'[p].reads = "dummy" => k.frame = None
    BY <2>3 DEF continuePlaying, IInv, TypeOK
  <2>6. SinkThere(p)'
    BY <2>2, <2>3, <2>4, <2>5 DEF SinkThere
  <2>7. WaitsForRear(p)'
    BY <2>3, <2>4, <2>5 DEF WaitsForRear, connected, rearOf
  <2>8. BlankOnce(p)'
    BY <2>2, <2>3, <2>4, <2>5 DEF BlankOnce, connected
  <2>9. ASSUME NEW o \in Ports \ {p} PROVE (SinkThere(o) /\ WaitsForRear(o) /\ BlankOnce(o))'
    BY <2>1, <2>2, <2>3
       DEF Sound, PortsOK, SinkThere, WaitsForRear, BlankOnce, connected, rearOf
  <2> QED
    BY <2>1, <2>3, <2>6, <2>7, <2>8, <2>9 DEF Sound, PortsOK
<1> QED
  BY <1>1, <1>2, <1>3 DEF IInv

(* A frame is added only of a sink that has read into the one at the rear. *)
LEMMA AddFramesIInv == ASSUME Assumption, IInv, addFrames PROVE IInv'
<1> DEFINE new == {p \in Ports : dFrames[p] # None /\ consumed[p] # "no" /\ connected(p)}
<1>1. /\ queue' = [p \in Ports |->
           IF p \in new /\ queue[p].elements < Slots - 1
           THEN [queue[p] EXCEPT !.rear = (@ + 1) % Slots, !.elements = @ + 1] ELSE queue[p]]
      /\ added' = [p \in Ports |-> IF p \in new THEN queue[p].id ELSE added[p]]
      /\ dFrames' = [p \in Ports |-> None] /\ consumed' = [p \in Ports |-> "no"]
      /\ pc' = "idle" /\ sinks' = sinks /\ sink' = sink /\ writer' = writer
      /\ session' = session /\ todo' = todo /\ client' = client /\ keepAlive' = keepAlive
      /\ infos' = infos /\ bad' = bad /\ troubled' = troubled
  BY DEF addFrames, sessionVars, sinkVars
<1>2. /\ queue' \in [Ports -> QueueSet]
      /\ \A p \in Ports : /\ queue'[p].id = queue[p].id
                          /\ p \notin new => queue'[p] = queue[p]
  <2>1. Slots \in Nat /\ Slots > 1 /\ queue \in [Ports -> QueueSet]
    BY DEF Assumption, ReceiverAssumption, IInv, TypeOK, QueueSet
  <2>2. \A r \in 0 .. Slots - 1 : (r + 1) % Slots \in 0 .. Slots - 1
    BY <2>1
  <2>3. ASSUME NEW q \in QueueSet, q.elements < Slots - 1
        PROVE  /\ [q EXCEPT !.rear = (@ + 1) % Slots, !.elements = @ + 1] \in QueueSet
               /\ [q EXCEPT !.rear = (@ + 1) % Slots, !.elements = @ + 1].id = q.id
    <3>1. ASSUME NEW r \in 0 .. Slots - 1, NEW e \in 0 .. Slots - 1
          PROVE  /\ [q EXCEPT !.rear = r, !.elements = e] \in QueueSet
                 /\ [q EXCEPT !.rear = r, !.elements = e].id = q.id
      BY DEF QueueSet
    <3>2. (q.rear + 1) % Slots \in 0 .. Slots - 1
      BY <2>2 DEF QueueSet
    <3>3. q.elements + 1 \in 0 .. Slots - 1
      BY <2>1, <2>3 DEF QueueSet
    <3> QED
      BY <3>1, <3>2, <3>3
  <2> HIDE DEF new
  <2> QED
    BY <1>1, <2>1, <2>3
<1>3. TypeOK'
  BY <1>1, <1>2, SlotsTyped DEF IInv, TypeOK, QueueSet
<1>4. SinksInOrder'
  BY <1>1 DEF IInv, SinksInOrder
<1>5. ASSUME ~troubled' PROVE Sound'
  <2>1. ~troubled /\ Sound
    BY <1>1, <1>5 DEF IInv
  <2>2. ASSUME NEW p \in Ports PROVE (SinkThere(p) /\ WaitsForRear(p) /\ BlankOnce(p))'
    <3>1. SinkThere(p) /\ WaitsForRear(p) /\ BlankOnce(p)
      BY <2>1 DEF Sound, PortsOK
    <3>2. SinkThere(p)'
      BY <1>1, <1>2, <3>1 DEF SinkThere
    <3>3. p \in new => /\ sink[p].nextFrame /\ sink[p].reads = "task"
                       /\ sink[p].frame # None
      BY <3>1 DEF BlankOnce
    <3>4. WaitsForRear(p)'
      BY <1>1, <1>2, <3>1, <3>3 DEF WaitsForRear, connected, rearOf
    <3>5. added'[p] = IF p \in new THEN queue[p].id ELSE added[p]
      BY <1>1
    <3>6. BlankOnce(p)'
      <4>1. added'[p] <= queue'[p].id
        BY <1>2, <3>1, <3>5 DEF BlankOnce, IInv, TypeOK
      <4>2. connected(p) /\ (sink[p].reads = "dummy" \/ sink[p].frame = None)
              => added'[p] # queue'[p].id
        BY <1>2, <3>1, <3>3, <3>5 DEF BlankOnce
      <4>3. consumed'[p] = "no"
        BY <1>1
      <4> QED
        BY <1>1, <4>1, <4>2, <4>3 DEF BlankOnce, connected
    <3> QED
      BY <3>2, <3>4, <3>6
  <2> QED
    BY <1>1, <2>1, <2>2 DEF Sound, PortsOK
<1> QED
  BY <1>3, <1>4, <1>5 DEF IInv

LEMMA RemoveFrameIInv == ASSUME Assumption, IInv, NEW p \in Ports, removeFrame(p) PROVE IInv'
<1>1. /\ queue' = [queue EXCEPT ![p].elements = @ - 1] /\ queue[p].elements > 0
      /\ pc' = pc /\ sinks' = sinks /\ sink' = sink /\ writer' = writer
      /\ session' = session /\ todo' = todo /\ client' = client /\ keepAlive' = keepAlive
      /\ infos' = infos /\ bad' = bad /\ troubled' = troubled /\ added' = added
      /\ dFrames' = dFrames /\ consumed' = consumed
  BY DEF removeFrame, sessionVars, sinkVars, frameVars
<1>2. /\ queue' \in [Ports -> QueueSet]
      /\ \A o \in Ports : /\ queue'[o].id = queue[o].id /\ queue'[o].rear = queue[o].rear
                          /\ queue'[o].elements <= queue[o].elements
  <2>1. queue \in [Ports -> QueueSet]
    BY DEF IInv, TypeOK, QueueSet
  <2>2. ASSUME NEW q \in QueueSet, q.elements > 0
        PROVE  /\ [q EXCEPT !.elements = @ - 1] \in QueueSet
               /\ [q EXCEPT !.elements = @ - 1].id = q.id
               /\ [q EXCEPT !.elements = @ - 1].rear = q.rear
               /\ [q EXCEPT !.elements = @ - 1].elements <= q.elements
    BY <2>2 DEF QueueSet, Assumption, ReceiverAssumption
  <2>3. /\ queue'[p] = [queue[p] EXCEPT !.elements = @ - 1]
        /\ \A o \in Ports \ {p} : queue'[o] = queue[o]
        /\ DOMAIN queue' = Ports /\ queue' = [o \in DOMAIN queue' |-> queue'[o]]
    BY <1>1, <2>1
  <2>4. ASSUME NEW o \in Ports PROVE queue[o].elements <= queue[o].elements
    BY <2>1 DEF QueueSet, Assumption, ReceiverAssumption
  <2> QED
    BY <1>1, <2>1, <2>2, <2>3, <2>4
<1>3. TypeOK'
  BY <1>1, <1>2 DEF IInv, TypeOK, QueueSet
<1>4. SinksInOrder'
  BY <1>1 DEF IInv, SinksInOrder
<1>5. ASSUME ~troubled' PROVE Sound'
  <2>1. ~troubled /\ Sound
    BY <1>1, <1>5 DEF IInv
  <2>2. ASSUME NEW o \in Ports PROVE (SinkThere(o) /\ WaitsForRear(o) /\ BlankOnce(o))'
    <3>1. SinkThere(o) /\ WaitsForRear(o) /\ BlankOnce(o)
      BY <2>1 DEF Sound, PortsOK
    <3>2. queue'[o].elements \in Int /\ queue[o].elements \in Int /\ Slots \in Int
      BY <1>2 DEF IInv, TypeOK, QueueSet, Assumption, ReceiverAssumption
    <3> QED
      BY <1>1, <1>2, <3>1, <3>2 DEF SinkThere, WaitsForRear, BlankOnce, connected, rearOf
  <2> QED
    BY <1>1, <2>1, <2>2 DEF Sound, PortsOK
<1> QED
  BY <1>3, <1>4, <1>5 DEF IInv

-----------------------------------------------------------------------------
(* The answers of servers.                                                 *)

(* Whatever subsessions are skipped, the next one is after those that have *)
(* a sink.                                                                 *)
LEMMA NextSubsession ==
  ASSUME Assumption, TypeOK, NEW s \in Sessions, NEW n \in Nat \ {0}, setupNextSubsession(s, n)
  PROVE  /\ session' \in [Sessions -> {"none", "describe", "setup", "play", "playing", "over"}]
         /\ todo' \in [Sessions -> Nat] /\ \A t \in Sessions : todo'[t] <= Len(Subsessions[t])
         /\ \A t \in Sessions \ {s} : session'[t] = session[t] /\ todo'[t] = todo[t]
         /\ session'[s] \in {"setup", "play"}
         /\ session'[s] = "setup" => todo'[s] \in n .. Len(Subsessions[s])
<1>1. PICK k \in n .. Len(Subsessions[s]) + 1 :
        IF k > Len(Subsessions[s])
        THEN session' = [session EXCEPT ![s] = "play"] /\ todo' = [todo EXCEPT ![s] = 0]
        ELSE session' = [session EXCEPT ![s] = "setup"] /\ todo' = [todo EXCEPT ![s] = k]
  BY DEF setupNextSubsession
<1>2. \A t \in Sessions : Len(Subsessions[t]) \in Nat
  BY PortsOf
<1>3. CASE k > Len(Subsessions[s])
  <2>1. session' = [session EXCEPT ![s] = "play"] /\ todo' = [todo EXCEPT ![s] = 0]
    BY <1>1, <1>3
  <2> QED
    BY <1>2, <2>1 DEF TypeOK
<1>4. CASE ~(k > Len(Subsessions[s]))
  <2>1. session' = [session EXCEPT ![s] = "setup"] /\ todo' = [todo EXCEPT ![s] = k]
    BY <1>1, <1>4
  <2>2. k \in n .. Len(Subsessions[s]) /\ k \in Nat
    BY <1>2, <1>4
  <2> QED
    BY <1>2, <2>1, <2>2 DEF TypeOK
<1> QED
  BY <1>3, <1>4

LEMMA DescribeIInv ==
  ASSUME Assumption, IInv, NEW s \in Sessions, continueAfterDESCRIBE(s) PROVE IInv'
<1>1. /\ pc = "step" /\ pc' = "add" /\ sinks' = sinks /\ sink' = sink /\ writer' = writer
      /\ client' = client /\ keepAlive' = keepAlive /\ queue' = queue
      /\ infos' = infos /\ bad' = bad /\ troubled' = troubled /\ added' = added
      /\ dFrames' = dFrames /\ consumed' = consumed
  BY DEF continueAfterDESCRIBE, Step, sinkVars, writerVars, frameVars
<1>2. /\ session' \in [Sessions -> {"none", "describe", "setup", "play", "playing", "over"}]
      /\ todo' \in [Sessions -> Nat] /\ \A t \in Sessions : todo'[t] <= Len(Subsessions[t])
      /\ \A t \in Sessions \ {s} : session'[t] = session[t] /\ todo'[t] = todo[t]
      /\ session'[s] \in {"setup", "play"}
      /\ session'[s] = "setup" => todo'[s] \in 1 .. Len(Subsessions[s])
  BY NextSubsession DEF continueAfterDESCRIBE, IInv
<1>3. TypeOK'
  BY <1>1, <1>2 DEF IInv, TypeOK
<1>4. SinksInOrder'
  <2>1. \A i \in 1 .. Len(Subsessions[s]) : Subsessions[s][i] \notin sinks
    BY PortsOf DEF IInv, SinksInOrder, continueAfterDESCRIBE
  <2>2. todo'[s] \in Nat /\ Len(Subsessions[s]) \in Nat
    BY <1>2, PortsOf
  <2> QED
    BY <1>1, <1>2, <2>1, <2>2 DEF IInv, SinksInOrder
<1>5. ASSUME ~troubled' PROVE Sound'
  BY <1>1, <1>5
     DEF IInv, Sound, PortsOK, SinkThere, WaitsForRear, BlankOnce, connected, rearOf
<1> QED
  BY <1>3, <1>4, <1>5 DEF IInv

(* The sink that is made is of a port that had none.                       *)
LEMMA NewSinks ==
  ASSUME Assumption, IInv, NEW ps \in SUBSET Ports, addSubsessionSink(ps),
         ps \cap sinks = {}, ~troubled,
         writer' = writer, queue' = queue, added' = added, consumed' = consumed,
         pc' = pc \/ (pc = "step" /\ pc' = "add")
  PROVE  PortsOK'
<1> SUFFICES ASSUME NEW p \in Ports PROVE (SinkThere(p) /\ WaitsForRear(p) /\ BlankOnce(p))'
  BY DEF PortsOK
<1>1. SinkThere(p) /\ WaitsForRear(p) /\ BlankOnce(p)
  BY DEF IInv, Sound, PortsOK
<1>2. sinks' = sinks \cup ps
  BY DEF addSubsessionSink
<1>3. pc = "step" => writer[p] # "left" /\ consumed[p] = "no"
  BY <1>1 DEF SinkThere, BlankOnce
<1>4. CASE p \in ps
  <2>1. sink'[p] = NewSink /\ p \notin sinks
    BY <1>4 DEF addSubsessionSink
  <2>2. /\ NewSink.state = "live" /\ NewSink.frame = None /\ NewSink.nextFrame
        /\ NewSink.reads = "dummy"
    BY DEF NewSink, NoSink
  <2>3. writer[p] = "none" /\ ~connected(p) /\ ~connected(p)'
    BY <1>1, <2>1 DEF SinkThere, connected
  <2> QED
    BY <1>1, <1>2, <1>4, <2>1, <2>2, <2>3 DEF SinkThere, WaitsForRear, BlankOnce
<1>5. CASE p \notin ps
  <2>1. sink'[p] = sink[p]
    BY <1>5 DEF addSubsessionSink
  <2> QED
    BY <1>1, <1>2, <1>3, <1>5, <2>1 DEF SinkThere, WaitsForRear, BlankOnce, connected, rearOf
<1> QED
  BY <1>4, <1>5

LEMMA NewSinksTyped ==
  ASSUME Assumption, TypeOK, NEW ps \in SUBSET Ports, addSubsessionSink(ps)
  PROVE  sinks' \subseteq Ports /\ sink' \in [Ports -> SinkSet]
<1>1. sink \in [Ports -> SinkSet]
  BY DEF TypeOK, SinkSet
<1> QED
  BY <1>1, SinksTyped DEF addSubsessionSink, TypeOK

LEMMA SetupIInv ==
  ASSUME Assumption, IInv, NEW s \in Sessions, continueAfterSETUP(s) PROVE IInv'
<1> DEFINE p == Subsessions[s][todo[s]]
<1>1. /\ pc = "step" /\ pc' = "add" /\ writer' = writer
      /\ client' = client /\ keepAlive' = keepAlive /\ queue' = queue
      /\ infos' = infos /\ bad' = bad /\ troubled' = troubled /\ added' = added
      /\ dFrames' = dFrames /\ consumed' = consumed
  BY DEF continueAfterSETUP, Step, writerVars, frameVars
<1>2. /\ todo[s] \in 1 .. Len(Subsessions[s]) /\ Len(Subsessions[s]) \in Nat
      /\ \A i \in todo[s] .. Len(Subsessions[s]) : Subsessions[s][i] \notin sinks
  BY PortsOf DEF IInv, SinksInOrder, continueAfterSETUP
<1>3. p \in Ports /\ p \notin sinks /\ p \in portsOf(s)
  BY <1>2, PortsOf
<1>4. PICK ps \in SUBSET {p} : addSubsessionSink(ps)
  <2>1. PICK ok \in BOOLEAN : addSubsessionSink(IF ok THEN {p} ELSE {})
    BY DEF continueAfterSETUP
  <2>2. (IF ok THEN {p} ELSE {}) \in SUBSET {p}
    OBVIOUS
  <2> QED
    BY <2>1, <2>2
<1>5. ps \in SUBSET Ports /\ ps \cap sinks = {}
  BY <1>3, <1>4
<1> HIDE DEF p
<1>6. /\ session' \in [Sessions -> {"none", "describe", "setup", "play", "playing", "over"}]
      /\ todo' \in [Sessions -> Nat] /\ \A t \in Sessions : todo'[t] <= Len(Subsessions[t])
      /\ \A t \in Sessions \ {s} : session'[t] = session[t] /\ todo'[t] = todo[t]
      /\ session'[s] \in {"setup", "play"}
      /\ session'[s] = "setup" => todo'[s] \in todo[s] + 1 .. Len(Subsessions[s])
  <2>1. todo[s] + 1 \in Nat \ {0}
    BY <1>2
  <2>2. setupNextSubsession(s, todo[s] + 1)
    BY DEF continueAfterSETUP
  <2> QED
    BY <2>1, <2>2, NextSubsession DEF IInv
<1>7. TypeOK'
  BY <1>1, <1>4, <1>5, <1>6, NewSinksTyped DEF IInv, TypeOK, SinkSet
<1>8. SinksInOrder'
  <2> SUFFICES ASSUME NEW t \in Sessions
               PROVE  /\ session'[t] \in {"none", "describe"} => portsOf(t) \cap sinks' = {}
                      /\ session'[t] = "setup" =>
                           /\ todo'[t] \in 1 .. Len(Subsessions[t])
                           /\ \A i \in todo'[t] .. Len(Subsessions[t]) :
                                Subsessions[t][i] \notin sinks'
    BY DEF SinksInOrder
  <2>1. sinks' \subseteq sinks \cup {p}
    BY <1>4 DEF addSubsessionSink
  <2>2. CASE t = s
    <3>1. SUFFICES ASSUME session'[s] = "setup",
                          NEW i \in todo'[s] .. Len(Subsessions[s])
                   PROVE  Subsessions[s][i] \notin sinks'
      BY <1>2, <1>6, <2>2
    <3>2. i \in todo[s] + 1 .. Len(Subsessions[s]) /\ i \in Int
      BY <1>2, <1>6, <3>1
    <3>3. Subsessions[s][i] \notin sinks
      BY <1>2, <3>2
    <3>4. Subsessions[s][i] # p
      BY <1>2, <3>2 DEF Assumption, OwnPorts, p
    <3> QED
      BY <2>1, <3>3, <3>4
  <2>3. CASE t # s
    <3>1. p \notin portsOf(t)
      BY <1>3, <2>3 DEF Assumption, OwnPorts
    <3>2. \A i \in 1 .. Len(Subsessions[t]) : Subsessions[t][i] # p
      BY <3>1, PortsOf
    <3>3. session'[t] = session[t] /\ todo'[t] = todo[t]
      BY <1>6, <2>3
    <3>4. session[t] \in {"none", "describe"} => portsOf(t) \cap sinks' = {}
      BY <2>1, <3>1 DEF IInv, SinksInOrder
    <3>5. ASSUME session[t] = "setup"
          PROVE  /\ todo[t] \in 1 .. Len(Subsessions[t])
                 /\ \A i \in todo[t] .. Len(Subsessions[t]) : Subsessions[t][i] \notin sinks'
      <4>1. /\ todo[t] \in 1 .. Len(Subsessions[t]) /\ Len(Subsessions[t]) \in Nat
            /\ \A i \in todo[t] .. Len(Subsessions[t]) : Subsessions[t][i] \notin sinks
        BY <3>5, PortsOf DEF IInv, SinksInOrder
      <4>2. \A i \in todo[t] .. Len(Subsessions[t]) : i \in 1 .. Len(Subsessions[t])
        BY <4>1
      <4> QED
        BY <2>1, <3>2, <4>1, <4>2
    <3> QED
      BY <3>3, <3>4, <3>5
  <2> QED
    BY <2>2, <2>3
<1>9. ASSUME ~troubled' PROVE Sound'
  <2>1. ~troubled /\ Sound
    BY <1>1, <1>9 DEF IInv
  <2>2. PortsOK'
    BY <1>1, <1>4, <1>5, <2>1, NewSinks
  <2> QED
    BY <1>1, <2>1, <2>2 DEF Sound
<1> QED
  BY <1>7, <1>8, <1>9 DEF IInv

LEMMA PlayIInv ==
  ASSUME Assumption, IInv, NEW s \in Sessions, continueAfterPLAY(s) PROVE IInv'
<1>1. /\ pc = "step" /\ pc' = "add" /\ sinks' = sinks /\ sink' = sink /\ writer' = writer
      /\ client' = client /\ queue' = queue /\ todo' = todo
      /\ infos' = infos /\ bad' = bad /\ troubled' = troubled /\ added' = added
      /\ dFrames' = dFrames /\ consumed' = consumed
      /\ session' = [session EXCEPT ![s] = "playing"] /\ keepAlive' \subseteq keepAlive \cup {s}
  BY DEF continueAfterPLAY, Step, sinkVars, writerVars, frameVars
<1>2. TypeOK'
  BY <1>1 DEF IInv, TypeOK
<1>3. SinksInOrder'
  BY <1>1 DEF IInv, TypeOK, SinksInOrder
<1>4. ASSUME ~troubled' PROVE Sound'
  BY <1>1, <1>4
     DEF IInv, Sound, PortsOK, SinkThere, WaitsForRear, BlankOnce, connected, rearOf
<1> QED
  BY <1>2, <1>3, <1>4 DEF IInv

(* The timer of a session finds its client open.                           *)
LEMMA TimeoutIInv ==
  ASSUME Assumption, IInv, NEW s \in Sessions, checkSessionTimeoutBrokenServer(s) PROVE IInv'
<1>1. /\ pc = "step" /\ pc' = "add" /\ sinks' = sinks /\ sink' = sink /\ writer' = writer
      /\ client' = client /\ queue' = queue /\ todo' = todo /\ session' = session
      /\ infos' = infos /\ troubled' = troubled /\ added' = added
      /\ dFrames' = dFrames /\ consumed' = consumed /\ keepAlive' = keepAlive
      /\ bad' = (bad \/ client[s] = "closed")
  BY DEF checkSessionTimeoutBrokenServer, Step, sessionVars, sinkVars, writerVars, frameVars
<1>2. TypeOK'
  BY <1>1 DEF IInv, TypeOK
<1>3. SinksInOrder'
  BY <1>1 DEF IInv, SinksInOrder
<1>4. ASSUME ~troubled' PROVE Sound'
  BY <1>1, <1>4
     DEF IInv, Sound, PortsOK, SinkThere, WaitsForRear, BlankOnce, connected, rearOf
<1> QED
  BY <1>2, <1>3, <1>4 DEF IInv

(* What closes sinks under the receiver is trouble.                        *)
LEMMA ShutdownIInv ==
  ASSUME Assumption, IInv, NEW s \in Sessions, shutdownStream(s) PROVE IInv'
<1>1. /\ pc' = "add" /\ sinks' = sinks /\ writer' = writer /\ queue' = queue /\ todo' = todo
      /\ infos' = infos /\ troubled' = TRUE /\ added' = added /\ bad' = bad
      /\ dFrames' = dFrames /\ consumed' = consumed /\ keepAlive' = keepAlive
      /\ session' = [session EXCEPT ![s] = IF @ = "describe" THEN @ ELSE "over"]
      /\ client' = [client EXCEPT ![s] = "closed"]
  BY DEF shutdownStream, Step, Trouble, sinkVars, writerVars, frameVars
<1>2. sink' \in [Ports -> SinkSet]
  <2>1. sink \in [Ports -> SinkSet]
    BY DEF IInv, TypeOK, SinkSet
  <2> QED
    BY <2>1, SinksTyped DEF shutdownStream
<1>3. TypeOK'
  BY <1>1, <1>2 DEF IInv, TypeOK, SinkSet
<1>4. SinksInOrder'
  BY <1>1 DEF IInv, TypeOK, SinksInOrder
<1> QED
  BY <1>1, <1>3, <1>4 DEF IInv

LEMMA ByeIInv ==
  ASSUME Assumption, IInv, NEW p \in Ports, subsessionAfterPlaying(p) PROVE IInv'
<1>1. /\ pc' = "add" /\ sinks' = sinks /\ writer' = writer /\ queue' = queue /\ todo' = todo
      /\ infos' = infos /\ troubled' = TRUE /\ added' = added /\ bad' = bad
      /\ dFrames' = dFrames /\ consumed' = consumed /\ keepAlive' = keepAlive
      /\ session' = session /\ client' = client
      /\ sink' = [sink EXCEPT ![p] = ClosedSink]
  BY DEF subsessionAfterPlaying, Step, Trouble, sessionVars, writerVars, frameVars
<1>2. sink' \in [Ports -> SinkSet]
  <2>1. sink \in [Ports -> SinkSet]
    BY DEF IInv, TypeOK, SinkSet
  <2> QED
    BY <1>1, <2>1, SinksTyped
<1>3. TypeOK'
  BY <1>1, <1>2 DEF IInv, TypeOK, SinkSet
<1>4. SinksInOrder'
  BY <1>1 DEF IInv, SinksInOrder
<1> QED
  BY <1>1, <1>3, <1>4 DEF IInv

-----------------------------------------------------------------------------
(* The control thread.                                                     *)

LEMMA AddSessionIInv ==
  ASSUME Assumption, IInv, NEW s \in Sessions, addSession(s) PROVE IInv'
<1>1. /\ pc' = pc /\ writer' = writer /\ queue' = queue /\ todo' = todo
      /\ infos' = infos /\ troubled' = troubled /\ added' = added /\ bad' = bad
      /\ dFrames' = dFrames /\ consumed' = consumed /\ keepAlive' = keepAlive
      /\ session[s] = "none"
  BY DEF addSession, writerVars, frameVars
<1>2. portsOf(s) \cap sinks = {} /\ portsOf(s) \in SUBSET Ports
  BY <1>1, PortsOf DEF IInv, SinksInOrder
<1>3. CASE initiateSession(s, TRUE)
  <2>1. /\ session' = [session EXCEPT ![s] = "playing"] /\ client' = client
        /\ addSubsessionSink(portsOf(s))
    BY <1>3 DEF initiateSession
  <2>2. TypeOK'
    BY <1>1, <1>2, <2>1, NewSinksTyped DEF IInv, TypeOK, SinkSet
  <2>3. SinksInOrder'
    <3> SUFFICES ASSUME NEW t \in Sessions
                 PROVE  /\ session'[t] \in {"none", "describe"} => portsOf(t) \cap sinks' = {}
                        /\ session'[t] = "setup" =>
                             /\ todo'[t] \in 1 .. Len(Subsessions[t])
                             /\ \A i \in todo'[t] .. Len(Subsessions[t]) :
                                  Subsessions[t][i] \notin sinks'
      BY DEF SinksInOrder
    <3>1. CASE t = s
      BY <2>1, <3>1 DEF IInv, TypeOK
    <3>2. CASE t # s
      <4>1. portsOf(t) \cap portsOf(s) = {} /\ sinks' = sinks \cup portsOf(s)
        BY <2>1, <3>2 DEF Assumption, OwnPorts, addSubsessionSink
      <4>2. session'[t] = session[t] /\ todo'[t] = todo[t]
        BY <1>1, <2>1, <3>2 DEF IInv, TypeOK
      <4>3. ASSUME session[t] = "setup"
            PROVE  /\ todo[t] \in 1 .. Len(Subsessions[t])
                   /\ \A i \in todo[t] .. Len(Subsessions[t]) : Subsessions[t][i] \notin sinks'
        <5>1. /\ todo[t] \in 1 .. Len(Subsessions[t]) /\ Len(Subsessions[t]) \in Nat
              /\ \A i \in todo[t] .. Len(Subsessions[t]) : Subsessions[t][i] \notin sinks
          BY <4>3, PortsOf DEF IInv, SinksInOrder
        <5>2. \A i \in todo[t] .. Len(Subsessions[t]) : i \in 1 .. Len(Subsessions[t])
          BY <5>1
        <5>3. \A i \in 1 .. Len(Subsessions[t]) : Subsessions[t][i] \in portsOf(t)
          BY PortsOf
        <5> QED
          BY <4>1, <5>1, <5>2, <5>3
      <4> QED
        BY <4>1, <4>2, <4>3 DEF IInv, SinksInOrder
    <3> QED
      BY <3>1, <3>2
  <2>4. ASSUME ~troubled' PROVE Sound'
    <3>1. PortsOK'
      BY <1>1, <1>2, <2>1, <2>4, NewSinks
    <3> QED
      BY <1>1, <2>1, <2>4, <3>1 DEF IInv, Sound
  <2> QED
    BY <2>2, <2>3, <2>4 DEF IInv
<1>4. CASE initiateSession(s, FALSE)
  <2>1. /\ session' = [session EXCEPT ![s] = "describe"]
        /\ client' = [client EXCEPT ![s] = "open"] /\ sinks' = sinks /\ sink' = sink
    BY <1>4 DEF initiateSession, sinkVars
  <2>2. TypeOK'
    BY <1>1, <2>1 DEF IInv, TypeOK
  <2>3. SinksInOrder'
    BY <1>1, <1>2, <2>1 DEF IInv, TypeOK, SinksInOrder
  <2>4. ASSUME ~troubled' PROVE Sound'
    <3>1. PortsOK'
      BY <1>1, <2>1, <2>4
         DEF IInv, Sound, PortsOK, SinkThere, WaitsForRear, BlankOnce, connected, rearOf
    <3> QED
      BY <1>1, <2>1, <2>4, <3>1 DEF IInv, TypeOK, Sound
  <2> QED
    BY <2>2, <2>3, <2>4 DEF IInv
<1> QED
  BY <1>3, <1>4 DEF addSession

(* Sinks that are closed and erased have no writer.                        *)
LEMMA RemoveSessionIInv ==
  ASSUME Assumption, IInv, NEW s \in Sessions, removeSession(s) PROVE IInv'
<1>1. /\ pc' = pc /\ queue' = queue /\ infos' = infos /\ added' = added
      /\ dFrames' = dFrames /\ consumed' = consumed
      /\ sinks' = sinks \ closes(s)
      /\ writer' = [p \in Ports |-> IF p \in closes(s) THEN "none" ELSE writer[p]]
      /\ sink' = [p \in Ports |-> IF p \in portsOf(s) THEN ClosedSink ELSE sink[p]]
      /\ session' = [session EXCEPT ![s] = "none"] /\ todo' = [todo EXCEPT ![s] = 0]
      /\ client' = [client EXCEPT ![s] = "none"] /\ keepAlive' = keepAlive \ {s}
      /\ bad' = \/ bad \/ session[s] = "describe" \/ client[s] # "open"
                \/ \E p \in closes(s) : writer[p] # "none" \/ sink[p].state # "live"
      /\ session[s] # "none"
  BY DEF removeSession, sessionDeleted, frameVars
<1>2. \A t \in Sessions : portsOf(t) \subseteq Ports /\ Len(Subsessions[t]) \in Nat
  BY PortsOf
<1>3. troubled' \in BOOLEAN
  BY DEF removeSession, Trouble, IInv, TypeOK
<1>4. sink' \in [Ports -> SinkSet]
  <2>1. sink \in [Ports -> SinkSet]
    BY DEF IInv, TypeOK, SinkSet
  <2> QED
    BY <1>1, <2>1, SinksTyped
<1>5. /\ todo' \in [Sessions -> Nat] /\ \A t \in Sessions : todo'[t] <= Len(Subsessions[t])
      /\ \A t \in Sessions \ {s} : todo'[t] = todo[t]
  BY <1>1, <1>2 DEF IInv, TypeOK
<1>6. TypeOK'
  <2>1. writer' \in [Ports -> {"none", "connected", "left"}]
    BY <1>1 DEF IInv, TypeOK
  <2>2. bad' \in BOOLEAN
    BY <1>1
  <2> QED
    BY <1>1, <1>3, <1>4, <1>5, <2>1, <2>2 DEF IInv, TypeOK, SinkSet
<1>7. SinksInOrder'
  <2>1. portsOf(s) \cap sinks' = {}
    BY <1>1 DEF closes
  <2> QED
    BY <1>1, <1>5, <2>1 DEF IInv, TypeOK, SinksInOrder
<1>8. ASSUME ~troubled' PROVE Sound'
  <2>1. /\ ~troubled /\ session[s] # "describe" /\ client[s] # "none"
        /\ \A p \in portsOf(s) : writer[p] = "none"
    BY <1>8 DEF removeSession, Trouble
  <2>2. Sound
    BY <2>1 DEF IInv
  <2>3. client[s] = "open"
    BY <2>1, <2>2 DEF Sound, IInv, TypeOK
  <2>4. ASSUME NEW p \in Ports PROVE (SinkThere(p) /\ WaitsForRear(p) /\ BlankOnce(p))'
    <3>1. SinkThere(p) /\ WaitsForRear(p) /\ BlankOnce(p)
      BY <2>2 DEF Sound, PortsOK
    <3>2. writer'[p] = writer[p]
      BY <1>1, <2>1 DEF closes
    <3>3. CASE p \in portsOf(s)
      <4>1. sink'[p] = ClosedSink /\ p \notin sinks' /\ writer'[p] = "none"
        BY <1>1, <2>1, <3>2, <3>3 DEF closes
      <4>2. /\ ClosedSink.state = "closed" /\ ClosedSink.frame = None
            /\ ClosedSink.nextFrame /\ ClosedSink.reads = "nothing"
        BY DEF ClosedSink, NoSink
      <4>3. consumed[p] = "no"
        BY <3>1, <3>2, <4>1 DEF BlankOnce, connected
      <4> QED
        BY <1>1, <3>1, <4>1, <4>2, <4>3 DEF SinkThere, WaitsForRear, BlankOnce, connected
    <3>4. CASE p \notin portsOf(s)
      <4>1. sink'[p] = sink[p] /\ (p \in sinks' <=> p \in sinks)
        BY <1>1, <3>4 DEF closes
      <4> QED
        BY <1>1, <3>1, <3>2, <4>1 DEF SinkThere, WaitsForRear, BlankOnce, connected, rearOf
    <3> QED
      BY <3>3, <3>4
  <2>5. \A p \in closes(s) : writer[p] = "none" /\ sink[p].state = "live"
    BY <1>2, <2>1, <2>2 DEF closes, Sound, PortsOK, SinkThere
  <2>6. ~bad'
    BY <1>1, <2>1, <2>2, <2>3, <2>5 DEF Sound
  <2>7. \A t \in Sessions : client'[t] # "closed"
    BY <1>1, <2>2 DEF Sound, IInv, TypeOK
  <2> QED
    BY <2>4, <2>6, <2>7 DEF Sound, PortsOK
<1> QED
  BY <1>6, <1>7, <1>8 DEF IInv

(* A connection has a number that no frame was added of.                   *)
LEMMA ConnectIInv == ASSUME Assumption, IInv, NEW p \in Ports, connect(p) PROVE IInv'
<1>1. /\ pc' = pc /\ sinks' = sinks /\ sink' = sink /\ added' = added
      /\ dFrames' = dFrames /\ consumed' = consumed
      /\ session' = session /\ todo' = todo /\ client' = client /\ keepAlive' = keepAlive
      /\ writer' = [writer EXCEPT ![p] = "connected"]
      /\ queue' = [queue EXCEPT ![p] = [id |-> @.id + 1, rear |-> 0, elements |-> 0]]
      /\ infos' = infos \cup {p}
      /\ writer[p] = "none" /\ p \in sinks /\ queue[p].id < MaxConnects
  BY DEF connect, sessionVars, sinkVars, frameVars
<1>2. /\ queue'[p] = [id |-> queue[p].id + 1, rear |-> 0, elements |-> 0]
      /\ queue[p].id + 1 \in 0 .. MaxConnects /\ queue[p].id \in Nat
  BY <1>1 DEF IInv, TypeOK, Assumption, OwnPorts
<1>3. queue' \in [Ports -> QueueSet]
  <2>1. queue'[p] \in QueueSet
    BY <1>2 DEF QueueSet, Assumption, ReceiverAssumption
  <2> QED
    BY <1>1, <2>1 DEF IInv, TypeOK, QueueSet
<1>4. TypeOK'
  <2>1. troubled' \in BOOLEAN /\ bad' \in BOOLEAN
    BY DEF connect, Trouble, IInv, TypeOK
  <2> QED
    BY <1>1, <1>3, <2>1 DEF IInv, TypeOK, QueueSet
<1>5. SinksInOrder'
  BY <1>1 DEF IInv, SinksInOrder
<1>6. ASSUME ~troubled' PROVE Sound'
  <2>1. ~troubled /\ ~(p \notin infos /\ \E s \in Sessions : session[s] = "describe")
    BY <1>6 DEF connect, Trouble
  <2>2. Sound
    BY <2>1 DEF IInv
  <2>3. ~bad'
    BY <2>1, <2>2 DEF connect, Sound
  <2>4. SinkThere(p) /\ WaitsForRear(p) /\ BlankOnce(p)
    BY <2>2 DEF Sound, PortsOK
  <2>5. (SinkThere(p) /\ WaitsForRear(p) /\ BlankOnce(p))'
    <3>1. writer'[p] = "connected" /\ queue'[p].id = queue[p].id + 1
      BY <1>1, <1>2 DEF IInv, TypeOK
    <3>2. consumed[p] = "no" /\ added[p] \in Nat /\ added[p] <= queue[p].id
          /\ sink[p].frame = None /\ sink[p].nextFrame
      BY <1>1, <2>4 DEF BlankOnce, SinkThere, connected, IInv, TypeOK
    <3>3. added[p] <= queue'[p].id /\ added[p] # queue'[p].id /\ queue'[p].id > 0
      BY <1>2, <3>1, <3>2
    <3> QED
      BY <1>1, <2>4, <3>1, <3>2, <3>3 DEF SinkThere, WaitsForRear, BlankOnce, connected
  <2>6. ASSUME NEW o \in Ports \ {p} PROVE (SinkThere(o) /\ WaitsForRear(o) /\ BlankOnce(o))'
    <3>1. writer'[o] = writer[o] /\ queue'[o] = queue[o]
      BY <1>1 DEF IInv, TypeOK
    <3> QED
      BY <1>1, <2>2, <3>1
         DEF Sound, PortsOK, SinkThere, WaitsForRear, BlankOnce, connected, rearOf
  <2> QED
    BY <1>1, <2>2, <2>3, <2>5, <2>6 DEF Sound, PortsOK
<1> QED
  BY <1>4, <1>5, <1>6 DEF IInv

(* A writer leaves between two frames.                                     *)
LEMMA DisconnectIInv ==
  ASSUME Assumption, IInv, NEW p \in Ports, disconnectWriter(p) \/ disconnectReader(p)
  PROVE  IInv'
<1>1. /\ pc = "idle" /\ pc' = pc /\ sinks' = sinks /\ added' = added
      /\ queue' = queue /\ dFrames' = dFrames /\ consumed' = consumed /\ infos' = infos
      /\ session' = session /\ todo' = todo /\ client' = client /\ keepAlive' = keepAlive
      /\ writer[p] = "connected" /\ Trouble("leave_waiting", ~sink[p].nextFrame)
  BY DEF disconnectWriter, disconnectReader, leaves, connected, sessionVars, sinkVars,
         frameVars
<1>2. \/ /\ writer' = [writer EXCEPT ![p] = "none"]
         /\ sink' = [sink EXCEPT ![p] = disconnected(@)]
         /\ bad' = (bad \/ sink[p].state # "live")
      \/ writer' = [writer EXCEPT ![p] = "left"] /\ sink' = sink /\ bad' = bad
  BY DEF disconnectWriter, disconnectReader, sinkVars
<1>3. sink' \in [Ports -> SinkSet]
  <2>1. sink \in [Ports -> SinkSet]
    BY DEF IInv, TypeOK, SinkSet
  <2> QED
    BY <1>2, <2>1, SinksTyped
<1>4. TypeOK'
  <2>1. troubled' \in BOOLEAN /\ bad' \in BOOLEAN
    BY <1>1, <1>2 DEF Trouble, IInv, TypeOK
  <2>2. writer' \in [Ports -> {"none", "connected", "left"}]
    BY <1>2 DEF IInv, TypeOK
  <2> QED
    BY <1>1, <1>3, <2>1, <2>2 DEF IInv, TypeOK, SinkSet
<1>5. SinksInOrder'
  BY <1>1 DEF IInv, SinksInOrder
<1>6. ASSUME ~troubled' PROVE Sound'
  <2>1. ~troubled /\ sink[p].nextFrame
    BY <1>1, <1>6 DEF Trouble
  <2>2. Sound
    BY <2>1 DEF IInv
  <2>3. SinkThere(p) /\ WaitsForRear(p) /\ BlankOnce(p) /\ consumed[p] = "no"
    BY <1>1, <2>2 DEF Sound, PortsOK, BlankOnce
  <2>4. p \in sinks /\ sink[p].state = "live" /\ queue[p].id > 0 /\ sink[p].reads # "frame"
    BY <1>1, <2>1, <2>3 DEF SinkThere, WaitsForRear
  <2>5. /\ writer'[p] \in {"none", "left"}
        /\ writer'[p] = "none" => sink'[p].frame = None
        /\ sink'[p].nextFrame /\ sink'[p].state = "live" /\ sink'[p].reads = sink[p].reads
    <3>1. CASE writer' = [writer EXCEPT ![p] = "left"] /\ sink' = sink
      BY <2>1, <2>4, <3>1 DEF IInv, TypeOK
    <3>2. CASE /\ writer' = [writer EXCEPT ![p] = "none"]
               /\ sink' = [sink EXCEPT ![p] = disconnected(@)]
      <4>1. writer'[p] = "none" /\ sink'[p] = [sink[p] EXCEPT !.frame = None]
        BY <3>2 DEF disconnected, IInv, TypeOK
      <4>2. sink[p] \in SinkSet
        BY DEF IInv, TypeOK, SinkSet
      <4> QED
        BY <2>1, <2>4, <4>1, <4>2 DEF SinkSet
    <3> QED
      BY <1>2, <3>1, <3>2
  <2>6. (SinkThere(p) /\ WaitsForRear(p) /\ BlankOnce(p))'
    BY <1>1, <2>3, <2>4, <2>5 DEF SinkThere, WaitsForRear, BlankOnce, connected
  <2>7. ASSUME NEW o \in Ports \ {p} PROVE (SinkThere(o) /\ WaitsForRear(o) /\ BlankOnce(o))'
    <3>1. writer'[o] = writer[o] /\ sink'[o] = sink[o]
      BY <1>2 DEF IInv, TypeOK
    <3> QED
      BY <1>1, <2>2, <3>1
         DEF Sound, PortsOK, SinkThere, WaitsForRear, BlankOnce, connected, rearOf
  <2>8. ~bad'
    BY <1>2, <2>2, <2>4 DEF Sound
  <2> QED
    BY <1>1, <2>2, <2>6, <2>7, <2>8 DEF Sound, PortsOK
<1> QED
  BY <1>4, <1>5, <1>6 DEF IInv

-----------------------------------------------------------------------------
LEMMA NextIInv == ASSUME Assumption PROVE IInv /\ [Next]_vars => IInv'
<1> SUFFICES ASSUME IInv, [Next]_vars PROVE IInv'
  OBVIOUS
<1>1. CASE begin \/ quiet \/ addFrames
  BY <1>1, BeginIInv, QuietIInv, AddFramesIInv
<1>2. ASSUME NEW p \in Ports, arrive(p) \/ task(p) \/ removeFrame(p) \/ subsessionAfterPlaying(p)
      PROVE  IInv'
  BY <1>2, ArriveIInv, TaskIInv, RemoveFrameIInv, ByeIInv
<1>3. ASSUME NEW p \in Ports, connect(p) \/ disconnectWriter(p) \/ disconnectReader(p)
      PROVE  IInv'
  BY <1>3, ConnectIInv, DisconnectIInv
<1>4. ASSUME NEW s \in Sessions, \/ continueAfterDESCRIBE(s) \/ continueAfterSETUP(s)
                                 \/ continueAfterPLAY(s) \/ checkSessionTimeoutBrokenServer(s)
      PROVE  IInv'
  BY <1>4, DescribeIInv, SetupIInv, PlayIInv, TimeoutIInv
<1>5. ASSUME NEW s \in Sessions, shutdownStream(s) \/ addSession(s) \/ removeSession(s)
      PROVE  IInv'
  BY <1>5, ShutdownIInv, AddSessionIInv, RemoveSessionIInv
<1>6. CASE UNCHANGED vars
  <2>1. /\ pc' = pc /\ sinks' = sinks /\ sink' = sink /\ added' = added
        /\ queue' = queue /\ dFrames' = dFrames /\ consumed' = consumed /\ infos' = infos
        /\ session' = session /\ todo' = todo /\ client' = client /\ keepAlive' = keepAlive
        /\ writer' = writer /\ troubled' = troubled /\ bad' = bad
    BY <1>6 DEF vars, sessionVars, sinkVars, writerVars, frameVars
  <2> QED
    BY <2>1
       DEF IInv, TypeOK, SinksInOrder, Sound, PortsOK, SinkThere, WaitsForRear, BlankOnce,
           connected, rearOf
<1> QED
  BY <1>1, <1>2, <1>3, <1>4, <1>5, <1>6 DEF Next

LEMMA Invariance == ASSUME Assumption PROVE Spec => []IInv
<1>1. Init => IInv
  BY InitIInv
<1>2. IInv /\ [Next]_vars => IInv'
  BY NextIInv
<1> QED
  BY <1>1, <1>2, PTL DEF Spec

(* For any sessions and ports, any length of queue and any number of       *)
(* connections, a frame that is handed on was received from the network,   *)
(* but for the first of a connection; reads go to the rear of the queue    *)
(* that the port is connected to now; and no sink, client, session or      *)
(* queue that was freed is used: until one of Troublesome happens.         *)
THEOREM ReceivesFrames == ASSUME Assumption PROVE Spec => []FramesReceived
<1>1. ASSUME IInv PROVE FramesReceived
  <2>1. OnlyFirstBlank
    BY <1>1 DEF IInv, Sound, PortsOK, BlankOnce, OnlyFirstBlank
  <2>2. ReadsIntoRear
    BY <1>1 DEF IInv, Sound, PortsOK, SinkThere, WaitsForRear, ReadsIntoRear, connected
  <2>3. NothingFreed
    BY <1>1 DEF IInv, Sound, NothingFreed
  <2> QED
    BY <1>1, <2>1, <2>2, <2>3 DEF IInv, FramesReceived
<1>2. Spec => []IInv
  BY Invariance
<1> QED
  BY <1>1, <1>2, PTL
=============================================================================
