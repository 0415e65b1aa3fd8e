----------------------------- MODULE Controller -----------------------------
(***************************************************************************)
(* The control thread (Controller.cpp, and the events of PipelineManager): *)
(* it accepts a client, reads one request from it, runs the events of the  *)
(* request one after the other, sends what each had to say, and closes.    *)
(* The workers go on meanwhile.  A path is created and connected by one    *)
(* event, in two steps.                                                    *)
(***************************************************************************)
EXTENDS PipelineManager

CONSTANTS
  Requests,     \* what clients ask: sequences of events
  MaxRequests   \* bound: clients

(* An action, and the filter or the path it is for.                        *)
Event == [action : {"createFilter", "removeFilter"}, id : Filters]
         \cup [action : {"createPath", "removePath"}, id : Paths]
         \cup [action : {"getState", "stop", "invalid"}, id : Filters \cup Paths]

ASSUME ControllerAssumption == Requests \subseteq Seq(Event) /\ MaxRequests \in Nat

VARIABLES
  ctrl,         \* "listen", "read", "process" or "connect", in createPathEvent
  events,       \* of the request, still to be run
  outputNode,   \* what the answer says so far: of each event, whether it went well
  connectionSocket,  \* the client, or 0
  left,         \* clients whose socket was never closed
  answered,     \* history: clients that were answered
  clients

ctrlVars == <<ctrl, events, outputNode, connectionSocket, left, answered, clients>>

CtrlInit ==
  /\ Init
  /\ ctrl = "listen" /\ events = <<>> /\ outputNode = <<>> /\ connectionSocket = 0
  /\ left = {} /\ answered = {} /\ clients = 0
-----------------------------------------------------------------------------
listenSocket ==
  /\ ctrl = "listen" /\ clients < MaxRequests
  /\ clients' = clients + 1 /\ connectionSocket' = clients + 1 /\ ctrl' = "read"
  /\ UNCHANGED <<vars, events, outputNode, left, answered>>

(* What cannot be read or parsed is left alone, the socket open.           *)
readAndParse ==
  /\ ctrl = "read"
  /\ \/ /\ ctrl' = "listen" /\ left' = left \cup {connectionSocket}
        /\ UNCHANGED <<events, outputNode>>
     \/ /\ ctrl' = "process" /\ events' \in Requests /\ outputNode' = <<>>
        /\ UNCHANGED left
  /\ UNCHANGED <<vars, connectionSocket, answered, clients>>

sendAndClose ==
  /\ ctrl = "process" /\ events = <<>>
  /\ ctrl' = "listen" /\ answered' = answered \cup {connectionSocket} /\ connectionSocket' = 0
  /\ UNCHANGED <<vars, events, outputNode, left, clients>>

(* The event is done.                                                      *)
says(ok) ==
  /\ outputNode' = Append(outputNode, ok) /\ events' = Tail(events) /\ ctrl' = "process"
  /\ UNCHANGED <<connectionSocket, left, answered, clients>>

running(action) == ctrl = "process" /\ events # <<>> /\ Head(events).action = action
id == Head(events).id

(* Nothing was done.                                                       *)
refused == says(FALSE) /\ UNCHANGED vars

getStateEvent == running("getState") /\ says(TRUE) /\ UNCHANGED vars

(* An action that is not known, or without its parameters.                 *)
invalid == running("invalid") /\ refused

createFilterEvent ==
  /\ running("createFilter")
  /\ IF id \in filters THEN refused ELSE createFilter(id) /\ says(TRUE)

createPathEvent ==
  /\ running("createPath")
  /\ IF validPath(id)
     THEN /\ createPath(id) /\ ctrl' = "connect"
          /\ UNCHANGED <<events, outputNode, connectionSocket, left, answered, clients>>
     ELSE refused

(* Mutant of connects: what connectPath returns is not looked at.          *)
connectsAnyway(p) == TRUE

connects(p) == status'[p] = "connected"

(* The path stays in the map when it cannot be connected.                  *)
createPathConnect ==
  /\ ctrl = "connect"
  /\ connectPath(id) /\ says(connects(id))

removePathEvent ==
  /\ running("removePath")
  /\ CASE id \notin paths -> says(TRUE) /\ UNCHANGED vars
       [] id \in paths /\ complete(id) -> removePath(id) /\ says(TRUE)
       [] id \in paths /\ ~complete(id) -> refused

removeFilterEvent ==
  /\ running("removeFilter")
  /\ IF id \in filters /\ \A p \in paths : ~hasFilter(p, id)
     THEN removeFilter(id) /\ says(TRUE) ELSE refused

(* The pipeline manager stops, path by path.                               *)
stopEvent ==
  /\ running("stop")
  /\ \/ stop /\ UNCHANGED ctrlVars
     \/ \E p \in Paths : stopPath(p) /\ stopping' = "stopping" /\ UNCHANGED ctrlVars
     \/ \E p \in Paths : stopPath(p) /\ stopping' = "failed" /\ says(FALSE)
     \/ stopped /\ says(TRUE)

processEvent ==
  \/ getStateEvent \/ invalid \/ createFilterEvent \/ createPathEvent \/ createPathConnect
  \/ removePathEvent \/ removeFilterEvent \/ stopEvent

CtrlNext ==
  \/ listenSocket \/ readAndParse \/ processEvent \/ sendAndClose
  \/ /\ \/ \E w \in writers : deleteWriter(w) \/ disconnectWriter(w)
        \/ \E r \in readers : deleteReader(r)
     /\ UNCHANGED ctrlVars

CtrlSpec == CtrlInit /\ [][CtrlNext]_<<vars, ctrlVars>>
-----------------------------------------------------------------------------
(* What an event asks for, when it is done.  A path that is not there is   *)
(* removed at once.                                                        *)
achieved(e) ==
  CASE e.action = "createFilter" -> e.id \in filters
    [] e.action = "createPath" -> e.id \in paths /\ linksOf(e.id) \subseteq links
    [] e.action = "removePath" -> e.id \notin paths
    [] e.action = "removeFilter" -> e.id \notin filters
    [] e.action = "stop" -> filters \cup paths \cup writers \cup readers \cup links = {}
    [] OTHER -> TRUE

(* processRequest: an event that is said to have gone well did what it     *)
(* asks for; one that is said to have failed changed nothing, unless it is *)
(* a path, which may be left half connected.  No client is answered twice, *)
(* and none before all its events were run.                                *)
Answered ==
  [][/\ Len(outputNode') = Len(outputNode) + 1 =>
          \E e \in {Head(events)} :
            IF Last(outputNode') THEN achieved(e)'
            ELSE \/ UNCHANGED vars \/ stopping' = "failed"
                 \/ e.action = "createPath" /\ status'[e.id] = "failed" /\ paths' = paths
     /\ answered' # answered => connectionSocket \notin answered \cup left /\ events = <<>>]_<<ctrlVars, vars>>
=============================================================================
