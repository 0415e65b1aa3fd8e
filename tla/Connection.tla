----------------------------- MODULE Connection -----------------------------
(***************************************************************************)
(* The life of the connection between a writer of one filter and a reader  *)
(* of another (Filter.cpp, IOInterface.cpp).  Three threads take part: the *)
(* worker W that runs the filter with the writer, the worker R that runs   *)
(* the filter with the reader, and the control thread C, which connects    *)
(* and disconnects.  Each filter has a mutex, which its worker gives up    *)
(* while it processes a frame.  The queue is shared, and has one flag to   *)
(* tell that both sides use it: the first side to leave resets it, and the *)
(* one that finds it reset deletes the queue.                              *)
(*                                                                         *)
(* Attempts to connect are numbered, and so are the writer, the reader and *)
(* the queue that they create.  0 stands for none.                         *)
(***************************************************************************)
EXTENDS Integers, FiniteSets

CONSTANTS
  MaxConnects,  \* bound: attempts to connect
  RunsEarly,    \* whether R may run its filter while it is being connected:
                \* a filter that has other readers or is periodic
  LeaveBusy     \* whether a filter is ever disconnected while it works on a
                \* frame of that connection

ConnectionAssumption ==
  /\ MaxConnects \in Nat \ {0} /\ RunsEarly \in BOOLEAN /\ LeaveBusy \in BOOLEAN

VARIABLES
  writers, readers,  \* entry of the maps of the two filters
  wQueue, rQueue,    \* writers and readers that have their queue set
  live,              \* queues that are allocated
  connected,         \* queues whose flag is set
  made,              \* history: queues that got connected
  mtx,               \* holder of the mutex of each filter, or "free"
  at,                \* of each thread
  side,              \* what each thread disconnects
  using,             \* queue whose frame W and R work on
  current            \* number of the attempt to connect

linkVars == <<writers, readers, wQueue, rQueue, live, connected, made, mtx, at, side,
          using, current>>

entries == <<writers, readers, wQueue, rQueue>>
queueVars == <<live, connected, made>>

Ids == 1 .. MaxConnects
Threads == {"W", "R", "C"}
SideOf == [W |-> "writer", R |-> "reader"]

LinkInit ==
  /\ writers = 0 /\ readers = 0 /\ wQueue = {} /\ rQueue = {}
  /\ live = {} /\ connected = {} /\ made = {}
  /\ mtx = [s \in {"writer", "reader"} |-> "free"]
  /\ at = [t \in Threads |-> "idle"]
  /\ side = [t \in Threads |-> IF t = "R" THEN "reader" ELSE "writer"]
  /\ using = [s \in {"writer", "reader"} |-> 0]
  /\ current = 0

lock(s, t) == mtx[s] = "free" /\ mtx' = [mtx EXCEPT ![s] = t]
go(t, l) == at' = [at EXCEPT ![t] = l]
return(t, s) == go(t, "idle") /\ mtx' = [mtx EXCEPT ![s] = "free"]
-----------------------------------------------------------------------------
(* BaseFilter::connect, under the mutex of the writer's filter.  It gets   *)
(* the reader twice, first to see if there is one.                         *)
connect ==
  /\ at["C"] = "idle" /\ current < MaxConnects
  /\ mtx["reader"] = "free" /\ lock("writer", "C")
  /\ current' = current + 1
  /\ go("C", IF readers # 0 THEN "getReader" ELSE "setWriter")
  /\ UNCHANGED <<entries, queueVars, side, using>>

getReader ==
  /\ at["C"] = "getReader" /\ mtx["reader"] = "free"
  /\ IF readers = 0 THEN go("C", "null") /\ UNCHANGED mtx
     ELSE IF readers \in rQueue /\ readers \in connected THEN return("C", "writer")
     ELSE go("C", "setWriter") /\ UNCHANGED mtx
  /\ UNCHANGED <<entries, queueVars, side, using, current>>

(* The id of the writer must be free.  The queue is allocated.             *)
setWriter ==
  /\ at["C"] = "setWriter"
  /\ IF writers = 0
       THEN /\ writers' = current /\ live' = live \cup {current}
            /\ go("C", "setReader") /\ UNCHANGED mtx
       ELSE return("C", "writer") /\ UNCHANGED <<writers, live>>
  /\ UNCHANGED <<readers, wQueue, rQueue, connected, made, side, using, current>>

(* The id of the reader must be free as well; if not, the writer is        *)
(* deleted, but not the queue.  The reader is in the map from here on.     *)
setReader ==
  /\ at["C"] = "setReader" /\ mtx["reader"] = "free"
  /\ IF readers = 0
       THEN /\ readers' = current /\ wQueue' = wQueue \cup {current}
            /\ go("C", "setConnection") /\ UNCHANGED <<writers, mtx>>
       ELSE /\ writers' = 0 /\ return("C", "writer")
            /\ UNCHANGED <<readers, wQueue>>
  /\ UNCHANGED <<rQueue, queueVars, side, using, current>>

setConnection ==
  /\ at["C"] = "setConnection"
  /\ rQueue' = rQueue \cup {current}
  /\ go("C", "setConnected")
  /\ UNCHANGED <<writers, readers, wQueue, queueVars, mtx, side, using, current>>

setConnected ==
  /\ at["C"] = "setConnected"
  /\ connected' = connected \cup {current} /\ made' = made \cup {current}
  /\ go("C", "connected")
  /\ UNCHANGED <<entries, live, mtx, side, using, current>>

(* connect returns true.  If the reader has left the map meanwhile it is   *)
(* destroyed with the last pointer to it, and leaves the queue.            *)
connectReturn ==
  /\ at["C"] = "connected"
  /\ return("C", "writer")
  /\ IF readers = current \/ current \notin rQueue
       THEN UNCHANGED <<rQueue, connected, live>>
       ELSE /\ rQueue' = rQueue \ {current}
            /\ connected' = connected \ {current}
            /\ live' = IF current \in connected THEN live ELSE live \ {current}
  /\ UNCHANGED <<writers, readers, wQueue, made, side, using, current>>
-----------------------------------------------------------------------------
(* A side leaves.  It looks at the flag, and acts on what it saw.          *)

queueOf(t) ==
  IF side[t] = "writer"
    THEN IF writers \in wQueue THEN writers ELSE 0
    ELSE IF readers \in rQueue THEN readers ELSE 0

(* disconnectReader and disconnectWriter, by the control thread.           *)
disconnectSide(s) ==
  /\ at["C"] = "idle" /\ lock(s, "C")
  /\ IF s = "writer" THEN writers # 0 ELSE readers # 0
  /\ using[s] # 0 => LeaveBusy
  /\ side' = [side EXCEPT !["C"] = s]
  /\ go("C", "leave")
  /\ UNCHANGED <<entries, queueVars, using, current>>

(* Mutant of leave: the queue is always deleted.                           *)
leaveDeleting(t) ==
  /\ at[t] = "leave"
  /\ go(t, IF queueOf(t) = 0 THEN "gone" ELSE "delete")
  /\ UNCHANGED <<entries, queueVars, mtx, side, using, current>>

leave(t) ==
  /\ at[t] = "leave"
  /\ go(t, IF queueOf(t) = 0 THEN "gone"
           ELSE IF queueOf(t) \in connected THEN "unset" ELSE "delete")
  /\ UNCHANGED <<entries, queueVars, mtx, side, using, current>>

(* The flag or the memory, and the entry of the map.                       *)
left(t) ==
  /\ at[t] \in {"gone", "unset", "delete"}
  /\ connected' = IF at[t] = "unset" THEN connected \ {queueOf(t)} ELSE connected
  /\ live' = IF at[t] = "delete" THEN live \ {queueOf(t)} ELSE live
  /\ IF side[t] = "writer"
       THEN /\ writers' = 0 /\ wQueue' = wQueue \ {writers}
            /\ UNCHANGED <<readers, rQueue>>
       ELSE /\ readers' = 0 /\ rQueue' = rQueue \ {readers}
            /\ UNCHANGED <<writers, wQueue>>
  /\ return(t, side[t])
  /\ UNCHANGED <<made, side, using, current>>
-----------------------------------------------------------------------------
(* A worker, which runs the filter of its side.                            *)

entryOf(t) == IF t = "W" THEN writers ELSE readers

isConnected(t) == queueOf(t) \in connected

connecting == at["C"] \in {"setConnection", "setConnected", "connected"}

(* Mutant of demandFrames: a filter keeps an entry that is not connected.  *)
demandConnected(t) ==
  /\ at[t] = "idle" /\ entryOf(t) # 0 /\ isConnected(t) /\ lock(SideOf[t], t)
  /\ go(t, "getFrame")
  /\ UNCHANGED <<entries, queueVars, side, using, current>>

(* demandDestinationFrames and demandOriginFramesBestEffort: an entry that *)
(* is not connected is removed, otherwise a frame is asked for.            *)
demandFrames(t) ==
  /\ at[t] = "idle" /\ entryOf(t) # 0 /\ lock(SideOf[t], t)
  /\ t = "R" /\ connecting => RunsEarly
  /\ go(t, IF isConnected(t) THEN "getFrame" ELSE "leave")
  /\ UNCHANGED <<entries, queueVars, side, using, current>>

(* The other side may have left since: then there is no frame.  R goes on  *)
(* without, W writes to the frame it did not get.                          *)
getFrameOf(t) ==
  /\ at[t] = "getFrame"
  /\ IF isConnected(t)
       THEN /\ using' = [using EXCEPT ![SideOf[t]] = entryOf(t)]
            /\ go(t, "busy") /\ mtx' = [mtx EXCEPT ![SideOf[t]] = "free"]
       ELSE /\ UNCHANGED using
            /\ IF t = "R" THEN return(t, "reader") ELSE go(t, "null") /\ UNCHANGED mtx
  /\ UNCHANGED <<entries, queueVars, side, current>>

(* addFrames and removeFrames find the entry by its id.  A frame is only   *)
(* added if the writer is still connected.                                 *)
finish(t) ==
  /\ at[t] = "busy" /\ lock(SideOf[t], t)
  /\ go(t, IF entryOf(t) # 0 /\ (t = "W" => isConnected(t)) THEN "add" ELSE "skip")
  /\ UNCHANGED <<entries, queueVars, side, using, current>>

finished(t) ==
  /\ at[t] \in {"add", "skip"}
  /\ using' = [using EXCEPT ![SideOf[t]] = 0]
  /\ return(t, SideOf[t])
  /\ UNCHANGED <<entries, queueVars, side, current>>
-----------------------------------------------------------------------------
LinkControl ==
  \/ connect \/ getReader \/ setWriter \/ setReader \/ setConnection \/ setConnected
  \/ connectReturn \/ disconnectSide("writer") \/ disconnectSide("reader")
  \/ leave("C") \/ left("C")

Worker(t) ==
  demandFrames(t) \/ getFrameOf(t) \/ finish(t) \/ finished(t) \/ leave(t) \/ left(t)

LinkNext == LinkControl \/ Worker("W") \/ Worker("R")

LinkSpec == LinkInit /\ [][LinkNext]_linkVars

(* The filter with the writer is run again and again, it has a producer or *)
(* is a head; the operations of the control thread end.                    *)
LinkFairSpec ==
  /\ LinkSpec
  /\ WF_linkVars(Worker("W")) /\ WF_linkVars(Worker("R") /\ at["R"] # "idle")
  /\ WF_linkVars(LinkControl /\ at["C"] # "idle")
-----------------------------------------------------------------------------
LinkTypeOK ==
  /\ writers \in 0 .. MaxConnects /\ readers \in 0 .. MaxConnects
  /\ wQueue \subseteq {writers} \ {0} /\ rQueue \subseteq Ids
  /\ live \subseteq Ids /\ connected \subseteq Ids /\ made \subseteq Ids
  /\ mtx \in [{"writer", "reader"} -> Threads \cup {"free"}]
  /\ at \in [Threads -> {"idle", "getReader", "setWriter", "setReader", "setConnection",
                         "setConnected", "connected", "leave", "gone", "unset", "delete",
                         "getFrame", "busy", "add", "skip", "null"}]
  /\ side \in [Threads -> {"writer", "reader"}]
  /\ using \in [{"writer", "reader"} -> 0 .. MaxConnects]
  /\ current \in 0 .. MaxConnects

(* A queue is deleted by the side that leaves last: nobody has a pointer   *)
(* to a deleted one, or works on one of its frames.                        *)
NoDangling ==
  /\ writers \in wQueue => writers \in live
  /\ readers \in rQueue => readers \in live
  /\ \A s \in {"writer", "reader"} : using[s] # 0 => using[s] \in live
  /\ at["C"] \in {"setConnection", "setConnected"} => current \in live

(* The flag is only set while both filters have their side.                *)
Paired ==
  \A q \in connected : writers = q /\ q \in wQueue /\ readers = q /\ q \in rQueue

(* A worker adds and removes the frame it was given, not one of a newer    *)
(* connection with the same id.                                            *)
OwnFrame == \A t \in {"W", "R"} : at[t] = "add" => using[SideOf[t]] = entryOf(t)

(* Once the reader has left, the writer's filter frees the queue and its   *)
(* id, and can be connected again.                                         *)
Reclaimed ==
  \A q \in Ids : q \in made /\ readers # q ~> q \notin live \/ at["W"] = "null"

(* connect, disconnectWriter, disconnectReader, processFrame: the two      *)
(* filters and the queue between them agree at every step.                 *)
LinkSound == LinkTypeOK /\ NoDangling /\ Paired /\ OwnFrame
=============================================================================
