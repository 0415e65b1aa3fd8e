---------------------------- MODULE FilterEvents ----------------------------
(***************************************************************************)
(* The events of filters (Event.cpp, Filter.cpp): who makes them, who runs *)
(* them and when, and the mutexes that are held meanwhile.  The control    *)
(* thread sends events to filters and connects them; the worker of a       *)
(* filter runs its events before it processes a frame; a tail filter sends *)
(* events to the filters before it (Dasher::sendSetReferenceEvent).  Tail   *)
(* filters have no queue: their events are run by the thread that pushes   *)
(* them, at once and without the mutex.                                    *)
(*                                                                         *)
(* Each event is made at a time of its own.  An operation that takes one   *)
(* mutex and no other is a step that waits for it to be free.              *)
(***************************************************************************)
EXTENDS Integers, FiniteSets

CONSTANTS
  Mids,       \* filters that queue events
  TailF,      \* the tail filter they are connected to
  None,
  Delays,     \* of the events the control thread makes
  Reconnect,  \* whether filters that are connected are ever connected again
  MaxEvents,  \* bound: events
  MaxTime     \* bound: the clock

EventsAssumption ==
  /\ TailF \notin Mids /\ "control" \notin Mids \cup {TailF}
  /\ None \notin Mids \cup {TailF, "control"}
  /\ Delays \subseteq Nat /\ Reconnect \in BOOLEAN
  /\ MaxEvents \in Nat /\ MaxTime \in Nat

Control == "control"
Runners == Mids \cup {TailF}
Threads == Runners \cup {Control}   \* the worker of a filter has its name

VARIABLES
  now,
  eventQueue, \* of each filter: its events, a priority queue by timestamp
  owner,      \* of the mutex of each filter: a thread, or None
  joined,     \* filters connected to the tail filter
  pc,         \* of each thread
  target,     \* of each thread: the filter its step is about
  event,      \* of each thread: the event it is to push
  made,       \* history: events made
  executed    \* history: events that were run, with the time

eventVars == <<now, eventQueue, owner, joined, pc, target, event, made, executed>>

EventsInit ==
  /\ now = 0 /\ eventQueue = [f \in Runners |-> {}]
  /\ owner = [f \in Runners |-> None] /\ joined = {}
  /\ pc = [t \in Threads |-> "idle"]
  /\ target = [t \in Threads |-> None] /\ event = [t \in Threads |-> None]
  /\ made = {} /\ executed = {}
-----------------------------------------------------------------------------
free(f) == owner[f] = None

goto(t, label) == pc' = [pc EXCEPT ![t] = label]

(* Thread t is done with its filter and its event.                         *)
return(t) ==
  /\ pc' = [pc EXCEPT ![t] = "idle"]
  /\ target' = [target EXCEPT ![t] = None] /\ event' = [event EXCEPT ![t] = None]

(* Making an event takes the time as its timestamp.                        *)
newEvent(t, f, delay) ==
  /\ Cardinality(made) < MaxEvents /\ now + delay < MaxTime
  /\ now' = now + 1
  /\ event' = [event EXCEPT ![t] =
       [from |-> t, to |-> f, timestamp |-> now, delay |-> delay]]
  /\ made' = made \cup {event'[t]}
  /\ target' = [target EXCEPT ![t] = f]

(* Mutant of canBeExecuted: the delay is compared the wrong way round.     *)
canBeExecutedEarly(e) == now - e.timestamp <= e.delay

canBeExecuted(e) == now - e.timestamp >= e.delay

(* Mutant of runnable: each event waits for its own time only.             *)
runnableAny(f) == {e \in eventQueue[f] : canBeExecuted(e)}

(* The events processEvent runs: those before the first one, in order of   *)
(* their timestamps, whose time has not come.                              *)
runnable(f) ==
  {e \in eventQueue[f] :
     \A d \in eventQueue[f] : d.timestamp <= e.timestamp => canBeExecuted(d)}

processEvents(f) ==
  /\ free(f)
  /\ executed' = executed \cup {[e |-> e, at |-> now] : e \in runnable(f)}
  /\ eventQueue' = [eventQueue EXCEPT ![f] = @ \ runnable(f)]

(* BaseFilter's pushEvent, and that of TailFilter.                         *)
pushEvent(t) ==
  IF target[t] = TailF
    THEN /\ executed' = executed \cup {[e |-> event[t], at |-> now]}
         /\ UNCHANGED eventQueue
    ELSE /\ eventQueue' = [eventQueue EXCEPT ![target[t]] = @ \cup {event[t]}]
         /\ UNCHANGED executed
-----------------------------------------------------------------------------
(* PipelineManager::processEvent for a filter.                             *)
command ==
  /\ pc[Control] = "idle"
  /\ \E f \in Runners, d \in Delays : newEvent(Control, f, d)
  /\ goto(Control, "push")
  /\ UNCHANGED <<eventQueue, owner, joined, executed>>

processFilterEvent ==
  /\ pc[Control] = "push"
  /\ target[Control] # TailF => free(target[Control])
  /\ pushEvent(Control)
  /\ return(Control)
  /\ UNCHANGED <<now, owner, joined, made>>

(* BaseFilter::connect of filter f and the tail filter: the events of both *)
(* are run, the mutex of f is taken and, twice, that of the tail filter.   *)
connect(f) ==
  /\ pc[Control] = "idle"
  /\ f \notin joined \/ Reconnect
  /\ processEvents(f)
  /\ target' = [target EXCEPT ![Control] = f]
  /\ goto(Control, "tailEvents")
  /\ UNCHANGED <<now, owner, joined, event, made>>

connectTailEvents ==
  /\ pc[Control] = "tailEvents"
  /\ processEvents(TailF)
  /\ goto(Control, "lock")
  /\ UNCHANGED <<now, owner, joined, target, event, made>>

connectLock ==
  /\ pc[Control] = "lock"
  /\ free(target[Control])
  /\ owner' = [owner EXCEPT ![target[Control]] = Control]
  /\ goto(Control, "getReader")
  /\ UNCHANGED <<now, eventQueue, joined, target, event, made, executed>>

unlock(f) == owner' = [owner EXCEPT ![f] = None]

(* Mutant of getReader: the mutex of the tail filter is held until the end. *)
getReaderHeld ==
  /\ pc[Control] = "getReader"
  /\ free(TailF)
  /\ goto(Control, "setReader")
  /\ owner' = [owner EXCEPT ![TailF] = Control]
  /\ UNCHANGED <<now, eventQueue, joined, target, event, made, executed>>

getReader ==
  /\ pc[Control] = "getReader"
  /\ free(TailF)
  /\ IF target[Control] \in joined
       THEN return(Control) /\ unlock(target[Control])
       ELSE goto(Control, "setReader") /\ UNCHANGED <<owner, target, event>>
  /\ UNCHANGED <<now, eventQueue, joined, made, executed>>

setReader ==
  /\ pc[Control] = "setReader"
  /\ free(TailF)
  /\ joined' = joined \cup {target[Control]}
  /\ return(Control) /\ unlock(target[Control])
  /\ UNCHANGED <<now, eventQueue, made, executed>>

(* The worker of filter f runs its events and goes on to process a frame.  *)
runEvents(f) ==
  /\ pc[f] = "idle"
  /\ processEvents(f)
  /\ f = TailF \/ eventQueue[f] # {}
  /\ goto(f, IF f = TailF THEN "process" ELSE "idle")
  /\ UNCHANGED <<now, owner, joined, target, event, made>>

(* doProcessFrame of the tail filter: it makes an event for another filter *)
(* or does not, and sends it.                                              *)
process ==
  /\ pc[TailF] = "process"
  /\ \/ /\ \E f \in Mids : newEvent(TailF, f, 0)
        /\ goto(TailF, "send")
     \/ goto(TailF, "idle") /\ UNCHANGED <<now, event, made, target>>
  /\ UNCHANGED <<eventQueue, owner, joined, executed>>

(* sendEvent: the mutex of the tail filter is held while the event is      *)
(* pushed.                                                                 *)
sendEvent ==
  /\ pc[TailF] = "send"
  /\ free(TailF)
  /\ IF target[TailF] \in joined
       THEN /\ goto(TailF, "sending") /\ owner' = [owner EXCEPT ![TailF] = TailF]
            /\ UNCHANGED <<target, event>>
       ELSE return(TailF) /\ UNCHANGED owner
  /\ UNCHANGED <<now, eventQueue, joined, made, executed>>

sent ==
  /\ pc[TailF] = "sending"
  /\ free(target[TailF])
  /\ pushEvent(TailF)
  /\ return(TailF) /\ unlock(TailF)
  /\ UNCHANGED <<now, joined, made>>

tick ==
  /\ now < MaxTime
  /\ now' = now + 1
  /\ UNCHANGED <<eventQueue, owner, joined, pc, target, event, made, executed>>
-----------------------------------------------------------------------------
Finish == processFilterEvent \/ connectTailEvents \/ connectLock \/ getReader \/ setReader

Client == command \/ (\E f \in Mids : connect(f)) \/ Finish

TailWorker == process \/ sendEvent \/ sent

EventsNext == Client \/ (\E f \in Runners : runEvents(f)) \/ TailWorker \/ tick

EventsSpec == EventsInit /\ [][EventsNext]_eventVars

(* Frames keep coming, so the pool runs each filter again and again        *)
(* (QueuedIsRun of WorkersPool).  A thread that waits for a mutex that is  *)
(* free again and again gets it in the end.                                *)
EventsFairSpec ==
  /\ EventsSpec /\ WF_eventVars(tick) /\ WF_eventVars(TailWorker)
  /\ SF_eventVars(Finish) /\ \A f \in Runners : SF_eventVars(runEvents(f))
-----------------------------------------------------------------------------
(* Each event queued is one for the filter, and tail filters queue none.   *)
EventsTypeOK ==
  /\ now \in 0 .. MaxTime
  /\ made \subseteq [from : Threads, to : Runners, timestamp : 0 .. now - 1, delay : Nat]
  /\ executed \subseteq [e : made, at : 0 .. now]
  /\ \A f \in Runners : \A e \in eventQueue[f] : e \in made /\ e.to = f
  /\ eventQueue \in [Runners -> SUBSET made] /\ eventQueue[TailF] = {}
  /\ owner \in [Runners -> {None, Control, TailF}] /\ joined \subseteq Mids
  /\ pc \in [Threads -> {"idle", "push", "tailEvents", "lock", "getReader",
                        "setReader", "process", "send", "sending"}]
  /\ target \in [Threads -> Runners \cup {None}]
  /\ event \in [Threads -> made \cup {None}]

ran == {x.e : x \in executed}

(* canBeExecuted: no event of a filter with a queue is run before its time *)
(* has come.                                                               *)
NotEarly ==
  \A x \in executed : x.e.to # TailF => x.at >= x.e.timestamp + x.e.delay

(* operator< of Event: the events one thread sends to a filter are run in  *)
(* the order they were made, whatever their delays.                        *)
SenderOrder ==
  \A d, e \in made :
    (d.from = e.from /\ d.to = e.to /\ d.timestamp < e.timestamp /\ e \in ran)
      => d \in ran \/ (d.from = TailF /\ d \notin eventQueue[d.to])

(* Thread t is at a step that takes the mutex of f, and it is not free.    *)
waitsFor(t, f) ==
  /\ ~free(f)
  /\ \/ t = Control /\ f = TailF /\ pc[t] \in {"tailEvents", "getReader", "setReader"}
     \/ t = Control /\ f = target[t] /\ pc[t] \in {"push", "lock"}
     \/ t = TailF /\ f = TailF /\ pc[t] = "send"
     \/ t = TailF /\ f = target[t] /\ pc[t] = "sending"

(* connect and sendEvent: no two threads wait for the mutex of each other, *)
(* and none for one that it has.                                           *)
NoDeadlock ==
  \A f, g \in Runners : ~(waitsFor(owner[f], g) /\ waitsFor(owner[g], f))

(* processEvent: an event is run in the end, whatever is before it.        *)
AllExecuted == \A f \in Mids : eventQueue[f] # {} ~> eventQueue[f] = {}

(* pushEvent, processEvent: an event is executed when it is due, and the   *)
(* events that one caller sends to one filter in the order of their calls. *)
InTurn == EventsTypeOK /\ NotEarly /\ SenderOrder
=============================================================================
