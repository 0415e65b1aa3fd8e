-------------------------- MODULE FilterEvents_proofs --------------------------
(***************************************************************************)
(* Proofs about the events of filters, for any number of filters before    *)
(* the tail filter, of events, and any delays: an event is executed when   *)
(* it is due and after those its maker sent before; and, if no connected   *)
(* filter is connected again (Reconnect), no two threads wait for each     *)
(* other.                                                                  *)
(***************************************************************************)
EXTENDS FilterEvents, TLAPS

(* Thread t made the event it has and has not given it away.               *)
sends(t) ==
  \/ t = Control /\ pc[t] = "push"
  \/ t = TailF /\ pc[t] \in {"send", "sending"}

(* Such an event is the last one its thread made.                          *)
Sending ==
  \A t \in {Control, TailF} : sends(t) =>
    /\ event[t] \in made /\ event[t].from = t /\ event[t].to = target[t]
    /\ \A d \in made : d.from = t => d.timestamp <= event[t].timestamp

(* The makers of events, and which steps each thread gets to.              *)
Places ==
  /\ \A e \in made : e.from \in {Control, TailF}
  /\ pc[Control] \in {"idle", "push", "tailEvents", "lock", "getReader", "setReader"}
  /\ pc[TailF] \in {"idle", "process", "send", "sending"}
  /\ pc[Control] = "push" => target[Control] \in Runners
  /\ pc[Control] \in {"tailEvents", "lock", "getReader", "setReader"} =>
       target[Control] \in Mids
  /\ pc[TailF] \in {"send", "sending"} => target[TailF] \in Mids

(* Whatever an event was made before is not waiting behind it.             *)
NoneBehind ==
  \A d, e \in made :
    (d.from = e.from /\ d.to = e.to /\ d.timestamp < e.timestamp /\ e \in ran)
      => d \notin eventQueue[d.to]

(* An event of the control thread is not lost.                             *)
Settled ==
  \A d \in made :
    \/ d \in ran \/ d \in eventQueue[d.to] \/ d.from = TailF
    \/ sends(Control) /\ d = event[Control]

IInv ==
  EventsTypeOK /\ Places /\ Sending /\ NoneBehind /\ Settled /\ NotEarly
-----------------------------------------------------------------------------
LEMMA InitIInv == ASSUME EventsAssumption PROVE EventsInit => IInv
<1> SUFFICES ASSUME EventsInit PROVE IInv
  OBVIOUS
<1> USE DEF EventsInit, EventsAssumption, Threads, Runners, Control
<1>1. EventsTypeOK
  BY DEF EventsTypeOK
<1>2. Places /\ Sending /\ NoneBehind /\ Settled /\ NotEarly
  BY DEF Places, Sending, sends, NoneBehind, Settled, NotEarly
<1> QED BY <1>1, <1>2 DEF IInv

(* processEvent runs the events of a filter that are due, and those it     *)
(* leaves were made after them.                                            *)
LEMMA Processed ==
  ASSUME EventsAssumption, IInv, NEW f \in Runners, processEvents(f),
         UNCHANGED <<now, made>>
  PROVE  /\ executed' \subseteq [e : made, at : 0 .. now]
         /\ \A g \in Runners : eventQueue'[g] \subseteq eventQueue[g]
         /\ eventQueue' \in [Runners -> SUBSET made]
         /\ \A d \in made : d \in ran => d \in ran'
         /\ \A d \in made : d \in eventQueue[d.to] => d \in ran' \/ d \in eventQueue'[d.to]
         /\ NoneBehind' /\ NotEarly'
<1> USE DEF EventsAssumption, IInv, processEvents
<1>1. /\ runnable(f) \subseteq eventQueue[f] /\ eventQueue[f] \subseteq made
      /\ \A e \in eventQueue[f] : e.to = f
      /\ eventQueue' = [eventQueue EXCEPT ![f] = @ \ runnable(f)]
      /\ now \in Nat /\ \A e \in made : e.timestamp \in Nat /\ e.delay \in Nat /\ e.to \in Runners
  BY DEF EventsTypeOK, runnable
<1>2. ran' = ran \cup runnable(f)
  <2> DEFINE X == {[e |-> e, at |-> now] : e \in runnable(f)}
  <2>1. ran' = ran \cup {x.e : x \in X}
    BY DEF ran
  <2>2. \A e \in runnable(f) : [e |-> e, at |-> now] \in X /\ [e |-> e, at |-> now].e = e
    OBVIOUS
  <2>3. ASSUME NEW x \in X PROVE x.e \in runnable(f)
    <3>1. PICK e \in runnable(f) : x = [e |-> e, at |-> now]
      OBVIOUS
    <3> QED BY <3>1
  <2> HIDE DEF X
  <2>4. {x.e : x \in X} = runnable(f)
    BY <2>2, <2>3
  <2> QED BY <2>1, <2>4
<1>3. executed' \subseteq [e : made, at : 0 .. now]
  BY <1>1 DEF EventsTypeOK
<1>4. /\ \A g \in Runners : eventQueue'[g] = IF g = f THEN eventQueue[f] \ runnable(f)
                                              ELSE eventQueue[g]
      /\ eventQueue' \in [Runners -> SUBSET made]
  BY <1>1 DEF EventsTypeOK
<1>5. NoneBehind'
  <2> SUFFICES ASSUME NEW d \in made, NEW e \in made, d.from = e.from, d.to = e.to,
                      d.timestamp < e.timestamp, e \in ran', d \in eventQueue'[d.to]
               PROVE  FALSE
    BY DEF NoneBehind
  <2>1. d \in eventQueue[d.to]
    BY <1>1, <1>4
  <2>2. CASE e \in ran
    BY <2>1, <2>2 DEF NoneBehind
  <2>3. CASE e \in runnable(f)
    <3>1. d.to = f /\ d \in eventQueue[f]
      BY <1>1, <2>1, <2>3
    <3>2. \A c \in eventQueue[f] : c.timestamp <= d.timestamp => canBeExecuted(c)
      <4> SUFFICES ASSUME NEW c \in eventQueue[f], c.timestamp <= d.timestamp
                   PROVE  canBeExecuted(c)
        OBVIOUS
      <4>1. c.timestamp <= e.timestamp
        BY <1>1
      <4> QED BY <2>3, <4>1 DEF runnable
    <3>3. d \in runnable(f)
      BY <3>1, <3>2 DEF runnable
    <3> QED BY <1>4, <3>1, <3>3
  <2> QED BY <1>2, <2>2, <2>3
<1>6. NotEarly'
  <2> SUFFICES ASSUME NEW x \in executed', x.e.to # TailF
               PROVE  x.at >= x.e.timestamp + x.e.delay
    BY DEF NotEarly
  <2>1. CASE x \in executed
    BY <2>1 DEF NotEarly
  <2>2. CASE x \notin executed
    <3>1. PICK e \in runnable(f) : x = [e |-> e, at |-> now]
      BY <2>2
    <3>2. canBeExecuted(e)
      BY <1>1, <3>1 DEF runnable
    <3> QED BY <1>1, <3>1, <3>2 DEF canBeExecuted
  <2> QED BY <2>1, <2>2
<1> QED BY <1>1, <1>2, <1>3, <1>4, <1>5, <1>6

(* pushEvent queues the event of a thread, or runs it if it is for the     *)
(* tail filter.                                                            *)
LEMMA Pushed ==
  ASSUME EventsAssumption, IInv, NEW t \in {Control, TailF}, sends(t), pushEvent(t),
         UNCHANGED <<now, made>>
  PROVE  /\ executed' \subseteq [e : made, at : 0 .. now]
         /\ eventQueue' \in [Runners -> SUBSET made] /\ eventQueue'[TailF] = {}
         /\ \A g \in Runners : \A e \in eventQueue'[g] : e.to = g
         /\ \A d \in made : d \in ran => d \in ran'
         /\ \A d \in made : d \in eventQueue[d.to] => d \in eventQueue'[d.to]
         /\ event[t] \in ran' \/ event[t] \in eventQueue'[event[t].to]
         /\ NoneBehind' /\ NotEarly'
<1> USE DEF EventsAssumption, IInv, pushEvent
<1>1. /\ event[t] \in made /\ event[t].from = t /\ event[t].to = target[t]
      /\ \A d \in made : d.from = t => d.timestamp <= event[t].timestamp
  BY DEF Sending
<1>2. /\ now \in Nat /\ \A e \in made : e.timestamp \in Nat /\ e.to \in Runners
      /\ eventQueue \in [Runners -> SUBSET made] /\ eventQueue[TailF] = {}
      /\ executed \subseteq [e : made, at : 0 .. now]
      /\ \A g \in Runners : \A e \in eventQueue[g] : e.to = g
  BY DEF EventsTypeOK
<1>3. CASE target[t] = TailF
  <2>1. /\ executed' = executed \cup {[e |-> event[t], at |-> now]}
        /\ eventQueue' = eventQueue
    BY <1>3
  <2>2. ran' = ran \cup {event[t]}
    <3> DEFINE x0 == [e |-> event[t], at |-> now]
    <3>1. x0.e = event[t] /\ executed' = executed \cup {x0}
      BY <2>1
    <3> HIDE DEF x0
    <3> QED BY <3>1 DEF ran
  <2>3. executed' \subseteq [e : made, at : 0 .. now]
    BY <1>1, <1>2, <2>1
  <2>4. NoneBehind'
    <3> SUFFICES ASSUME NEW d \in made, NEW e \in made, d.from = e.from, d.to = e.to,
                        d.timestamp < e.timestamp, e \in ran', d \in eventQueue[d.to]
                 PROVE  FALSE
      BY <2>1 DEF NoneBehind
    <3>1. CASE e \in ran
      BY <3>1 DEF NoneBehind
    <3>2. CASE e = event[t]
      BY <1>1, <1>2, <1>3, <3>2
    <3> QED BY <2>2, <3>1, <3>2
  <2>5. NotEarly'
    BY <1>1, <1>3, <2>1 DEF NotEarly
  <2> QED BY <1>2, <2>1, <2>2, <2>3, <2>4, <2>5
<1>4. CASE target[t] # TailF
  <2>1. /\ eventQueue' = [eventQueue EXCEPT ![target[t]] = @ \cup {event[t]}]
        /\ executed' = executed /\ ran' = ran
    BY <1>4 DEF ran
  <2>2. target[t] \in Runners
    BY <1>1, <1>2
  <2>3. \A g \in Runners :
          eventQueue'[g] = IF g = target[t] THEN eventQueue[g] \cup {event[t]}
                           ELSE eventQueue[g]
    BY <1>2, <2>1
  <2>4. eventQueue' \in [Runners -> SUBSET made] /\ eventQueue'[TailF] = {}
    BY <1>1, <1>2, <1>4, <2>1
  <2>5. NoneBehind'
    <3> SUFFICES ASSUME NEW d \in made, NEW e \in made, d.from = e.from, d.to = e.to,
                        d.timestamp < e.timestamp, e \in ran, d \in eventQueue'[d.to]
                 PROVE  FALSE
      BY <2>1 DEF NoneBehind
    <3>1. CASE d \in eventQueue[d.to]
      BY <3>1 DEF NoneBehind
    <3>2. CASE d = event[t]
      BY <1>1, <1>2, <3>2
    <3> QED BY <1>2, <2>3, <3>1, <3>2
  <2>6. NotEarly'
    BY <2>1 DEF NotEarly
  <2> QED BY <1>1, <1>2, <2>1, <2>2, <2>3, <2>4, <2>5, <2>6
<1> QED BY <1>3, <1>4

(* A new event is the last of all, so that nothing was made after it.      *)
LEMMA Made ==
  ASSUME EventsAssumption, IInv, NEW t \in {Control, TailF}, NEW f \in Runners,
         NEW delay \in Nat, newEvent(t, f, delay), ~sends(t),
         UNCHANGED <<eventQueue, owner, joined, executed>>
  PROVE  /\ now' \in 0 .. MaxTime /\ now' = now + 1 /\ event'[t].timestamp = now
         /\ made' = made \cup {event'[t]} /\ target' = [target EXCEPT ![t] = f]
         /\ event' = [event EXCEPT ![t] = event'[t]]
         /\ event'[t] \in [from : {t}, to : {f}, timestamp : {now}, delay : Nat]
         /\ made' \subseteq
              [from : Threads, to : Runners, timestamp : 0 .. now' - 1, delay : Nat]
         /\ executed' \subseteq [e : made', at : 0 .. now']
         /\ eventQueue' \in [Runners -> SUBSET made']
         /\ \A d \in made : d.timestamp < now
         /\ NoneBehind' /\ NotEarly'
<1> USE DEF EventsAssumption, IInv, newEvent
<1>1. /\ now \in Nat /\ t \in Threads /\ now + delay < MaxTime
      /\ made \subseteq [from : Threads, to : Runners, timestamp : 0 .. now - 1, delay : Nat]
      /\ executed \subseteq [e : made, at : 0 .. now]
      /\ eventQueue \in [Runners -> SUBSET made] /\ event \in [Threads -> made \cup {None}]
  BY DEF EventsTypeOK, Threads, Runners
<1>2. event'[t] = [from |-> t, to |-> f, timestamp |-> now, delay |-> delay]
  BY <1>1
<1>3. now' \in 0 .. MaxTime /\ now' = now + 1
  BY <1>1
<1>4. made' \subseteq [from : Threads, to : Runners, timestamp : 0 .. now' - 1, delay : Nat]
  <2>1. event'[t] \in [from : Threads, to : Runners, timestamp : 0 .. now' - 1, delay : Nat]
    BY <1>1, <1>2, <1>3
  <2>2. ASSUME NEW d \in made
        PROVE  d \in [from : Threads, to : Runners, timestamp : 0 .. now' - 1, delay : Nat]
    BY <1>1, <1>3
  <2> QED BY <2>1, <2>2
<1>5. executed' \subseteq [e : made', at : 0 .. now']
  <2> SUFFICES ASSUME NEW x \in executed PROVE x \in [e : made', at : 0 .. now']
    OBVIOUS
  <2>1. x \in [e : made, at : 0 .. now]
    BY <1>1
  <2>2. made \subseteq made' /\ 0 .. now \subseteq 0 .. now'
    BY <1>1, <1>3
  <2> QED BY <2>1, <2>2
<1>6. \A d \in made : d.timestamp < now /\ d.timestamp \in Nat
  BY <1>1
<1>7. NoneBehind'
  <2> SUFFICES ASSUME NEW d \in made', NEW e \in made', d.from = e.from, d.to = e.to,
                      d.timestamp < e.timestamp, e \in ran, d \in eventQueue[d.to]
               PROVE  FALSE
    BY DEF NoneBehind, ran
  <2>1. e \in made
    BY <1>1 DEF ran
  <2>2. d \in made
    BY <1>1, <1>2, <1>6, <2>1
  <2> QED BY <2>1, <2>2 DEF NoneBehind
<1>8. NotEarly'
  BY DEF NotEarly
<1>9. /\ made' = made \cup {event'[t]} /\ target' = [target EXCEPT ![t] = f]
      /\ event' = [event EXCEPT ![t] = event'[t]]
  BY <1>1, <1>2
<1>10. eventQueue' \in [Runners -> SUBSET made']
  BY <1>1, <1>9
<1> QED BY <1>2, <1>3, <1>4, <1>5, <1>6, <1>7, <1>8, <1>9, <1>10

(* PipelineManager::processEvent makes an event for a filter.              *)
LEMMA CommandIInv == ASSUME EventsAssumption, IInv, command PROVE IInv'
<1> USE DEF EventsAssumption, IInv
<1>1. PICK f \in Runners, delay \in Delays : newEvent(Control, f, delay)
  BY DEF command
<1>2. /\ pc[Control] = "idle" /\ pc' = [pc EXCEPT ![Control] = "push"]
      /\ UNCHANGED <<eventQueue, owner, joined, executed>>
  BY DEF command, goto
<1>3. /\ now' \in 0 .. MaxTime /\ now' = now + 1 /\ event'[Control].timestamp = now
      /\ made' = made \cup {event'[Control]} /\ target' = [target EXCEPT ![Control] = f]
      /\ event' = [event EXCEPT ![Control] = event'[Control]]
      /\ event'[Control] \in [from : {Control}, to : {f}, timestamp : {now}, delay : Nat]
      /\ made' \subseteq
           [from : Threads, to : Runners, timestamp : 0 .. now' - 1, delay : Nat]
      /\ executed' \subseteq [e : made', at : 0 .. now']
      /\ eventQueue' \in [Runners -> SUBSET made']
      /\ \A d \in made : d.timestamp < now
      /\ NoneBehind' /\ NotEarly'
  BY <1>1, <1>2, Made DEF sends
<1>4. EventsTypeOK'
  BY <1>2, <1>3 DEF EventsTypeOK
<1>5. Places'
  BY <1>2, <1>3 DEF Places, EventsTypeOK, Control
<1>6. Sending'
  BY <1>2, <1>3 DEF Sending, sends, EventsTypeOK
<1>7. Settled'
  BY <1>2, <1>3 DEF Settled, sends, EventsTypeOK, ran
<1> QED BY <1>3, <1>4, <1>5, <1>6, <1>7

(* processFilterEvent gives that event to the filter.                      *)
LEMMA FilterEventIInv == ASSUME EventsAssumption, IInv, processFilterEvent PROVE IInv'
<1> USE DEF EventsAssumption, IInv
<1>1. /\ pc[Control] = "push" /\ pc' = [pc EXCEPT ![Control] = "idle"]
      /\ target' = [target EXCEPT ![Control] = None]
      /\ event' = [event EXCEPT ![Control] = None]
      /\ UNCHANGED <<now, owner, joined, made>>
  BY DEF processFilterEvent, return
<1>2. /\ executed' \subseteq [e : made, at : 0 .. now]
      /\ eventQueue' \in [Runners -> SUBSET made] /\ eventQueue'[TailF] = {}
      /\ \A g \in Runners : \A e \in eventQueue'[g] : e.to = g
      /\ \A d \in made : d \in ran => d \in ran'
      /\ \A d \in made : d \in eventQueue[d.to] => d \in eventQueue'[d.to]
      /\ event[Control] \in ran' \/ event[Control] \in eventQueue'[event[Control].to]
      /\ NoneBehind' /\ NotEarly'
  BY <1>1, Pushed DEF processFilterEvent, sends
<1>3. EventsTypeOK'
  BY <1>1, <1>2 DEF EventsTypeOK
<1>4. Places'
  BY <1>1, <1>2 DEF Places, EventsTypeOK
<1>5. Sending'
  BY <1>1, <1>2 DEF Sending, sends, EventsTypeOK
<1>6. Settled'
  BY <1>1, <1>2 DEF Settled
<1> QED BY <1>2, <1>3, <1>4, <1>5, <1>6

(* connect runs the events of the filter first,                            *)
LEMMA ConnectIInv == ASSUME EventsAssumption, IInv, NEW f \in Mids, connect(f) PROVE IInv'
<1> USE DEF EventsAssumption, IInv
<1>1. /\ pc[Control] = "idle" /\ pc' = [pc EXCEPT ![Control] = "tailEvents"]
      /\ target' = [target EXCEPT ![Control] = f] /\ f \in Runners
      /\ UNCHANGED <<now, owner, joined, event, made>>
  BY DEF connect, goto, Runners
<1>2. /\ executed' \subseteq [e : made, at : 0 .. now]
      /\ \A g \in Runners : eventQueue'[g] \subseteq eventQueue[g]
      /\ eventQueue' \in [Runners -> SUBSET made]
      /\ \A d \in made : d \in ran => d \in ran'
      /\ \A d \in made : d \in eventQueue[d.to] => d \in ran' \/ d \in eventQueue'[d.to]
      /\ NoneBehind' /\ NotEarly'
  BY <1>1, Processed DEF connect
<1>3. EventsTypeOK'
  <2>1. /\ \A g \in Runners : \A e \in eventQueue'[g] : e \in made /\ e.to = g
        /\ eventQueue'[TailF] = {}
    BY <1>2 DEF EventsTypeOK, Runners
  <2> QED BY <1>1, <1>2, <2>1 DEF EventsTypeOK
<1>4. Places'
  BY <1>1, <1>2 DEF Places, EventsTypeOK, Control
<1>5. Sending'
  BY <1>1, <1>2 DEF Sending, sends
<1>6. Settled'
  BY <1>1, <1>2 DEF Settled, sends
<1> QED BY <1>2, <1>3, <1>4, <1>5, <1>6

(* and those of the tail filter, which has none.                           *)
LEMMA TailEventsIInv == ASSUME EventsAssumption, IInv, connectTailEvents PROVE IInv'
<1> USE DEF EventsAssumption, IInv
<1>1. /\ pc[Control] = "tailEvents" /\ pc' = [pc EXCEPT ![Control] = "lock"]
      /\ TailF \in Runners /\ UNCHANGED <<now, owner, joined, target, event, made>>
  BY DEF connectTailEvents, goto, Runners
<1>2. /\ executed' \subseteq [e : made, at : 0 .. now]
      /\ \A g \in Runners : eventQueue'[g] \subseteq eventQueue[g]
      /\ eventQueue' \in [Runners -> SUBSET made]
      /\ \A d \in made : d \in ran => d \in ran'
      /\ \A d \in made : d \in eventQueue[d.to] => d \in ran' \/ d \in eventQueue'[d.to]
      /\ NoneBehind' /\ NotEarly'
  BY <1>1, Processed DEF connectTailEvents
<1>3. EventsTypeOK'
  BY <1>1, <1>2 DEF EventsTypeOK, Threads
<1>4. Places'
  BY <1>1, <1>2 DEF Places
<1>5. Sending'
  BY <1>1, <1>2 DEF Sending, sends
<1>6. Settled'
  BY <1>1, <1>2 DEF Settled, sends
<1> QED BY <1>2, <1>3, <1>4, <1>5, <1>6

(* The rest of connect does not change any event.                          *)
LEMMA LockIInv == ASSUME EventsAssumption, IInv, connectLock PROVE IInv'
<1> USE DEF EventsAssumption, IInv
<1>1. /\ pc[Control] = "lock" /\ pc' = [pc EXCEPT ![Control] = "getReader"]
      /\ owner' = [owner EXCEPT ![target[Control]] = Control]
      /\ UNCHANGED <<now, eventQueue, joined, target, event, made, executed>>
  BY DEF connectLock, goto
<1>2. EventsTypeOK'
  BY <1>1 DEF EventsTypeOK
<1>3. Places'
  BY <1>1 DEF Places
<1>4. Sending'
  BY <1>1 DEF Sending, sends
<1>5. Settled'
  BY <1>1 DEF Settled, sends, ran
<1>6. NoneBehind' /\ NotEarly'
  BY <1>1 DEF NoneBehind, NotEarly, ran
<1> QED BY <1>2, <1>3, <1>4, <1>5, <1>6

(* getReader gives the mutex back if the reader is taken.                  *)
LEMMA GetReaderIInv == ASSUME EventsAssumption, IInv, getReader PROVE IInv'
<1> USE DEF EventsAssumption, IInv
<1>1. /\ pc[Control] = "getReader" /\ UNCHANGED <<now, eventQueue, joined, made, executed>>
      /\ \/ /\ pc' = [pc EXCEPT ![Control] = "idle"]
            /\ target' = [target EXCEPT ![Control] = None]
            /\ event' = [event EXCEPT ![Control] = None]
            /\ owner' = [owner EXCEPT ![target[Control]] = None]
         \/ /\ pc' = [pc EXCEPT ![Control] = "setReader"]
            /\ UNCHANGED <<owner, target, event>>
  BY DEF getReader, goto, return, unlock
<1>2. EventsTypeOK'
  BY <1>1 DEF EventsTypeOK
<1>3. Places'
  <2>1. pc'[Control] \in {"idle", "setReader"} /\ pc'[TailF] = pc[TailF]
    BY <1>1 DEF EventsTypeOK, Threads, Runners, Control
  <2>2. /\ target'[TailF] = target[TailF]
        /\ (pc'[Control] = "setReader" => target'[Control] = target[Control])
    BY <1>1 DEF EventsTypeOK, Threads, Runners, Control
  <2> QED BY <1>1, <2>1, <2>2 DEF Places
<1>4. Sending'
  BY <1>1 DEF Sending, sends, Threads, EventsTypeOK, Runners
<1>5. Settled'
  BY <1>1 DEF Settled, sends, ran
<1>6. NoneBehind' /\ NotEarly'
  BY <1>1 DEF NoneBehind, NotEarly, ran
<1> QED BY <1>2, <1>3, <1>4, <1>5, <1>6

(* setReader connects the two filters.                                     *)
LEMMA SetReaderIInv == ASSUME EventsAssumption, IInv, setReader PROVE IInv'
<1> USE DEF EventsAssumption, IInv
<1>1. /\ pc[Control] = "setReader" /\ UNCHANGED <<now, eventQueue, made, executed>>
      /\ joined' = joined \cup {target[Control]}
      /\ pc' = [pc EXCEPT ![Control] = "idle"]
      /\ target' = [target EXCEPT ![Control] = None]
      /\ event' = [event EXCEPT ![Control] = None]
      /\ owner' = [owner EXCEPT ![target[Control]] = None]
  BY DEF setReader, return, unlock
<1>2. EventsTypeOK'
  BY <1>1 DEF EventsTypeOK, Places
<1>3. Places'
  BY <1>1 DEF Places, EventsTypeOK
<1>4. Sending'
  BY <1>1 DEF Sending, sends
<1>5. Settled'
  BY <1>1 DEF Settled, sends, ran
<1>6. NoneBehind' /\ NotEarly'
  BY <1>1 DEF NoneBehind, NotEarly, ran
<1> QED BY <1>2, <1>3, <1>4, <1>5, <1>6

(* The worker of a filter runs its events.                                 *)
LEMMA RunEventsIInv == ASSUME EventsAssumption, IInv, NEW f \in Runners, runEvents(f) PROVE IInv'
<1> USE DEF EventsAssumption, IInv
<1>1. /\ pc[f] = "idle" /\ pc' = [pc EXCEPT ![f] = IF f = TailF THEN "process" ELSE "idle"]
      /\ UNCHANGED <<now, owner, joined, target, event, made>>
  BY DEF runEvents, goto
<1>2. /\ executed' \subseteq [e : made, at : 0 .. now]
      /\ \A g \in Runners : eventQueue'[g] \subseteq eventQueue[g]
      /\ eventQueue' \in [Runners -> SUBSET made]
      /\ \A d \in made : d \in ran => d \in ran'
      /\ \A d \in made : d \in eventQueue[d.to] => d \in ran' \/ d \in eventQueue'[d.to]
      /\ NoneBehind' /\ NotEarly'
  BY <1>1, Processed DEF runEvents
<1>3. EventsTypeOK'
  <2>1. /\ \A g \in Runners : \A e \in eventQueue'[g] : e \in made /\ e.to = g
        /\ eventQueue'[TailF] = {}
    BY <1>2 DEF EventsTypeOK, Runners
  <2> QED BY <1>1, <1>2, <2>1 DEF EventsTypeOK
<1>4. Places'
  BY <1>1, <1>2 DEF Places, Control
<1>5. Sending'
  BY <1>1, <1>2 DEF Sending, sends
<1>6. Settled'
  BY <1>1, <1>2 DEF Settled, sends
<1> QED BY <1>2, <1>3, <1>4, <1>5, <1>6

(* sendEvent takes the mutex of the tail filter, or drops the event.       *)
LEMMA SendEventIInv == ASSUME EventsAssumption, IInv, sendEvent PROVE IInv'
<1> USE DEF EventsAssumption, IInv
<1>1. /\ pc[TailF] = "send" /\ UNCHANGED <<now, eventQueue, joined, made, executed>>
      /\ \/ /\ pc' = [pc EXCEPT ![TailF] = "sending"]
            /\ owner' = [owner EXCEPT ![TailF] = TailF]
            /\ UNCHANGED <<target, event>>
         \/ /\ pc' = [pc EXCEPT ![TailF] = "idle"]
            /\ target' = [target EXCEPT ![TailF] = None]
            /\ event' = [event EXCEPT ![TailF] = None] /\ owner' = owner
  BY DEF sendEvent, goto, return
<1>2. EventsTypeOK'
  BY <1>1 DEF EventsTypeOK
<1>3. Places'
  BY <1>1 DEF Places, Threads, EventsTypeOK
<1>4. Sending'
  BY <1>1 DEF Sending, sends, Threads, EventsTypeOK
<1>5. Settled'
  BY <1>1 DEF Settled, sends, Threads, EventsTypeOK, ran, Control
<1>6. NoneBehind' /\ NotEarly'
  BY <1>1 DEF NoneBehind, NotEarly, ran
<1> QED BY <1>2, <1>3, <1>4, <1>5, <1>6

(* Then the other filter has the event.                                    *)
LEMMA SentIInv == ASSUME EventsAssumption, IInv, sent PROVE IInv'
<1> USE DEF EventsAssumption, IInv
<1>1. /\ pc[TailF] = "sending" /\ pc' = [pc EXCEPT ![TailF] = "idle"]
      /\ target' = [target EXCEPT ![TailF] = None]
      /\ event' = [event EXCEPT ![TailF] = None]
      /\ owner' = [owner EXCEPT ![TailF] = None]
      /\ UNCHANGED <<now, joined, made>>
  BY DEF sent, return, unlock
<1>2. /\ executed' \subseteq [e : made, at : 0 .. now]
      /\ eventQueue' \in [Runners -> SUBSET made] /\ eventQueue'[TailF] = {}
      /\ \A g \in Runners : \A e \in eventQueue'[g] : e.to = g
      /\ \A d \in made : d \in ran => d \in ran'
      /\ \A d \in made : d \in eventQueue[d.to] => d \in eventQueue'[d.to]
      /\ event[TailF] \in ran' \/ event[TailF] \in eventQueue'[event[TailF].to]
      /\ NoneBehind' /\ NotEarly'
  BY <1>1, Pushed DEF sent, sends
<1>3. EventsTypeOK'
  BY <1>1, <1>2 DEF EventsTypeOK
<1>4. Places'
  BY <1>1, <1>2 DEF Places, EventsTypeOK
<1>5. Sending'
  BY <1>1, <1>2 DEF Sending, sends, EventsTypeOK
<1>6. Settled'
  BY <1>1, <1>2 DEF Settled, sends
<1> QED BY <1>2, <1>3, <1>4, <1>5, <1>6

(* Time makes nothing early that was not.                                  *)
LEMMA TickIInv == ASSUME EventsAssumption, IInv, tick PROVE IInv'
<1> USE DEF EventsAssumption, IInv
<1>1. /\ now' = now + 1 /\ now < MaxTime
      /\ UNCHANGED <<eventQueue, owner, joined, pc, target, event, made, executed>>
  BY DEF tick
<1>2. EventsTypeOK'
  BY <1>1 DEF EventsTypeOK
<1>3. Places'
  BY <1>1 DEF Places
<1>4. Sending'
  BY <1>1 DEF Sending, sends
<1>5. Settled'
  BY <1>1 DEF Settled, sends, ran
<1>6. NoneBehind' /\ NotEarly'
  BY <1>1 DEF NoneBehind, NotEarly, ran
<1> QED BY <1>2, <1>3, <1>4, <1>5, <1>6

(* doProcessFrame of the tail filter makes an event for another filter.    *)
LEMMA ProcessIInv == ASSUME EventsAssumption, IInv, process PROVE IInv'
<1> USE DEF EventsAssumption, IInv
<1>1. pc[TailF] = "process" /\ UNCHANGED <<eventQueue, owner, joined, executed>>
  BY DEF process
<1>2. ASSUME NEW f \in Mids, newEvent(TailF, f, 0), pc' = [pc EXCEPT ![TailF] = "send"]
      PROVE  IInv'
  <2>1. /\ now' \in 0 .. MaxTime /\ now' = now + 1 /\ event'[TailF].timestamp = now
        /\ made' = made \cup {event'[TailF]} /\ target' = [target EXCEPT ![TailF] = f]
        /\ event' = [event EXCEPT ![TailF] = event'[TailF]]
        /\ event'[TailF] \in [from : {TailF}, to : {f}, timestamp : {now}, delay : Nat]
        /\ made' \subseteq
             [from : Threads, to : Runners, timestamp : 0 .. now' - 1, delay : Nat]
        /\ executed' \subseteq [e : made', at : 0 .. now']
        /\ eventQueue' \in [Runners -> SUBSET made']
        /\ \A d \in made : d.timestamp < now
        /\ NoneBehind' /\ NotEarly'
    BY <1>1, <1>2, Made DEF sends, Runners
  <2>2. EventsTypeOK'
    BY <1>1, <1>2, <2>1 DEF EventsTypeOK
  <2>3. Places'
    BY <1>1, <1>2, <2>1 DEF Places, EventsTypeOK
  <2>4. Sending'
    BY <1>1, <1>2, <2>1 DEF Sending, sends, EventsTypeOK
  <2>5. Settled'
    BY <1>1, <1>2, <2>1 DEF Settled, sends, Threads, EventsTypeOK, ran
  <2> QED BY <2>1, <2>2, <2>3, <2>4, <2>5
<1>3. ASSUME pc' = [pc EXCEPT ![TailF] = "idle"], UNCHANGED <<now, event, made, target>>
      PROVE  IInv'
  <2>1. EventsTypeOK'
    BY <1>1, <1>3 DEF EventsTypeOK
  <2>2. Places' /\ Sending' /\ Settled'
    BY <1>1, <1>3 DEF Places, Sending, Settled, sends, ran
  <2>3. NoneBehind' /\ NotEarly'
    BY <1>1, <1>3 DEF NoneBehind, NotEarly, ran
  <2> QED BY <2>1, <2>2, <2>3
<1> QED BY <1>2, <1>3 DEF process, goto

LEMMA NextIInv == ASSUME EventsAssumption PROVE IInv /\ [EventsNext]_eventVars => IInv'
<1> SUFFICES ASSUME IInv, [EventsNext]_eventVars PROVE IInv'
  OBVIOUS
<1>1. CASE Client
  BY <1>1, CommandIInv, FilterEventIInv, ConnectIInv, TailEventsIInv, LockIInv,
     GetReaderIInv, SetReaderIInv
     DEF Client, Finish
<1>2. CASE \E f \in Runners : runEvents(f)
  BY <1>2, RunEventsIInv
<1>3. CASE TailWorker
  BY <1>3, ProcessIInv, SendEventIInv, SentIInv DEF TailWorker
<1>4. CASE tick
  BY <1>4, TickIInv
<1>5. CASE UNCHANGED eventVars
  BY <1>5
     DEF eventVars, IInv, EventsTypeOK, Places, Sending, sends, NoneBehind, Settled,
         NotEarly, ran
<1> QED BY <1>1, <1>2, <1>3, <1>4, <1>5 DEF EventsNext

LEMMA Invariance == ASSUME EventsAssumption PROVE EventsSpec => []IInv
<1>1. EventsInit => IInv
  BY InitIInv
<1>2. IInv /\ [EventsNext]_eventVars => IInv'
  BY NextIInv
<1> QED BY <1>1, <1>2, PTL DEF EventsSpec
-----------------------------------------------------------------------------
(* canBeExecuted, operator< of Event: no event is executed early, and none *)
(* that one thread sends to a filter overtakes another.                    *)
THEOREM EventsInTurn == ASSUME EventsAssumption PROVE EventsSpec => []InTurn
<1>1. ASSUME IInv PROVE InTurn
  <2>1. SenderOrder
    <3> SUFFICES ASSUME NEW d \in made, NEW e \in made, d.from = e.from, d.to = e.to,
                        d.timestamp < e.timestamp, e \in ran, d \notin ran
                 PROVE  d.from = TailF /\ d \notin eventQueue[d.to]
      BY DEF SenderOrder
    <3>1. d \notin eventQueue[d.to]
      BY <1>1 DEF IInv, NoneBehind
    <3>2. ~(sends(Control) /\ d = event[Control])
      BY <1>1 DEF IInv, Sending, EventsTypeOK
    <3> QED BY <1>1, <3>1, <3>2 DEF IInv, Settled
  <2> QED BY <1>1, <2>1 DEF IInv, InTurn
<1> QED BY <1>1, Invariance, PTL
-----------------------------------------------------------------------------
(* Who holds the mutex of each filter, and whom it connects or sends to.   *)
Locks ==
  /\ \A f \in Mids : owner[f] # None =>
       /\ owner[f] = Control /\ target[Control] = f
       /\ pc[Control] \in {"getReader", "setReader"}
  /\ owner[TailF] # None => owner[TailF] = TailF /\ pc[TailF] = "sending"
  /\ pc[Control] \in {"tailEvents", "lock", "getReader", "setReader"} =>
       target[Control] \in Mids \ joined
  /\ pc[TailF] = "sending" => target[TailF] \in joined

LEMMA LocksKept ==
  ASSUME EventsAssumption, ~Reconnect PROVE EventsSpec => []Locks
<1>1. EventsInit => Locks
  BY DEF EventsInit, Locks, Runners, Threads
<1>2. IInv /\ Locks /\ [EventsNext]_eventVars => Locks'
  <2> SUFFICES ASSUME IInv, Locks, [EventsNext]_eventVars PROVE Locks'
    OBVIOUS
  <2> USE DEF EventsAssumption, Control, goto, return, unlock, free
  <2>1. EventsTypeOK /\ Places
    BY DEF IInv
  <2>2. CASE command
    BY <2>1, <2>2 DEF Locks, command, newEvent
  <2>3. CASE processFilterEvent
    BY <2>1, <2>3 DEF Locks, processFilterEvent
  <2>4. CASE \E f \in Mids : connect(f)
    BY <2>1, <2>4 DEF Locks, connect, EventsTypeOK
  <2>5. CASE connectTailEvents
    BY <2>1, <2>5 DEF Locks, connectTailEvents
  <2>6. CASE connectLock
    BY <2>1, <2>6 DEF Locks, connectLock, EventsTypeOK, Threads
  <2>7. CASE getReader
    BY <2>1, <2>7 DEF Locks, getReader, EventsTypeOK, Threads, Runners
  <2>8. CASE setReader
    BY <2>1, <2>8 DEF Locks, setReader, EventsTypeOK, Threads
  <2>9. CASE \E f \in Runners : runEvents(f)
    BY <2>1, <2>9 DEF Locks, runEvents
  <2>10. CASE process
    BY <2>1, <2>10 DEF Locks, process, newEvent, EventsTypeOK, Threads
  <2>11. CASE sendEvent
    BY <2>1, <2>11 DEF Locks, sendEvent, EventsTypeOK, Threads, Runners
  <2>12. CASE sent
    BY <2>1, <2>12 DEF Locks, sent, EventsTypeOK, Runners
  <2>13. CASE tick \/ UNCHANGED eventVars
    BY <2>13 DEF Locks, tick, eventVars
  <2> QED
    BY <2>2, <2>3, <2>4, <2>5, <2>6, <2>7, <2>8, <2>9, <2>10, <2>11, <2>12,
       <2>13
    DEF EventsNext, Client, Finish, TailWorker
<1> QED BY <1>1, <1>2, Invariance, PTL DEF EventsSpec

(* connect and sendEvent: while no connected filter is connected again, no *)
(* two threads wait for each other, and none waits for itself.             *)
THEOREM NoThreadsDeadlock ==
  ASSUME EventsAssumption, ~Reconnect PROVE EventsSpec => []NoDeadlock
<1>1. ASSUME IInv, Locks PROVE NoDeadlock
  <2> SUFFICES ASSUME NEW f \in Runners, NEW g \in Runners,
                      waitsFor(owner[f], g), waitsFor(owner[g], f)
               PROVE  FALSE
    BY DEF NoDeadlock
  <2> USE DEF EventsAssumption, Control, Runners, free
  <2>1. owner[f] # None /\ owner[g] # None
    BY DEF waitsFor
  <2>2. CASE f \in Mids /\ g \in Mids
    BY <1>1, <2>1, <2>2 DEF waitsFor, Locks
  <2>3. CASE f \in Mids /\ g = TailF
    BY <1>1, <2>1, <2>3 DEF waitsFor, Locks
  <2>4. CASE f = TailF /\ g \in Mids
    BY <1>1, <2>1, <2>4 DEF waitsFor, Locks
  <2>5. CASE f = TailF /\ g = TailF
    BY <1>1, <2>1, <2>5 DEF waitsFor, Locks, IInv, EventsTypeOK
  <2> QED BY <2>2, <2>3, <2>4, <2>5
<1> QED BY <1>1, Invariance, LocksKept, PTL
=============================================================================
