---------------------------- MODULE WorkersPool ----------------------------
(***************************************************************************)
(* The threads that run the filters (WorkersPool.cpp) and the part of a    *)
(* filter's processing that they depend on (Filter.cpp): frames taken from *)
(* its input, frames added to the input of its consumers, the jobs it      *)
(* enables, and the time at which it may run again.                        *)
(*                                                                         *)
(* A worker holds the mutex of the pool while it scans the queue, so a     *)
(* scan is one step, and again while it puts the enabled jobs in the       *)
(* queue.  It runs the filter without the mutex.  The control thread adds  *)
(* and removes tasks and stops the pool.  A task that was removed keeps    *)
(* its memory here, as in WorkersPoolTest.                                 *)
(***************************************************************************)
EXTENDS Integers, Sequences, FiniteSets, SequencesExt

CONSTANTS
  Workers,     \* the threads
  Tasks,       \* the filters (ids and objects are the same here)
  Periodic,    \* filters that enable themselves: the heads and the servers
  Consumers,   \* the filters that read what a filter writes
  None,        \* no task
  MaxInput,    \* bound: frames an input queue holds
  MaxAdds      \* bound: tasks the control thread adds

ASSUME PoolAssumption ==
  /\ IsFiniteSet(Tasks) /\ None \notin Tasks
  /\ Periodic \subseteq Tasks /\ Consumers \in [Tasks -> SUBSET Tasks]
  /\ MaxInput \in Nat \ {0} /\ MaxAdds \in Nat

VARIABLES
  run,           \* false once stop was called
  runnables,     \* tasks registered in the pool
  queue, sQueue, \* TaskQueue: the jobs in order, and the set of them
  running,       \* flag of each task, Runnable::isRunning
  ready,         \* whether the time at which it may run has come
  input,         \* frames waiting at the input of each task
  state,         \* of each worker
  job,           \* task a worker works on
  enabledJobs,   \* tasks a worker will put in the queue
  awaited,       \* task that removeTask waits for, or None
  adds

vars == <<run, runnables, queue, sQueue, running, ready, input, state, job,
          enabledJobs, awaited, adds>>

poolVars == <<run, runnables, awaited, adds>>

Busy == {"processing", "added", "finishing"}

Init ==
  /\ run = TRUE /\ runnables = {} /\ queue = <<>> /\ sQueue = {}
  /\ running = [t \in Tasks |-> FALSE]
  /\ ready = [t \in Tasks |-> TRUE]
  /\ input = [t \in Tasks |-> 0]
  /\ state = [w \in Workers |-> "scan"]
  /\ job = [w \in Workers |-> None]
  /\ enabledJobs = [w \in Workers |-> {}]
  /\ awaited = None /\ adds = 0
-----------------------------------------------------------------------------
(* The queue.                                                              *)

(* Mutant of pushAll: the new jobs go to the front.                        *)
pushAllFront(S) ==
  /\ \E s \in SetToSeqs(S \ sQueue) : queue' = s \o queue
  /\ sQueue' = sQueue \cup S

(* Jobs that are already queued stay where they are.  The order in which   *)
(* the others are appended depends on the writers and is left open.        *)
pushAll(S) ==
  /\ \E s \in SetToSeqs(S \ sQueue) : queue' = queue \o s
  /\ sQueue' = sQueue \cup S

(* The entry at the front goes, whichever job the worker takes.            *)
pop == queue' = Tail(queue) /\ sQueue' = sQueue \ {Head(queue)}

(* Mutant of firstIdle: a job that runs is not passed over.                *)
firstAny(i) == i = 1

(* Where the scan stops: the first job that no worker is running.          *)
firstIdle(i) == ~running[queue[i]] /\ \A j \in 1 .. i - 1 : running[queue[j]]

(* The scan takes the job it stops at if its time has come.                *)
canTake(i) == i \in 1 .. Len(queue) /\ firstIdle(i) /\ ready[queue[i]]
-----------------------------------------------------------------------------
(* A worker.                                                               *)

takeJob(w) ==
  /\ state[w] = "scan" /\ run
  /\ \E i \in DOMAIN queue :
       /\ canTake(i)
       /\ job' = [job EXCEPT ![w] = queue[i]]
       /\ running' = [running EXCEPT ![queue[i]] = TRUE]
  /\ pop
  /\ state' = [state EXCEPT ![w] = "processing"]
  /\ UNCHANGED <<poolVars, ready, input, enabledJobs>>

(* Nothing to do, or the first idle job is not ready yet: the jobs behind  *)
(* it wait too.                                                            *)
waitForJob(w) ==
  /\ state[w] = "scan" /\ run
  /\ \A i \in DOMAIN queue : ~canTake(i)
  /\ state' = [state EXCEPT ![w] = "waiting"]
  /\ UNCHANGED <<poolVars, queue, sQueue, running, ready, input, job, enabledJobs>>

(* Mutant of wakeUp: a notification only comes with a new job.             *)
wakeForJob(w) ==
  /\ state[w] = "waiting" /\ queue # <<>>
  /\ state' = [state EXCEPT ![w] = "scan"]
  /\ UNCHANGED <<poolVars, queue, sQueue, running, ready, input, job, enabledJobs>>

(* Both waits are timed, so they end without a notification.               *)
wakeUp(w) ==
  /\ state[w] = "waiting"
  /\ state' = [state EXCEPT ![w] = "scan"]
  /\ UNCHANGED <<poolVars, queue, sQueue, running, ready, input, job, enabledJobs>>

(* stop does not take the mutex: run may change after the scan took a job, *)
(* which is then out of the queue and never run.                           *)
leave(w) ==
  /\ state[w] = "scan" /\ ~run
  /\ state' = [state EXCEPT ![w] = "done"]
  /\ \/ UNCHANGED <<queue, sQueue>>
     \/ (\E i \in DOMAIN queue : canTake(i)) /\ pop
  /\ UNCHANGED <<poolVars, running, ready, input, job, enabledJobs>>

(* The filter has no new frame: it tries again in WAIT microseconds.       *)
noFrames(w) ==
  /\ state[w] = "processing" /\ job[w] \notin Periodic /\ input[job[w]] = 0
  /\ ready' = [ready EXCEPT ![job[w]] = FALSE]
  /\ state' = [state EXCEPT ![w] = "finishing"]
  /\ UNCHANGED <<poolVars, queue, sQueue, running, input, job, enabledJobs>>

(* The filter runs and adds what it produced, if anything.  A consumer     *)
(* whose queue is full loses the frame before it.                          *)
addFrames(w) ==
  /\ state[w] = "processing" /\ (job[w] \in Periodic \/ input[job[w]] > 0)
  /\ \/ /\ enabledJobs' = [enabledJobs EXCEPT ![w] = Consumers[job[w]]]
        /\ input' = [t \in Tasks |->
             IF t \in Consumers[job[w]] /\ input[t] < MaxInput
             THEN input[t] + 1 ELSE input[t]]
     \/ UNCHANGED <<enabledJobs, input>>
  /\ state' = [state EXCEPT ![w] = "added"]
  /\ UNCHANGED <<poolVars, queue, sQueue, running, ready, job>>

(* The frame is removed from the input and the next time is set.           *)
removeFrames(w) ==
  /\ state[w] = "added"
  /\ input' = [input EXCEPT ![job[w]] = IF @ > 0 THEN @ - 1 ELSE 0]
  /\ \E soon \in BOOLEAN : ready' = [ready EXCEPT ![job[w]] = soon]
  /\ enabledJobs' = IF job[w] \in Periodic
                      THEN [enabledJobs EXCEPT ![w] = @ \cup {job[w]}]
                      ELSE enabledJobs
  /\ state' = [state EXCEPT ![w] = "finishing"]
  /\ UNCHANGED <<poolVars, queue, sQueue, running, job>>

(* Mutant of pendingJobs: a filter is only run again by its producers.     *)
pendingNever(t) == FALSE

pendingJobs(t) == input[t] > 0

(* The jobs the worker enabled go to the end of the queue.                 *)
finishJob(w) ==
  /\ state[w] = "finishing"
  /\ LET again == IF pendingJobs(job[w]) THEN {job[w]} ELSE {}
     IN pushAll((enabledJobs[w] \cup again) \cap runnables)
  /\ running' = [running EXCEPT ![job[w]] = FALSE]
  /\ job' = [job EXCEPT ![w] = None]
  /\ enabledJobs' = [enabledJobs EXCEPT ![w] = {}]
  /\ state' = [state EXCEPT ![w] = "scan"]
  /\ UNCHANGED <<poolVars, ready, input>>

(* Time passes.                                                            *)
becomeReady(t) ==
  /\ ~ready[t]
  /\ ready' = [ready EXCEPT ![t] = TRUE]
  /\ UNCHANGED <<poolVars, queue, sQueue, running, input, state, job, enabledJobs>>
-----------------------------------------------------------------------------
(* The control thread.                                                     *)

addTask(t) ==
  /\ awaited = None /\ run /\ adds < MaxAdds
  /\ t \notin runnables
  /\ runnables' = runnables \cup {t}
  /\ pushAll({t})
  /\ adds' = adds + 1
  /\ UNCHANGED <<run, awaited, running, ready, input, state, job, enabledJobs>>

removeTask(t) ==
  /\ awaited = None /\ run
  /\ t \in runnables
  /\ runnables' = runnables \ {t}
  /\ awaited' = t
  /\ UNCHANGED <<run, adds, queue, sQueue, running, ready, input, state, job, enabledJobs>>

(* removeTask polls the flag, without the mutex, and returns.              *)
removeTaskDone ==
  /\ awaited # None /\ ~running[awaited]
  /\ awaited' = None
  /\ UNCHANGED <<run, runnables, adds, queue, sQueue, running, ready, input, state,
                 job, enabledJobs>>

stop ==
  /\ awaited = None /\ run
  /\ run' = FALSE
  /\ UNCHANGED <<runnables, awaited, adds, queue, sQueue, running, ready, input, state,
                 job, enabledJobs>>

(* stop has joined every thread and clears the queue.                      *)
joined ==
  /\ ~run /\ \A w \in Workers : state[w] = "done"
  /\ queue' = <<>> /\ sQueue' = {}
  /\ UNCHANGED <<poolVars, running, ready, input, state, job, enabledJobs>>
-----------------------------------------------------------------------------
Worker(w) ==
  \/ takeJob(w) \/ waitForJob(w) \/ wakeUp(w) \/ leave(w)
  \/ noFrames(w) \/ addFrames(w) \/ removeFrames(w) \/ finishJob(w)

Next ==
  \/ \E w \in Workers : Worker(w)
  \/ \E t \in Tasks : becomeReady(t) \/ addTask(t) \/ removeTask(t)
  \/ removeTaskDone \/ stop \/ joined

Spec == Init /\ [][Next]_vars

(* The threads run, every filter returns, and time passes.  Nothing is     *)
(* asked of the control thread.                                            *)
FairSpec ==
  /\ Spec
  /\ \A w \in Workers : WF_vars(Worker(w))
  /\ \A t \in Tasks : WF_vars(becomeReady(t))
-----------------------------------------------------------------------------
TypeOK ==
  /\ run \in BOOLEAN /\ runnables \subseteq Tasks
  /\ queue \in Seq(Tasks) /\ sQueue \subseteq Tasks
  /\ running \in [Tasks -> BOOLEAN] /\ ready \in [Tasks -> BOOLEAN]
  /\ input \in [Tasks -> 0 .. MaxInput]
  /\ state \in [Workers -> {"scan", "waiting", "done"} \cup Busy]
  /\ job \in [Workers -> Tasks \cup {None}]
  /\ enabledJobs \in [Workers -> SUBSET Tasks]
  /\ awaited \in Tasks \cup {None} /\ adds \in 0 .. MaxAdds

(* A filter is never run by two threads at once: none of them locks its    *)
(* data while it processes a frame.                                        *)
MutualExclusion ==
  \A v, w \in Workers : v # w /\ job[v] # None => job[v] # job[w]

(* The set that keeps jobs from being queued twice agrees with the queue:  *)
(* a job that is only in the set could never be queued again.              *)
NoGhostJob == sQueue = ToSet(queue) /\ IsInjective(queue)

(* No frame is left behind: a filter with a frame at its input is queued,  *)
(* or being run, or about to be queued by the thread that added the frame. *)
NoLostJob ==
  \A t \in runnables : run /\ input[t] > 0 =>
    \/ t \in ToSet(queue) \/ running[t]
    \/ \E w \in Workers : t \in enabledJobs[w]

(* Every job in the queue is run in the end, however busy the others are.  *)
QueuedIsRun == \A t \in Tasks : t \in ToSet(queue) ~> running[t] \/ ~run

(* stop returns: every thread sees the flag, even one that went to wait    *)
(* after the notification.                                                 *)
StopReturns == ~run ~> \A w \in Workers : state[w] = "done"

(* removeTask awaits the task to finish: it does not run afterwards.       *)
RemovedIsQuiet == \A t \in Tasks \ runnables : running[t] => awaited = t
=============================================================================
