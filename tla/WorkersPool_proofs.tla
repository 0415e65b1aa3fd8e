------------------------- MODULE WorkersPool_proofs -------------------------
(***************************************************************************)
(* Proofs about the pool of WorkersPool.cpp for any number of threads, any *)
(* finite set of filters and any way of connecting them: a filter is never *)
(* run twice at once, the two halves of the TaskQueue agree, and a filter  *)
(* with a frame at its input is never forgotten.                           *)
(***************************************************************************)
EXTENDS WorkersPool, FiniteSetTheorems, SequenceTheorems, TLAPS

(* A sequence without repetitions loses just its head when it is popped.   *)
LEMMA TailInjective ==
  ASSUME NEW S, NEW s \in Seq(S), s # <<>>, IsInjective(s)
  PROVE  /\ Tail(s) \in Seq(S) /\ IsInjective(Tail(s))
         /\ ToSet(Tail(s)) = ToSet(s) \ {Head(s)}
<1> DEFINE n == Len(s)
<1>1. n \in Nat \ {0} /\ DOMAIN s = 1 .. n
  BY EmptySeq, LenProperties
<1>2. /\ Tail(s) \in Seq(S) /\ Len(Tail(s)) = n - 1
      /\ \A i \in 1 .. n - 1 : Tail(s)[i] = s[i + 1]
  BY HeadTailProperties
<1>3. DOMAIN Tail(s) = 1 .. n - 1
  BY <1>2, LenProperties
<1>4. Head(s) = s[1]
  BY <1>1
<1> HIDE DEF n
<1>5. IsInjective(Tail(s))
  BY <1>1, <1>2, <1>3 DEF IsInjective
<1>6. ASSUME NEW x \in ToSet(Tail(s)) PROVE x \in ToSet(s) \ {Head(s)}
  BY <1>1, <1>2, <1>3, <1>4, <1>6 DEF IsInjective, ToSet
<1>7. ASSUME NEW x \in ToSet(s) \ {Head(s)} PROVE x \in ToSet(Tail(s))
  <2>1. PICK i \in 1 .. n : x = s[i]
    BY <1>1, <1>7 DEF ToSet
  <2>2. i - 1 \in 1 .. n - 1 /\ Tail(s)[i - 1] = x
    BY <1>1, <1>2, <1>4, <1>7, <2>1
  <2> QED BY <1>3, <2>2 DEF ToSet
<1> QED BY <1>2, <1>5, <1>6, <1>7

(* Two sequences without a common element, one after the other.           *)
LEMMA ConcatInjective ==
  ASSUME NEW S, NEW s \in Seq(S), NEW r \in Seq(S),
         IsInjective(s), IsInjective(r), ToSet(s) \cap ToSet(r) = {}
  PROVE  /\ s \o r \in Seq(S) /\ IsInjective(s \o r)
         /\ ToSet(s \o r) = ToSet(s) \cup ToSet(r)
<1> DEFINE m == Len(s)
           n == Len(r)
           q == s \o r
<1>1. m \in Nat /\ n \in Nat /\ DOMAIN s = 1 .. m /\ DOMAIN r = 1 .. n
  BY LenProperties
<1>2. /\ q \in Seq(S) /\ Len(q) = m + n
      /\ \A i \in 1 .. m + n : q[i] = IF i <= m THEN s[i] ELSE r[i - m]
  BY ConcatProperties
<1>3. DOMAIN q = 1 .. m + n
  BY <1>2, LenProperties
<1> HIDE DEF m, n, q
<1>4. \A i \in 1 .. m : q[i] = s[i] /\ i \in 1 .. m + n
  BY <1>1, <1>2
<1>5. \A i \in 1 .. n : q[i + m] = r[i] /\ i + m \in 1 .. m + n
  BY <1>1, <1>2
<1>6. \A i \in 1 .. m + n : i \in 1 .. m \/ i - m \in 1 .. n
  BY <1>1
<1>7. ToSet(q) = ToSet(s) \cup ToSet(r)
  <2>1. ASSUME NEW i \in 1 .. m + n PROVE q[i] \in ToSet(s) \cup ToSet(r)
    <3>1. CASE i \in 1 .. m
      BY <1>1, <1>4, <3>1 DEF ToSet
    <3>2. CASE i - m \in 1 .. n
      <4>1. q[i] = r[i - m]
        BY <1>1, <1>2, <3>2
      <4> QED BY <1>1, <3>2, <4>1 DEF ToSet
    <3> QED BY <1>6, <3>1, <3>2
  <2>2. ToSet(s) \subseteq ToSet(q)
    BY <1>1, <1>3, <1>4 DEF ToSet
  <2>3. ToSet(r) \subseteq ToSet(q)
    BY <1>1, <1>3, <1>5 DEF ToSet
  <2>4. ToSet(q) \subseteq ToSet(s) \cup ToSet(r)
    BY <1>3, <2>1 DEF ToSet
  <2> QED BY <2>2, <2>3, <2>4
<1>8. ASSUME NEW i \in 1 .. m + n, NEW j \in 1 .. m + n, q[i] = q[j] PROVE i = j
  <2>1. CASE i <= m /\ j <= m
    <3>1. i \in 1 .. m /\ j \in 1 .. m /\ s[i] = s[j]
      BY <1>1, <1>2, <1>8, <2>1
    <3> QED BY <1>1, <3>1 DEF IsInjective
  <2>2. CASE i > m /\ j > m
    <3>1. i - m \in 1 .. n /\ j - m \in 1 .. n /\ r[i - m] = r[j - m]
      BY <1>1, <1>2, <1>8, <2>2
    <3>2. i - m = j - m
      BY <1>1, <3>1 DEF IsInjective
    <3> QED BY <1>1, <3>2
  <2>3. \A a \in 1 .. m, b \in 1 .. n : s[a] # r[b]
    BY <1>1 DEF ToSet
  <2>4. CASE i <= m /\ j > m
    BY <1>1, <1>2, <1>8, <2>3, <2>4
  <2>5. CASE i > m /\ j <= m
    BY <1>1, <1>2, <1>8, <2>3, <2>5
  <2> QED BY <1>1, <2>1, <2>2, <2>4, <2>5
<1>9. IsInjective(q)
  BY <1>3, <1>8 DEF IsInjective
<1> QED BY <1>2, <1>7, <1>9 DEF q

(* A sequence of SetToSeqs lists each member of its set exactly once.      *)
LEMMA ListOfSet ==
  ASSUME NEW S, IsFiniteSet(S), NEW s \in SetToSeqs(S)
  PROVE  s \in Seq(S) /\ IsInjective(s) /\ ToSet(s) = S
<1> DEFINE n == Cardinality(S)
<1>1. n \in Nat
  BY FS_CardinalityType
<1>2. s \in [1 .. n -> S] /\ IsInjective(s)
  BY DEF SetToSeqs, IsInjective
<1>3. s \in Injection(1 .. n, S)
  BY <1>2 DEF Injection
<1>4. Cardinality(1 .. n) = n
  <2>1. Cardinality(1 .. n) = IF 1 > n THEN 0 ELSE n - 1 + 1
    BY <1>1, FS_Interval
  <2> HIDE DEF n
  <2> QED BY <2>1, <1>1
<1>5. s \in Surjection(1 .. n, S)
  BY <1>3, <1>4, FS_Injection
<1>6. s \in Seq(S)
  BY <1>1, <1>2, SeqDef
<1>7. ToSet(s) = S
  <2> HIDE DEF n
  <2> QED BY <1>2, <1>5 DEF ToSet, Surjection
<1> QED BY <1>2, <1>6, <1>7
-----------------------------------------------------------------------------
(* The two halves of the TaskQueue agree.                                  *)
QueueOK == queue \in Seq(Tasks) /\ sQueue \subseteq Tasks /\ NoGhostJob

(* pop takes the head out of both halves.                                  *)
LEMMA PopKeepsQueue ==
  ASSUME QueueOK, queue # <<>>, pop
  PROVE  QueueOK' /\ ToSet(queue') = ToSet(queue) \ {Head(queue)}
BY TailInjective DEF QueueOK, NoGhostJob, pop

(* What pushAll does with a set of jobs.                                   *)
LEMMA PushKeepsQueue ==
  ASSUME QueueOK, NEW S \in SUBSET Tasks, pushAll(S)
  PROVE  QueueOK' /\ ToSet(queue') = ToSet(queue) \cup S
<1>1. PICK s \in SetToSeqs(S \ sQueue) : queue' = queue \o s
  BY DEF pushAll
<1>2. IsFiniteSet(S \ sQueue)
  BY PoolAssumption, FS_Subset, S \ sQueue \subseteq Tasks
<1>3. s \in Seq(S \ sQueue) /\ IsInjective(s) /\ ToSet(s) = S \ sQueue
  BY <1>2, ListOfSet
<1>4. s \in Seq(Tasks)
  BY <1>3, SeqMonotonic, S \ sQueue \subseteq Tasks
<1>5. /\ queue' \in Seq(Tasks) /\ IsInjective(queue')
      /\ ToSet(queue') = ToSet(queue) \cup (S \ sQueue)
  BY <1>1, <1>3, <1>4, ConcatInjective DEF QueueOK, NoGhostJob
<1> QED BY <1>5 DEF QueueOK, NoGhostJob, pushAll

(* What holds of a worker: it has a job exactly while it works on one, the *)
(* flag of that job is set, and it keeps enabled jobs only until it has    *)
(* put them in the queue.                                                  *)
WorkerOK(w) ==
  /\ job[w] # None <=> state[w] \in Busy
  /\ job[w] # None => running[job[w]]
  /\ state[w] \notin {"added", "finishing"} => enabledJobs[w] = {}

WorkersOK == \A w \in Workers : WorkerOK(w)

IInv == TypeOK /\ WorkersOK /\ MutualExclusion /\ NoGhostJob /\ NoLostJob

(* Nothing is queued and no worker has a job at the start.                 *)
LEMMA InitIInv == Init => IInv
<1> SUFFICES ASSUME Init PROVE IInv
  OBVIOUS
<1>1. TypeOK
  BY PoolAssumption DEF Init, TypeOK
<1>2. WorkersOK
  BY DEF Init, WorkersOK, WorkerOK, Busy
<1>3. MutualExclusion
  BY DEF Init, MutualExclusion
<1>4. NoGhostJob
  BY DEF Init, NoGhostJob, ToSet, IsInjective
<1>5. NoLostJob
  BY DEF Init, NoLostJob
<1> QED BY <1>1, <1>2, <1>3, <1>4, <1>5 DEF IInv

(* A worker that takes a job: no other one has it, because its flag was    *)
(* not set, and the entry that leaves the queue is that of the job itself  *)
(* or of one whose flag is set.                                            *)
LEMMA TakeJobKeepsIInv ==
  ASSUME IInv, NEW w \in Workers, takeJob(w)
  PROVE  IInv'
<1> USE DEF IInv
<1>1. PICK i \in DOMAIN queue :
        /\ canTake(i)
        /\ job' = [job EXCEPT ![w] = queue[i]]
        /\ running' = [running EXCEPT ![queue[i]] = TRUE]
  BY DEF takeJob
<1> DEFINE t == queue[i]
<1>2. i \in 1 .. Len(queue) /\ t \in Tasks /\ ~running[t]
  BY <1>1, ElementOfSeq DEF canTake, firstIdle, TypeOK
<1>3. queue # <<>> /\ Head(queue) = queue[1] /\ Len(queue) \in Nat
  BY <1>2, LenProperties, EmptySeq DEF TypeOK
<1>4. QueueOK' /\ ToSet(queue') = ToSet(queue) \ {Head(queue)}
  BY <1>3, PopKeepsQueue DEF takeJob, QueueOK, TypeOK
<1>5. running'[Head(queue)]
  <2>1. CASE i = 1
    BY <1>1, <1>2, <1>3, <2>1 DEF TypeOK
  <2>2. CASE i # 1
    <3>1. 1 \in 1 .. i - 1 /\ running[queue[1]]
      BY <1>1, <1>2, <1>3, <2>2 DEF canTake, firstIdle
    <3> QED BY <1>1, <1>3, <3>1, HeadTailProperties DEF TypeOK
  <2> QED BY <2>1, <2>2
<1>6. state' = [state EXCEPT ![w] = "processing"] /\ state[w] = "scan"
      /\ UNCHANGED <<run, runnables, awaited, adds, ready, input, enabledJobs>>
  BY DEF takeJob, poolVars
<1> HIDE DEF t
<1>7. TypeOK'
  BY <1>1, <1>2, <1>4, <1>6 DEF t, TypeOK, Busy, QueueOK
<1>8. WorkersOK'
  BY <1>1, <1>2, <1>6, PoolAssumption DEF t, TypeOK, WorkersOK, WorkerOK, Busy
<1>9. MutualExclusion'
  BY <1>1, <1>2 DEF t, TypeOK, WorkersOK, WorkerOK, MutualExclusion
<1>10. NoLostJob'
  BY <1>1, <1>2, <1>4, <1>5, <1>6 DEF t, TypeOK, NoLostJob
<1> QED BY <1>4, <1>7, <1>8, <1>9, <1>10 DEF QueueOK

(* A worker that leaves may take an entry with it; nothing runs any more.  *)
LEMMA LeaveKeepsIInv ==
  ASSUME IInv, NEW w \in Workers, leave(w)
  PROVE  IInv'
<1> USE DEF IInv
<1>1. QueueOK'
  <2>1. CASE UNCHANGED <<queue, sQueue>>
    BY <2>1 DEF QueueOK, TypeOK, NoGhostJob
  <2>2. CASE (\E i \in DOMAIN queue : canTake(i)) /\ pop
    <3>1. queue # <<>>
      BY <2>2
    <3> QED BY <2>2, <3>1, PopKeepsQueue DEF QueueOK, TypeOK
  <2> QED BY <2>1, <2>2 DEF leave
<1>2. ~run' /\ state' = [state EXCEPT ![w] = "done"] /\ state[w] = "scan"
      /\ UNCHANGED <<run, runnables, awaited, adds, running, ready, input, job, enabledJobs>>
  BY DEF leave, poolVars
<1>3. TypeOK'
  BY <1>1, <1>2 DEF TypeOK, QueueOK
<1>4. WorkersOK'
  BY <1>2 DEF TypeOK, WorkersOK, WorkerOK, Busy
<1> QED
  BY <1>1, <1>2, <1>3, <1>4 DEF QueueOK, MutualExclusion, NoLostJob

(* A worker that adds frames: every consumer that gets one is among the    *)
(* jobs it enables, and it had enabled none before.                        *)
LEMMA AddFramesKeepsIInv ==
  ASSUME IInv, NEW w \in Workers, addFrames(w)
  PROVE  IInv'
<1> USE DEF IInv
<1>1. /\ state[w] = "processing" /\ state' = [state EXCEPT ![w] = "added"]
      /\ UNCHANGED <<run, runnables, awaited, adds, queue, sQueue, running, ready, job>>
  BY DEF addFrames, poolVars
<1>2. job[w] \in Tasks /\ enabledJobs[w] = {}
  BY <1>1, PoolAssumption DEF TypeOK, WorkersOK, WorkerOK, Busy
<1>3. enabledJobs' \in [Workers -> SUBSET Tasks]
  BY <1>2, PoolAssumption DEF addFrames, TypeOK
<1>4. input' \in [Tasks -> 0 .. MaxInput]
  <2>1. CASE input' = [t \in Tasks |->
                 IF t \in Consumers[job[w]] /\ input[t] < MaxInput
                 THEN input[t] + 1 ELSE input[t]]
    <3>1. \A t \in Tasks : input[t] \in 0 .. MaxInput
      BY DEF TypeOK
    <3>2. \A n \in 0 .. MaxInput : n < MaxInput => n + 1 \in 0 .. MaxInput
      BY PoolAssumption
    <3> QED BY <2>1, <3>1, <3>2
  <2>2. CASE UNCHANGED input
    BY <2>2 DEF TypeOK
  <2> QED BY <2>1, <2>2 DEF addFrames
<1>5. TypeOK'
  BY <1>1, <1>3, <1>4 DEF TypeOK, Busy
<1>6. \A v \in Workers : v # w => enabledJobs'[v] = enabledJobs[v]
  BY <1>2 DEF addFrames, TypeOK
<1>7. WorkersOK'
  BY <1>1, <1>6 DEF TypeOK, WorkersOK, WorkerOK, Busy
<1>8. \A t \in Tasks : input'[t] = input[t] \/ t \in enabledJobs'[w]
  BY <1>2 DEF addFrames, TypeOK
<1>9. NoLostJob'
  BY <1>1, <1>2, <1>6, <1>8 DEF TypeOK, NoLostJob
<1> QED
  BY <1>1, <1>5, <1>7, <1>9 DEF MutualExclusion, NoGhostJob

(* Its input gets shorter, which only weakens what has to be shown.        *)
LEMMA RemoveFramesKeepsIInv ==
  ASSUME IInv, NEW w \in Workers, removeFrames(w)
  PROVE  IInv'
<1> USE DEF IInv
<1>1. /\ state[w] = "added" /\ state' = [state EXCEPT ![w] = "finishing"]
      /\ UNCHANGED <<run, runnables, awaited, adds, queue, sQueue, running, job>>
  BY DEF removeFrames, poolVars
<1>2. job[w] \in Tasks
  BY <1>1, PoolAssumption DEF TypeOK, WorkersOK, WorkerOK, Busy
<1>3. /\ input' \in [Tasks -> 0 .. MaxInput]
      /\ \A t \in Tasks : input'[t] > 0 => input[t] > 0
  BY <1>2, PoolAssumption DEF removeFrames, TypeOK
<1>4. /\ enabledJobs' \in [Workers -> SUBSET Tasks]
      /\ \A v \in Workers : enabledJobs[v] \subseteq enabledJobs'[v]
      /\ \A v \in Workers : v # w => enabledJobs'[v] = enabledJobs[v]
  BY <1>2 DEF removeFrames, TypeOK
<1>5. TypeOK'
  BY <1>1, <1>3, <1>4 DEF removeFrames, TypeOK, Busy
<1>6. WorkersOK'
  BY <1>1, <1>4 DEF TypeOK, WorkersOK, WorkerOK, Busy
<1>7. NoLostJob'
  BY <1>1, <1>3, <1>4 DEF TypeOK, NoLostJob
<1> QED
  BY <1>1, <1>5, <1>6, <1>7 DEF MutualExclusion, NoGhostJob

(* A worker that is done with its job: what it enabled is in the queue     *)
(* before it forgets it, its own job too if it still has a frame, and the  *)
(* flag it resets is not that of another worker's job.                     *)
LEMMA FinishJobKeepsIInv ==
  ASSUME IInv, NEW w \in Workers, finishJob(w)
  PROVE  IInv'
<1> USE DEF IInv
<1> DEFINE own == job[w]
           again == IF pendingJobs(own) THEN {own} ELSE {}
           jobs == (enabledJobs[w] \cup again) \cap runnables
<1>1. own \in Tasks /\ own # None
  BY PoolAssumption DEF finishJob, TypeOK, WorkersOK, WorkerOK, Busy
<1>2. jobs \subseteq Tasks
  BY DEF TypeOK
<1>3. pushAll(jobs)
  BY DEF finishJob
<1>4. QueueOK' /\ ToSet(queue') = ToSet(queue) \cup jobs
  BY <1>2, <1>3, PushKeepsQueue DEF QueueOK, TypeOK
<1>5. /\ running' = [running EXCEPT ![own] = FALSE]
      /\ job' = [job EXCEPT ![w] = None]
      /\ enabledJobs' = [enabledJobs EXCEPT ![w] = {}]
      /\ state' = [state EXCEPT ![w] = "scan"]
      /\ UNCHANGED <<run, runnables, awaited, adds, ready, input>>
  BY DEF finishJob, poolVars
<1>6. \A v \in Workers : v # w /\ job[v] # None => job[v] # own
  BY <1>1 DEF MutualExclusion
<1>7. \A t \in runnables : t \in enabledJobs[w] \/ (t = own /\ input[t] > 0) => t \in jobs
  BY DEF pendingJobs
<1> HIDE DEF own, jobs
<1>8. TypeOK'
  BY <1>1, <1>4, <1>5 DEF TypeOK, QueueOK
<1>9. WorkersOK'
  BY <1>1, <1>5, <1>6 DEF TypeOK, WorkersOK, WorkerOK, Busy
<1>10. MutualExclusion'
  BY <1>5 DEF TypeOK, MutualExclusion
<1>11. NoLostJob'
  <2> SUFFICES ASSUME NEW t \in runnables, run, input[t] > 0
               PROVE  \/ t \in ToSet(queue') \/ running'[t]
                      \/ \E v \in Workers : t \in enabledJobs'[v]
    BY <1>5 DEF NoLostJob
  <2>1. CASE t \in ToSet(queue)
    BY <1>4, <2>1
  <2>2. CASE running[t]
    BY <1>1, <1>4, <1>5, <1>7, <2>2 DEF TypeOK
  <2>3. CASE \E v \in Workers : t \in enabledJobs[v]
    BY <1>4, <1>5, <1>7, <2>3 DEF TypeOK
  <2> QED BY <2>1, <2>2, <2>3 DEF NoLostJob
<1> QED BY <1>4, <1>8, <1>9, <1>10, <1>11 DEF QueueOK

(* A task is put in the queue when it is registered.                       *)
LEMMA AddTaskKeepsIInv ==
  ASSUME IInv, NEW t \in Tasks, addTask(t)
  PROVE  IInv'
<1> USE DEF IInv
<1>1. QueueOK' /\ ToSet(queue') = ToSet(queue) \cup {t}
  BY PushKeepsQueue DEF addTask, QueueOK, TypeOK
<1>2. /\ runnables' = runnables \cup {t} /\ adds' = adds + 1 /\ adds < MaxAdds
      /\ UNCHANGED <<run, awaited, running, ready, input, state, job, enabledJobs>>
  BY DEF addTask
<1>3. TypeOK'
  BY <1>1, <1>2, PoolAssumption DEF TypeOK, QueueOK
<1>4. NoLostJob'
  BY <1>1, <1>2 DEF NoLostJob
<1> QED
  BY <1>1, <1>2, <1>3, <1>4 DEF QueueOK, WorkersOK, WorkerOK, MutualExclusion

(* The other steps leave the queue, the flags and the jobs alone.          *)
LEMMA NextIInv == IInv /\ [Next]_vars => IInv'
<1> SUFFICES ASSUME IInv, [Next]_vars PROVE IInv'
  OBVIOUS
<1> USE DEF IInv
<1>1. CASE UNCHANGED vars
  BY <1>1 DEF vars, TypeOK, WorkersOK, WorkerOK, MutualExclusion, NoGhostJob, NoLostJob
<1>2. ASSUME NEW w \in Workers, Worker(w) PROVE IInv'
  <2>1. CASE waitForJob(w)
    BY <2>1
       DEF waitForJob, poolVars, TypeOK, WorkersOK, WorkerOK, MutualExclusion, NoGhostJob,
           NoLostJob, Busy
  <2>2. CASE wakeUp(w)
    BY <2>2
       DEF wakeUp, poolVars, TypeOK, WorkersOK, WorkerOK, MutualExclusion, NoGhostJob,
           NoLostJob, Busy
  <2>3. CASE noFrames(w)
    BY <2>3
       DEF noFrames, poolVars, TypeOK, WorkersOK, WorkerOK, MutualExclusion, NoGhostJob,
           NoLostJob, Busy
  <2> QED
    BY <1>2, <2>1, <2>2, <2>3, TakeJobKeepsIInv, LeaveKeepsIInv, AddFramesKeepsIInv,
       RemoveFramesKeepsIInv, FinishJobKeepsIInv
       DEF Worker
<1>3. ASSUME NEW t \in Tasks, becomeReady(t) PROVE IInv'
  BY <1>3
     DEF becomeReady, poolVars, TypeOK, WorkersOK, WorkerOK, MutualExclusion, NoGhostJob,
         NoLostJob
<1>4. ASSUME NEW t \in Tasks, removeTask(t) PROVE IInv'
  BY <1>4 DEF removeTask, TypeOK, WorkersOK, WorkerOK, MutualExclusion, NoGhostJob, NoLostJob
<1>5. CASE removeTaskDone
  BY <1>5
     DEF removeTaskDone, TypeOK, WorkersOK, WorkerOK, MutualExclusion, NoGhostJob, NoLostJob
<1>6. CASE stop
  BY <1>6 DEF stop, TypeOK, WorkersOK, WorkerOK, MutualExclusion, NoGhostJob, NoLostJob
<1>7. CASE joined
  BY <1>7
     DEF joined, poolVars, TypeOK, WorkersOK, WorkerOK, MutualExclusion, NoGhostJob,
         NoLostJob, ToSet, IsInjective
<1> QED
  BY <1>1, <1>2, <1>3, <1>4, <1>5, <1>6, <1>7, AddTaskKeepsIInv DEF Next

(* The invariant holds in every reachable state.                           *)
LEMMA Invariance == Spec => []IInv
BY InitIInv, NextIInv, PTL DEF Spec

(* The variables of the pool keep their types.                             *)
THEOREM TypeCorrect == Spec => []TypeOK
BY Invariance, PTL DEF IInv

(* Two threads never run the same filter: the flag that a worker reads and *)
(* sets under the mutex of the pool is reset by that worker only.          *)
THEOREM OneThreadPerFilter == Spec => []MutualExclusion
BY Invariance, PTL DEF IInv

(* The queue of jobs and the set that guards it against duplicates agree.  *)
THEOREM QueueConsistent == Spec => []NoGhostJob
BY Invariance, PTL DEF IInv

(* A registered filter that has a frame is queued, running, or among the   *)
(* jobs that a worker is about to queue, for every graph of filters.       *)
THEOREM FramesGetRun == Spec => []NoLostJob
BY Invariance, PTL DEF IInv
=============================================================================
