--------------------------- MODULE JobQueueProofs ---------------------------
(***************************************************************************)
(* Proofs about JobQueue, for any set of jobs, any pool size, history and  *)
(* number of retries.                                                      *)
(***************************************************************************)
EXTENDS JobQueue, FiniteSetTheorems, TLAPS

\* The number of jobs inserted so far is a natural number.
LEMMA InsertedIsNat == Cardinality({k \in Jobs : since[k] > 0}) \in Nat
  <1>1. IsFiniteSet(Jobs)
    BY QueueAssumption
  <1>2. {k \in Jobs : since[k] > 0} \subseteq Jobs
    OBVIOUS
  <1>3. IsFiniteSet({k \in Jobs : since[k] > 0})
    BY <1>1, <1>2, FS_Subset
  <1> QED
    BY <1>3, FS_CardinalityType

\* Taking the first item off the pool's queue leaves the others in it.
LEMMA TakenFromQueue ==
  ASSUME queue \in Seq(Jobs), queue # <<>>,
         NEW i \in 1..Len(queue), queue[i] # Head(queue)
  PROVE  \E k \in 1..Len(Tail(queue)) : Tail(queue)[k] = queue[i]
  <1>1. i # 1
    OBVIOUS
  <1>2. i - 1 \in 1..Len(Tail(queue)) /\ Tail(queue)[i - 1] = queue[i]
    BY <1>1
  <1> QED
    BY <1>2

\* The initial state is well typed.
LEMMA InitTypes == Init => TypeOK
  <1> SUFFICES ASSUME Init PROVE TypeOK
    OBVIOUS
  <1>1. queue \in Seq(Jobs)
    BY DEF Init
  <1> QED
    BY <1>1 DEF Init, TypeOK, Statuses

\* No step of a caller or of a worker leaves the types.
LEMMA NextTypes == TypeOK /\ [Next]_vars => TypeOK'
  <1> SUFFICES ASSUME TypeOK, [Next]_vars PROVE TypeOK'
    OBVIOUS
  <1> USE DEF TypeOK, Statuses
  <1>1. ASSUME NEW j \in Jobs, SubmitCheck(j) PROVE TypeOK'
    BY <1>1 DEF SubmitCheck, runVars
  <1>2. ASSUME NEW j \in Jobs, Track(j) PROVE TypeOK'
    <2>1. 1 + Cardinality({k \in Jobs : since[k] > 0}) \in Nat
      BY InsertedIsNat
    <2>2. since' \in [Jobs -> Nat]
      BY <1>2, <2>1 DEF Track
    <2>3. registry' \in SUBSET Jobs
      BY <1>2 DEF Track
    <2> QED
      BY <1>2, <2>2, <2>3 DEF Track, runVars
  <1>3. ASSUME NEW j \in Jobs, Pool(j) PROVE TypeOK'
    <2>1. Append(queue, j) \in Seq(Jobs)
      OBVIOUS
    <2>2. queue' \in Seq(Jobs)
      BY <1>3, <2>1 DEF Pool
    <2>3. future' \in [Jobs -> {"none", "pending", "running", "cancelled",
                                "finished"}]
      BY <1>3 DEF Pool
    <2> QED
      BY <1>3, <2>2, <2>3 DEF Pool, runVars
  <1>4. ASSUME NEW j \in Jobs, Assign(j) PROVE TypeOK'
    BY <1>4 DEF Assign, runVars
  <1>5. ASSUME Take PROVE TypeOK'
    <2>1. queue' \in Seq(Jobs) /\ Head(queue) \in Jobs
      BY <1>5 DEF Take
    <2> QED
      BY <1>5, <2>1 DEF Take
  <1>6. ASSUME NEW j \in Jobs, Run(j) PROVE TypeOK'
    <2>1. CASE RunStarts(j)
      BY <2>1 DEF RunStarts
    <2>2. CASE HandlerReturns(j)
      BY <2>2 DEF HandlerReturns
    <2>3. CASE HandlerRaises(j)
      BY <2>3 DEF HandlerRaises
    <2>4. CASE Retry(j)
      BY <2>4 DEF Retry
    <2>5. CASE Record(j)
      BY <2>5 DEF Record
    <2>6. CASE RunReturns(j)
      BY <2>6 DEF RunReturns
    <2> QED
      BY <1>6, <2>1, <2>2, <2>3, <2>4, <2>5, <2>6 DEF Run
  <1>7. ASSUME NEW j \in Jobs, Cancel(j) PROVE TypeOK'
    BY <1>7 DEF Cancel, runVars
  <1>8. ASSUME NEW j \in Jobs, CancelMarks(j) PROVE TypeOK'
    BY <1>8 DEF CancelMarks
  <1>9. ASSUME ShutdownFlag \/ ShutdownPool \/ ShutdownReturns PROVE TypeOK'
    BY <1>9 DEF ShutdownFlag, ShutdownPool, ShutdownReturns, runVars
  <1>10. ASSUME UNCHANGED vars PROVE TypeOK'
    BY <1>10 DEF vars
  <1> QED
    BY <1>1, <1>2, <1>3, <1>4, <1>5, <1>6, <1>7, <1>8, <1>9, <1>10
       DEF Next, Submit

\* Type correctness of the queue.
THEOREM TypeCorrect == Spec => []TypeOK
  <1> QED
    BY InitTypes, NextTypes, PTL DEF Spec

\* What eviction may remove: finished jobs only.
LEMMA EvictedAreFinished ==
  ASSUME NEW jobs
  PROVE  \A j \in Evicted(jobs) : IsTerminal(status[j])
  BY DEF Evicted

\* The initial state satisfies the inductive invariant.
LEMMA InitIInv == Init => IInv
  <1> SUFFICES ASSUME Init PROVE IInv
    OBVIOUS
  <1>1. TypeOK
    BY InitTypes
  <1>2. RetriesExhausted
    BY QueueAssumption DEF Init, RetriesExhausted
  <1> QED
    BY <1>1, <1>2
       DEF Init, IInv, FutureInv, WorkerInv, SubmitInv, QueueInv,
           LiveJobsTracked, OrphanMeansRaised, JoinedMeansDone

\* The steps of submit preserve the inductive invariant.
LEMMA SubmitStep ==
  ASSUME IInv, TypeOK', NEW j \in Jobs, Submit(j)
  PROVE  IInv'
  <1> USE DEF IInv, TypeOK
  <1>1. CASE SubmitCheck(j)
    BY <1>1 DEF SubmitCheck, runVars, FutureInv, WorkerInv, SubmitInv, QueueInv,
                RetriesExhausted, LiveJobsTracked, OrphanMeansRaised,
                JoinedMeansDone
  <1>2. CASE Track(j)
    <2>1. since[j] = 0 /\ since'[j] > 0
      BY <1>2, InsertedIsNat DEF Track, SubmitInv
    <2>2. \A k \in Jobs : k # j => since'[k] = since[k]
      BY <1>2 DEF Track
    <2>3. status[j] = "pending" /\ future[j] = "none"
      BY <2>1 DEF SubmitInv, FutureInv
    <2>4. \A k \in Jobs : FutureInv(k)' /\ WorkerInv(k)' /\ SubmitInv(k)'
      BY <1>2, <2>1, <2>2, <2>3
         DEF Track, runVars, FutureInv, WorkerInv, SubmitInv
    <2>5. QueueInv' /\ RetriesExhausted' /\ JoinedMeansDone'
      BY <1>2 DEF Track, runVars, QueueInv, RetriesExhausted, JoinedMeansDone
    <2>6. LiveJobsTracked'
      BY <1>2, <2>1, <2>2, <2>3, EvictedAreFinished
         DEF Track, runVars, LiveJobsTracked
    <2>7. OrphanMeansRaised'
      BY <1>2, <2>1, <2>2 DEF Track, OrphanMeansRaised
    <2> QED
      BY <2>4, <2>5, <2>6, <2>7
  <1>3. CASE Pool(j)
    <2>1. ASSUME NEW k \in Jobs
          PROVE  FutureInv(k)' /\ WorkerInv(k)' /\ SubmitInv(k)'
      <3>1. future[j] = "none" /\ since[j] # 0
        BY <1>3 DEF Pool, SubmitInv
      <3>2. FutureInv(k)'
        BY <1>3, <3>1 DEF Pool, runVars, FutureInv
      <3>3. WorkerInv(k)'
        BY <1>3 DEF Pool, runVars, WorkerInv
      <3>4. SubmitInv(k)'
        <4>1. CASE k = j
          <5>1. since' = since
            BY <1>3 DEF Pool
          <5>2. \/ submit'[j] = "queued" /\ future'[j] = "pending"
                \/ submit'[j] = "raised" /\ future'[j] = future[j]
            BY <1>3 DEF Pool, TypeOK
          <5> QED
            BY <3>1, <4>1, <5>1, <5>2 DEF SubmitInv
        <4>2. CASE k # j
          <5>1. /\ submit'[k] = submit[k] /\ future'[k] = future[k]
                /\ since' = since
            BY <1>3, <4>2 DEF Pool
          <5> QED
            BY <5>1 DEF SubmitInv
        <4> QED
          BY <4>1, <4>2
      <3> QED
        BY <3>2, <3>3, <3>4
    <2>2. QueueInv'
      <3>1. CASE queue' = Append(queue, j)
        <4>1. ASSUME NEW k \in Jobs, k # j, future'[k] = "pending"
              PROVE  \E i \in 1..Len(queue') : queue'[i] = k
          <5>1. future[k] = "pending"
            BY <1>3, <4>1 DEF Pool
          <5>2. PICK i \in 1..Len(queue) : queue[i] = k
            BY <5>1 DEF QueueInv
          <5>3. i \in 1..Len(queue') /\ queue'[i] = k
            BY <3>1, <5>2
          <5> QED
            BY <5>3
        <4>2. Len(queue') \in 1..Len(queue') /\ queue'[Len(queue')] = j
          BY <3>1
        <4> QED
          BY <4>1, <4>2 DEF QueueInv
      <3>2. CASE UNCHANGED <<queue, future>>
        BY <3>2 DEF QueueInv
      <3> QED
        BY <1>3, <3>1, <3>2 DEF Pool
    <2>3. RetriesExhausted' /\ LiveJobsTracked'
      BY <1>3 DEF Pool, runVars, RetriesExhausted, LiveJobsTracked
    <2>4. \A k \in Jobs : k # j => submit'[k] = submit[k] /\ future'[k] = future[k]
      BY <1>3 DEF Pool
    <2>5. since' = since /\ shutdown' = shutdown
      BY <1>3 DEF Pool, runVars
    <2>6. \/ shutdown \in {"open", "flagged"} /\ future'[j] = "pending"
          \/ /\ shutdown \in {"closed", "joined"}
             /\ submit'[j] = "raised" /\ future'[j] = future[j]
      BY <1>3 DEF Pool
    <2>7. OrphanMeansRaised'
      BY <2>4, <2>5, <2>6 DEF OrphanMeansRaised
    <2>8. JoinedMeansDone'
      BY <2>4, <2>5, <2>6 DEF JoinedMeansDone
    <2> QED
      BY <2>1, <2>2, <2>3, <2>7, <2>8
  <1>4. CASE Assign(j)
    BY <1>4 DEF Assign, runVars, FutureInv, WorkerInv, SubmitInv, QueueInv,
                RetriesExhausted, LiveJobsTracked, OrphanMeansRaised,
                JoinedMeansDone
  <1> QED
    BY <1>1, <1>2, <1>3, <1>4 DEF Submit

\* A thread of the pool that takes an item preserves the inductive invariant.
LEMMA TakeStep ==
  ASSUME IInv, TypeOK', Take
  PROVE  IInv'
  <1> USE DEF IInv, TypeOK
  <1>1. Head(queue) \in Jobs
    BY DEF Take
  <1>2. \A k \in Jobs : FutureInv(k)' /\ WorkerInv(k)' /\ SubmitInv(k)'
    <2> TAKE k \in Jobs
    <2>1. FutureInv(k) /\ WorkerInv(k) /\ SubmitInv(k)
      OBVIOUS
    <2>2. UNCHANGED <<status, attempts, recorded, submit, since, cancelling>>
      BY DEF Take
    <2>3. CASE future[k] = "pending" /\ future'[k] = "running" /\ at'[k] = "start"
      <3>1. FutureInv(k)'
        BY <2>1, <2>2, <2>3 DEF FutureInv
      <3>2. WorkerInv(k)'
        BY <2>1, <2>2, <2>3 DEF FutureInv, WorkerInv
      <3>3. SubmitInv(k)'
        BY <2>1, <2>2, <2>3 DEF SubmitInv
      <3> QED
        BY <3>1, <3>2, <3>3
    <2>4. CASE future'[k] = future[k] /\ at'[k] = at[k]
      <3>1. FutureInv(k)'
        BY <2>1, <2>2, <2>4 DEF FutureInv
      <3>2. WorkerInv(k)'
        BY <2>1, <2>2, <2>4 DEF WorkerInv
      <3>3. SubmitInv(k)'
        BY <2>1, <2>2, <2>4 DEF SubmitInv
      <3> QED
        BY <3>1, <3>2, <3>3
    <2> QED
      BY <1>1, <2>3, <2>4 DEF Take
  <1>3. QueueInv'
    <2> SUFFICES ASSUME NEW k \in Jobs, future'[k] = "pending"
                 PROVE  \E i \in 1..Len(queue') : queue'[i] = k
      BY DEF QueueInv
    <2>1. future[k] = "pending" /\ k # Head(queue)
      BY <1>1 DEF Take
    <2>2. PICK i \in 1..Len(queue) : queue[i] = k
      BY <2>1 DEF QueueInv
    <2>3. \E n \in 1..Len(Tail(queue)) : Tail(queue)[n] = queue[i]
      BY <2>1, <2>2, TakenFromQueue DEF Take
    <2> QED
      BY <2>2, <2>3 DEF Take
  <1>4. RetriesExhausted' /\ LiveJobsTracked' /\ OrphanMeansRaised'
    <2>1. UNCHANGED <<shutdown, submit, registry, since, status, attempts>>
      BY DEF Take
    <2>2. \A k \in Jobs : future'[k] = "none" => future[k] = "none"
      BY <1>1 DEF Take
    <2>3. RetriesExhausted' /\ LiveJobsTracked'
      BY <2>1 DEF RetriesExhausted, LiveJobsTracked
    <2>4. OrphanMeansRaised'
      BY <2>1, <2>2 DEF OrphanMeansRaised
    <2> QED
      BY <2>3, <2>4
  <1>5. JoinedMeansDone'
    BY <1>1 DEF Take, JoinedMeansDone
  <1> QED
    BY <1>2, <1>3, <1>4, <1>5

\* What the pool's queue and the end of a shutdown say depends on no variable
\* that _run changes before it returns.
LEMMA SameQueue ==
  ASSUME QueueInv, OrphanMeansRaised, JoinedMeansDone,
         UNCHANGED <<shutdown, submit, since, future, queue>>
  PROVE  QueueInv' /\ OrphanMeansRaised' /\ JoinedMeansDone'
  BY DEF QueueInv, OrphanMeansRaised, JoinedMeansDone

\* The steps of _run preserve the inductive invariant.
LEMMA RunStep ==
  ASSUME IInv, TypeOK', NEW j \in Jobs, Run(j)
  PROVE  IInv'
  <1> USE DEF IInv, TypeOK
  <1>1. future[j] = "running" /\ ~(shutdown = "joined")
    BY DEF Run, RunStarts, HandlerReturns, HandlerRaises, Retry, Record,
           RunReturns, FutureInv, JoinedMeansDone
  <1>2. MaxRetries[j] \in Nat /\ attempts[j] \in Nat
    BY QueueAssumption
  <1>3. CASE RunStarts(j)
    <2>1. \A k \in Jobs : FutureInv(k)' /\ WorkerInv(k)' /\ SubmitInv(k)'
      BY <1>1, <1>2, <1>3 DEF RunStarts, FutureInv, WorkerInv, SubmitInv
    <2>2. QueueInv' /\ OrphanMeansRaised' /\ JoinedMeansDone'
      <3>1. UNCHANGED <<shutdown, submit, since, future, queue>>
        BY <1>3 DEF RunStarts
      <3> QED
        BY <3>1, SameQueue
    <2>3. RetriesExhausted' /\ LiveJobsTracked'
      BY <1>2, <1>3, QueueAssumption
         DEF RunStarts, WorkerInv, RetriesExhausted, LiveJobsTracked, IsTerminal
    <2> QED
      BY <2>1, <2>2, <2>3
  <1>4. CASE HandlerReturns(j)
    <2>1. \A k \in Jobs : FutureInv(k)' /\ WorkerInv(k)' /\ SubmitInv(k)'
      BY <1>1, <1>2, <1>4 DEF HandlerReturns, FutureInv, WorkerInv, SubmitInv
    <2>2. QueueInv' /\ OrphanMeansRaised' /\ JoinedMeansDone'
      <3>1. UNCHANGED <<shutdown, submit, since, future, queue>>
        BY <1>4 DEF HandlerReturns
      <3> QED
        BY <3>1, SameQueue
    <2>3. RetriesExhausted' /\ LiveJobsTracked'
      BY <1>2, <1>4, QueueAssumption
         DEF HandlerReturns, WorkerInv, RetriesExhausted, LiveJobsTracked, IsTerminal
    <2> QED
      BY <2>1, <2>2, <2>3
  <1>5. CASE HandlerRaises(j)
    <2>1. ASSUME NEW k \in Jobs
          PROVE  FutureInv(k)' /\ WorkerInv(k)' /\ SubmitInv(k)'
      <3>1. FutureInv(k)'
        BY <1>1, <1>5 DEF HandlerRaises, FutureInv
      <3>2. WorkerInv(k)'
        BY <1>2, <1>5 DEF HandlerRaises, WorkerInv
      <3>3. SubmitInv(k)'
        BY <1>5 DEF HandlerRaises, SubmitInv
      <3> QED
        BY <3>1, <3>2, <3>3
    <2>2. QueueInv' /\ OrphanMeansRaised' /\ JoinedMeansDone'
      <3>1. UNCHANGED <<shutdown, submit, since, future, queue>>
        BY <1>5 DEF HandlerRaises
      <3> QED
        BY <3>1, SameQueue
    <2>3. attempts[j] <= MaxRetries[j] + 1
      BY <1>5 DEF HandlerRaises, WorkerInv
    <2>4. status'[j] = "failed" => attempts[j] = MaxRetries[j] + 1
      BY <1>2, <1>5, <2>3 DEF HandlerRaises
    <2>5. \A k \in Jobs : k # j => status'[k] = status[k]
      BY <1>5 DEF HandlerRaises
    <2>6. RetriesExhausted'
      BY <1>5, <2>3, <2>4, <2>5 DEF HandlerRaises, RetriesExhausted
    <2>7. ~IsTerminal(status[j])
      BY <1>5 DEF HandlerRaises, WorkerInv, IsTerminal
    <2>8. LiveJobsTracked'
      BY <1>5, <2>5, <2>7 DEF HandlerRaises, LiveJobsTracked
    <2> QED
      BY <2>1, <2>2, <2>6, <2>8
  <1>6. CASE Retry(j)
    <2>1. \A k \in Jobs : FutureInv(k)' /\ WorkerInv(k)' /\ SubmitInv(k)'
      BY <1>1, <1>2, <1>6 DEF Retry, FutureInv, WorkerInv, SubmitInv
    <2>2. QueueInv' /\ OrphanMeansRaised' /\ JoinedMeansDone'
      <3>1. UNCHANGED <<shutdown, submit, since, future, queue>>
        BY <1>6 DEF Retry
      <3> QED
        BY <3>1, SameQueue
    <2>3. RetriesExhausted' /\ LiveJobsTracked'
      BY <1>2, <1>6, QueueAssumption
         DEF Retry, WorkerInv, RetriesExhausted, LiveJobsTracked, IsTerminal
    <2> QED
      BY <2>1, <2>2, <2>3
  <1>7. CASE Record(j)
    <2>1. \A k \in Jobs : FutureInv(k)' /\ WorkerInv(k)' /\ SubmitInv(k)'
      BY <1>1, <1>2, <1>7 DEF Record, FutureInv, WorkerInv, SubmitInv
    <2>2. QueueInv' /\ OrphanMeansRaised' /\ JoinedMeansDone'
      <3>1. UNCHANGED <<shutdown, submit, since, future, queue>>
        BY <1>7 DEF Record
      <3> QED
        BY <3>1, SameQueue
    <2>3. RetriesExhausted' /\ LiveJobsTracked'
      BY <1>2, <1>7, QueueAssumption
         DEF Record, WorkerInv, RetriesExhausted, LiveJobsTracked, IsTerminal
    <2> QED
      BY <2>1, <2>2, <2>3
  <1>8. CASE RunReturns(j)
    <2>1. \A k \in Jobs : FutureInv(k)' /\ WorkerInv(k)' /\ SubmitInv(k)'
      BY <1>1, <1>2, <1>8 DEF RunReturns, FutureInv, WorkerInv, SubmitInv
    <2>2. QueueInv' /\ OrphanMeansRaised' /\ JoinedMeansDone'
      BY <1>1, <1>8
         DEF RunReturns, QueueInv, OrphanMeansRaised, JoinedMeansDone
    <2>3. RetriesExhausted' /\ LiveJobsTracked'
      BY <1>2, <1>8, QueueAssumption
         DEF RunReturns, WorkerInv, RetriesExhausted, LiveJobsTracked, IsTerminal
    <2> QED
      BY <2>1, <2>2, <2>3
  <1> QED
    BY <1>3, <1>4, <1>5, <1>6, <1>7, <1>8 DEF Run

\* The two steps of cancel preserve the inductive invariant.
LEMMA CancelStep ==
  ASSUME IInv, TypeOK', NEW j \in Jobs, Cancel(j) \/ CancelMarks(j)
  PROVE  IInv'
  <1> USE DEF IInv, TypeOK
  <1>1. CASE Cancel(j)
    BY <1>1 DEF Cancel, HasFuture, runVars, FutureInv, WorkerInv, SubmitInv,
                QueueInv, RetriesExhausted, LiveJobsTracked, OrphanMeansRaised,
                JoinedMeansDone
  <1>2. CASE CancelMarks(j)
    BY <1>2 DEF CancelMarks, FutureInv, WorkerInv, SubmitInv, QueueInv,
                RetriesExhausted, LiveJobsTracked, OrphanMeansRaised,
                JoinedMeansDone, IsTerminal
  <1> QED
    BY <1>1, <1>2

\* The steps of shutdown preserve the inductive invariant: the threads are
\* joined when the queue is empty and no worker is busy, so no future is
\* pending or running any more.
LEMMA ShutdownStep ==
  ASSUME IInv, TypeOK', ShutdownFlag \/ ShutdownPool \/ ShutdownReturns
  PROVE  IInv'
  <1>1. UNCHANGED <<submit, registry, since, runVars, future, queue, cancelling>>
    BY DEF ShutdownFlag, ShutdownPool, ShutdownReturns
  <1>2. ASSUME NEW k \in Jobs PROVE FutureInv(k)' /\ WorkerInv(k)' /\ SubmitInv(k)'
    BY <1>1 DEF IInv, runVars, FutureInv, WorkerInv, SubmitInv
  <1>3. QueueInv'
    BY <1>1 DEF IInv, QueueInv
  <1>4. RetriesExhausted'
    BY <1>1 DEF IInv, runVars, RetriesExhausted
  <1>5. LiveJobsTracked'
    BY <1>1 DEF IInv, runVars, LiveJobsTracked
  <1>6. shutdown' # "open"
    BY DEF ShutdownFlag, ShutdownPool, ShutdownReturns
  <1>7. OrphanMeansRaised'
    BY <1>1, <1>6 DEF IInv, OrphanMeansRaised
  <1>8. JoinedMeansDone'
    BY <1>1 DEF IInv, TypeOK, ShutdownFlag, ShutdownPool, ShutdownReturns,
                QueueInv, FutureInv, Busy, JoinedMeansDone
  <1> QED
    BY <1>2, <1>3, <1>4, <1>5, <1>7, <1>8 DEF IInv

\* The invariant is inductive.
LEMMA NextIInv == IInv /\ [Next]_vars => IInv'
  <1> SUFFICES ASSUME IInv, [Next]_vars PROVE IInv'
    OBVIOUS
  <1>1. TypeOK'
    BY NextTypes DEF IInv
  <1>2. CASE UNCHANGED vars
    BY <1>1, <1>2
       DEF vars, IInv, FutureInv, WorkerInv, SubmitInv, QueueInv,
           RetriesExhausted, LiveJobsTracked, OrphanMeansRaised, JoinedMeansDone
  <1> QED
    BY <1>1, <1>2, SubmitStep, TakeStep, RunStep, CancelStep, ShutdownStep
       DEF Next

\* The inductive invariant holds in every reachable state.
THEOREM Inductive == Spec => []IInv
  <1> QED
    BY InitIInv, NextIInv, PTL DEF Spec

\* A job reported as cancelled was never started, for any interleaving of
\* cancel with the pool's threads.
THEOREM CancelledNeverRunsHolds == Spec => []CancelledNeverRuns
  <1>1. IInv => CancelledNeverRuns
    BY DEF IInv, TypeOK, FutureInv, WorkerInv, CancelledNeverRuns
  <1> QED
    BY <1>1, Inductive, PTL

\* Whoever waits for a job that ran finds its status final and its result or
\* error in place.
THEOREM FinishedIsRecordedHolds == Spec => []FinishedIsRecorded
  <1>1. IInv => FinishedIsRecorded
    BY DEF IInv, FutureInv, FinishedIsRecorded
  <1> QED
    BY <1>1, Inductive, PTL

\* Retry accounting, and a clean end of shutdown(wait=True).
THEOREM QueueSafety == Spec => [](RetriesExhausted /\ JoinedMeansDone)
  <1>1. IInv => RetriesExhausted /\ JoinedMeansDone
    BY DEF IInv
  <1> QED
    BY <1>1, Inductive, PTL

\* _prune never drops a job that is not finished, however full the history is.
THEOREM LiveJobsTrackedHolds == Spec => []LiveJobsTracked
  <1>1. IInv => LiveJobsTracked
    BY DEF IInv
  <1> QED
    BY <1>1, Inductive, PTL

\* No step changes a final status.
LEMMA StatusStep ==
  ASSUME IInv, [Next]_vars, NEW j \in Jobs, IsTerminal(status[j])
  PROVE  status'[j] = status[j]
  <1> USE DEF IInv, TypeOK
  <1>1. at[j] \notin {"start", "call", "sleep"}
    BY DEF WorkerInv, IsTerminal
  <1>2. ASSUME NEW k \in Jobs, Submit(k) PROVE status'[j] = status[j]
    BY <1>2 DEF Submit, SubmitCheck, Track, Pool, Assign, runVars
  <1>3. ASSUME NEW k \in Jobs, Run(k) PROVE status'[j] = status[j]
    BY <1>1, <1>3 DEF Run, RunStarts, HandlerReturns, HandlerRaises, Retry,
                      Record, RunReturns
  <1>4. ASSUME NEW k \in Jobs, Cancel(k) PROVE status'[j] = status[j]
    BY <1>4 DEF Cancel, runVars
  <1>5. ASSUME NEW k \in Jobs, CancelMarks(k) PROVE status'[j] = status[j]
    BY <1>5 DEF CancelMarks, FutureInv, IsTerminal
  <1>6. ASSUME Take \/ ShutdownFlag \/ ShutdownPool \/ ShutdownReturns
        PROVE  status'[j] = status[j]
    BY <1>6 DEF Take, ShutdownFlag, ShutdownPool, ShutdownReturns, runVars
  <1>7. ASSUME UNCHANGED vars PROVE status'[j] = status[j]
    BY <1>7 DEF vars
  <1> QED
    BY <1>2, <1>3, <1>4, <1>5, <1>6, <1>7 DEF Next

\* A final status stays as it is, although no lock protects it.
THEOREM TerminalIsFinalHolds == Spec => TerminalIsFinal
  <1>1. IInv /\ [Next]_vars =>
          [\A j \in Jobs : IsTerminal(status[j]) => status'[j] = status[j]]_vars
    BY StatusStep
  <1> QED
    BY <1>1, Inductive, PTL DEF Spec, TerminalIsFinal

\* A cancelled future belongs to a cancelled job, or to one that the call which
\* cancelled it has still to mark.
CancelInv ==
    \A j \in Jobs : future[j] = "cancelled" => status[j] = "cancelled" \/ j \in cancelling

\* No step separates the two.
LEMMA CancelledMarked ==
  ASSUME IInv, CancelInv, [Next]_vars
  PROVE  CancelInv'
  <1> SUFFICES ASSUME NEW j \in Jobs, future'[j] = "cancelled"
               PROVE  status'[j] = "cancelled" \/ j \in cancelling'
    BY DEF CancelInv
  <1> USE DEF IInv, TypeOK
  <1>1. ASSUME NEW k \in Jobs, Submit(k) PROVE status'[j] = "cancelled" \/ j \in cancelling'
    BY <1>1 DEF CancelInv, Submit, SubmitCheck, Track, Pool, Assign, runVars
  <1>2. ASSUME NEW k \in Jobs, Run(k) PROVE status'[j] = "cancelled" \/ j \in cancelling'
    <2>1. future[k] = "running"
      BY <1>2 DEF Run, RunStarts, HandlerReturns, HandlerRaises, Retry, Record,
                  RunReturns, FutureInv
    <2> QED
      BY <1>2, <2>1 DEF CancelInv, Run, RunStarts, HandlerReturns, HandlerRaises,
                        Retry, Record, RunReturns
  <1>3. ASSUME NEW k \in Jobs, Cancel(k) PROVE status'[j] = "cancelled" \/ j \in cancelling'
    BY <1>3 DEF CancelInv, Cancel, runVars
  <1>4. ASSUME NEW k \in Jobs, CancelMarks(k) PROVE status'[j] = "cancelled" \/ j \in cancelling'
    BY <1>4 DEF CancelInv, CancelMarks
  <1>5. ASSUME Take PROVE status'[j] = "cancelled" \/ j \in cancelling'
    BY <1>5 DEF CancelInv, Take
  <1>6. ASSUME ShutdownFlag \/ ShutdownPool \/ ShutdownReturns
        PROVE  status'[j] = "cancelled" \/ j \in cancelling'
    BY <1>6 DEF CancelInv, ShutdownFlag, ShutdownPool, ShutdownReturns, runVars
  <1>7. ASSUME UNCHANGED vars PROVE status'[j] = "cancelled" \/ j \in cancelling'
    BY <1>7 DEF CancelInv, vars
  <1> QED
    BY <1>1, <1>2, <1>3, <1>4, <1>5, <1>6, <1>7 DEF Next

\* wait() comes back with a finished job, or with one that a cancel call is
\* about to mark.
THEOREM WaitMeansFinishedHolds == Spec => []WaitMeansFinished
  <1>1. Init => CancelInv
    BY DEF Init, CancelInv
  <1>2. IInv /\ CancelInv /\ [Next]_vars => CancelInv'
    BY CancelledMarked
  <1>3. IInv /\ CancelInv => WaitMeansFinished
    BY DEF IInv, CancelInv, FutureInv, WaitMeansFinished, WaitReturns, IsTerminal
  <1> QED
    BY <1>1, <1>2, <1>3, Inductive, PTL DEF Spec
=============================================================================
