------------------------------ MODULE JobQueue ------------------------------
(***************************************************************************)
(* The in-process job queue of app/workers/queue.py: request threads call  *)
(* submit, cancel, wait and shutdown while the threads of a                *)
(* ThreadPoolExecutor run the jobs with retries and backoff.               *)
(*                                                                         *)
(* Only the registry of jobs is protected by a lock; the fields of a Job   *)
(* are written by its worker and by cancel without one.  Every write that  *)
(* another thread can observe is therefore a step of its own.  The pool    *)
(* and its futures are the standard library's, modelled from their use.    *)
(***************************************************************************)
EXTENDS Naturals, Sequences, FiniteSets

CONSTANTS
    Jobs,         \* ids of the jobs callers may submit
    Concurrency,  \* workers.concurrency: threads of the pool
    MaxHistory,   \* max_history: jobs remembered once they are finished
    MaxRetries    \* MaxRetries[j]: max_retries of job j

ASSUME QueueAssumption ==
    /\ IsFiniteSet(Jobs)
    /\ Concurrency \in Nat \ {0}
    /\ MaxHistory \in Nat \ {0}
    /\ MaxRetries \in [Jobs -> Nat]

VARIABLES
    shutdown,     \* "open", "flagged" (_shutdown set), "closed" (the pool too)
                  \* or "joined" (shutdown(wait=True) has returned)
    submit,       \* progress of the submit call of each job
    registry,     \* keys of _jobs
    since,        \* position in _jobs' insertion order, 0 before
    status,       \* Job.status
    attempts,     \* Job.attempts
    recorded,     \* Job.result, or Job.error, has been assigned
    future,       \* state of the job's Future, "none" before there is one
    queue,        \* the pool's work queue
    at,           \* where the worker running the job is in _run
    cancelling    \* cancel() succeeded on the future, status not set yet

runVars == <<status, attempts, recorded, at>>
vars == <<shutdown, submit, registry, since, status, attempts, recorded,
          future, queue, at, cancelling>>

\* JobStatus
Statuses == {"pending", "running", "succeeded", "failed", "cancelled",
             "retrying"}
IsTerminal(s) == s \in {"succeeded", "failed", "cancelled"}

TypeOK ==
    /\ shutdown \in {"open", "flagged", "closed", "joined"}
    /\ submit \in [Jobs -> {"new", "checked", "tracked", "queued", "returned",
                            "raised"}]
    /\ registry \in SUBSET Jobs
    /\ since \in [Jobs -> Nat]
    /\ status \in [Jobs -> Statuses]
    /\ attempts \in [Jobs -> Nat]
    /\ recorded \in [Jobs -> BOOLEAN]
    /\ future \in [Jobs -> {"none", "pending", "running", "cancelled",
                            "finished"}]
    /\ queue \in Seq(Jobs)
    /\ at \in [Jobs -> {"idle", "start", "call", "sleep", "record", "exit"}]
    /\ cancelling \in SUBSET Jobs

Init ==
    /\ shutdown = "open"
    /\ submit = [j \in Jobs |-> "new"]
    /\ registry = {}
    /\ since = [j \in Jobs |-> 0]
    /\ status = [j \in Jobs |-> "pending"]
    /\ attempts = [j \in Jobs |-> 0]
    /\ recorded = [j \in Jobs |-> FALSE]
    /\ future = [j \in Jobs |-> "none"]
    /\ queue = <<>>
    /\ at = [j \in Jobs |-> "idle"]
    /\ cancelling = {}

-----------------------------------------------------------------------------
(* submit *)

SubmitCheck(j) ==
    /\ submit[j] = "new"
    /\ submit' = [submit EXCEPT
                     ![j] = IF shutdown = "open" THEN "checked" ELSE "raised"]
    /\ UNCHANGED <<shutdown, registry, since, runVars, future, queue,
                   cancelling>>

\* Variant: the oldest job goes, finished or not.
Evicted_oldest(jobs) ==
    LET Rank(j) == Cardinality({k \in jobs : since[k] <= since[j]})
    IN  {j \in jobs : MaxHistory + Rank(j) <= Cardinality(jobs)}

\* _prune: while there are more than MaxHistory jobs, drop the finished one
\* that was inserted first.
Evicted(jobs) ==
    LET done == {j \in jobs : IsTerminal(status[j])}
        Rank(j) == Cardinality({k \in done : since[k] <= since[j]})
    IN  {j \in done : MaxHistory + Rank(j) <= Cardinality(jobs)}

\* "with self._lock": insert the job, then _prune.
Track(j) ==
    /\ submit[j] = "checked"
    /\ submit' = [submit EXCEPT ![j] = "tracked"]
    /\ since' = [since EXCEPT ![j] = 1 + Cardinality({k \in Jobs : since[k] > 0})]
    /\ registry' = LET jobs == registry \union {j} IN jobs \ Evicted(jobs)
    /\ UNCHANGED <<shutdown, runVars, future, queue, cancelling>>

\* Variant: the pool does not look at its own shutdown flag.
Pool_afterShutdown(j) ==
    /\ submit[j] = "tracked"
    /\ submit' = [submit EXCEPT ![j] = "queued"]
    /\ future' = [future EXCEPT ![j] = "pending"]
    /\ queue' = Append(queue, j)
    /\ UNCHANGED <<shutdown, registry, since, runVars, cancelling>>

\* _executor.submit: a pool that has been shut down raises RuntimeError, and
\* the job stays in the registry.
Pool(j) ==
    /\ submit[j] = "tracked"
    /\ \/ /\ shutdown \in {"open", "flagged"}
          /\ submit' = [submit EXCEPT ![j] = "queued"]
          /\ future' = [future EXCEPT ![j] = "pending"]
          /\ queue' = Append(queue, j)
       \/ /\ shutdown \in {"closed", "joined"}
          /\ submit' = [submit EXCEPT ![j] = "raised"]
          /\ UNCHANGED <<future, queue>>
    /\ UNCHANGED <<shutdown, registry, since, runVars, cancelling>>

\* "job._future = ...": until then cancel and wait see no future.
Assign(j) ==
    /\ submit[j] = "queued"
    /\ submit' = [submit EXCEPT ![j] = "returned"]
    /\ UNCHANGED <<shutdown, registry, since, runVars, future, queue,
                   cancelling>>

-----------------------------------------------------------------------------
(* A worker thread: the pool's loop around _run *)

Busy == {j \in Jobs : at[j] # "idle"}

\* An idle thread takes the next item; set_running_or_notify_cancel skips one
\* whose future was cancelled.
Take ==
    /\ queue # <<>>
    /\ Cardinality(Busy) < Concurrency
    /\ queue' = Tail(queue)
    /\ LET j == Head(queue) IN
         \/ /\ future[j] = "pending"
            /\ future' = [future EXCEPT ![j] = "running"]
            /\ at' = [at EXCEPT ![j] = "start"]
         \/ /\ future[j] = "cancelled"
            /\ UNCHANGED <<future, at>>
    /\ UNCHANGED <<shutdown, submit, registry, since, status, attempts,
                   recorded, cancelling>>

RunStarts(j) ==
    /\ at[j] = "start"
    /\ status' = [status EXCEPT ![j] = "running"]
    /\ attempts' = [attempts EXCEPT ![j] = 1]
    /\ at' = [at EXCEPT ![j] = "call"]
    /\ UNCHANGED <<shutdown, submit, registry, since, recorded, future, queue,
                   cancelling>>

HandlerReturns(j) ==
    /\ at[j] = "call"
    /\ status' = [status EXCEPT ![j] = "succeeded"]
    /\ at' = [at EXCEPT ![j] = "record"]
    /\ UNCHANGED <<shutdown, submit, registry, since, attempts, recorded,
                   future, queue, cancelling>>

HandlerRaises(j) ==
    /\ at[j] = "call"
    /\ \/ /\ attempts[j] > MaxRetries[j]
          /\ status' = [status EXCEPT ![j] = "failed"]
          /\ at' = [at EXCEPT ![j] = "record"]
       \/ /\ attempts[j] <= MaxRetries[j]
          /\ status' = [status EXCEPT ![j] = "retrying"]
          /\ at' = [at EXCEPT ![j] = "sleep"]
    /\ UNCHANGED <<shutdown, submit, registry, since, attempts, recorded,
                   future, queue, cancelling>>

\* time.sleep is over and the loop goes round; the status stays "retrying".
Retry(j) ==
    /\ at[j] = "sleep"
    /\ attempts' = [attempts EXCEPT ![j] = @ + 1]
    /\ at' = [at EXCEPT ![j] = "call"]
    /\ UNCHANGED <<shutdown, submit, registry, since, status, recorded, future,
                   queue, cancelling>>

\* job.result, or job.error, is assigned after job.status.
Record(j) ==
    /\ at[j] = "record"
    /\ recorded' = [recorded EXCEPT ![j] = TRUE]
    /\ at' = [at EXCEPT ![j] = "exit"]
    /\ UNCHANGED <<shutdown, submit, registry, since, status, attempts, future,
                   queue, cancelling>>

\* Variant: waiters are woken before the result is assigned.
RunReturns_early(j) ==
    /\ at[j] \in {"record", "exit"}
    /\ future' = [future EXCEPT ![j] = "finished"]
    /\ at' = [at EXCEPT ![j] = "idle"]
    /\ UNCHANGED <<shutdown, submit, registry, since, status, attempts,
                   recorded, queue, cancelling>>

\* _run returns: the pool sets the future's result and wakes its waiters.
RunReturns(j) ==
    /\ at[j] = "exit"
    /\ future' = [future EXCEPT ![j] = "finished"]
    /\ at' = [at EXCEPT ![j] = "idle"]
    /\ UNCHANGED <<shutdown, submit, registry, since, status, attempts,
                   recorded, queue, cancelling>>

-----------------------------------------------------------------------------
(* cancel, wait and shutdown *)

\* job._future as another thread reads it
HasFuture(j) == submit[j] = "returned"

\* Variant: the answer of Future.cancel is not looked at.
Cancel_anything(j) ==
    /\ j \in registry
    /\ HasFuture(j)
    /\ cancelling' = cancelling \union {j}
    /\ UNCHANGED <<shutdown, submit, registry, since, runVars, future, queue>>

\* Variant: cancel ends the future and leaves the status alone.
Cancel_unmarked(j) ==
    /\ j \in registry
    /\ HasFuture(j)
    /\ future[j] \in {"pending", "cancelled"}
    /\ future' = [future EXCEPT ![j] = "cancelled"]
    /\ UNCHANGED <<shutdown, submit, registry, since, runVars, queue,
                   cancelling>>

\* Future.cancel: succeeds unless the job is running or finished
Cancel(j) ==
    /\ j \in registry
    /\ HasFuture(j)
    /\ future[j] \in {"pending", "cancelled"}
    /\ future' = [future EXCEPT ![j] = "cancelled"]
    /\ cancelling' = cancelling \union {j}
    /\ UNCHANGED <<shutdown, submit, registry, since, runVars, queue>>

CancelMarks(j) ==
    /\ j \in cancelling
    /\ status' = [status EXCEPT ![j] = "cancelled"]
    /\ cancelling' = cancelling \ {j}
    /\ UNCHANGED <<shutdown, submit, registry, since, attempts, recorded,
                   future, queue, at>>

\* In these states wait(j) with no timeout returns: at once if there is no
\* future, otherwise when the future is done (a CancelledError is suppressed).
WaitReturns(j) ==
    /\ j \in registry
    /\ HasFuture(j) => future[j] \in {"cancelled", "finished"}

ShutdownFlag ==
    /\ shutdown = "open"
    /\ shutdown' = "flagged"
    /\ UNCHANGED <<submit, registry, since, runVars, future, queue, cancelling>>

\* Variant: the items that are still queued are thrown away.
ShutdownPool_drops ==
    /\ shutdown = "flagged"
    /\ shutdown' = "closed"
    /\ queue' = <<>>
    /\ UNCHANGED <<submit, registry, since, runVars, future, cancelling>>

\* _executor.shutdown: no more items are accepted; queued ones still run.
ShutdownPool ==
    /\ shutdown = "flagged"
    /\ shutdown' = "closed"
    /\ UNCHANGED <<submit, registry, since, runVars, future, queue, cancelling>>

\* wait=True joins the threads, which exit when the queue is empty.
ShutdownReturns ==
    /\ shutdown = "closed"
    /\ queue = <<>>
    /\ Busy = {}
    /\ shutdown' = "joined"
    /\ UNCHANGED <<submit, registry, since, runVars, future, queue, cancelling>>

-----------------------------------------------------------------------------
Submit(j) == SubmitCheck(j) \/ Track(j) \/ Pool(j) \/ Assign(j)

Run(j) ==
    \/ RunStarts(j) \/ HandlerReturns(j) \/ HandlerRaises(j)
    \/ Retry(j) \/ Record(j) \/ RunReturns(j)

Next ==
    \/ \E j \in Jobs :
        \/ Submit(j)
        \/ Run(j)
        \/ Cancel(j)
        \/ CancelMarks(j)
    \/ Take
    \/ ShutdownFlag
    \/ ShutdownPool
    \/ ShutdownReturns

Spec == Init /\ [][Next]_vars

\* Threads that have work are scheduled, and every handler returns or raises;
\* nobody is obliged to submit, cancel or shut down.
FairSpec ==
    /\ Spec
    /\ WF_vars(Take)
    /\ WF_vars(ShutdownPool)
    /\ WF_vars(ShutdownReturns)
    /\ \A j \in Jobs :
        /\ WF_vars(Run(j))
        /\ WF_vars(CancelMarks(j))
        /\ WF_vars(submit[j] # "new" /\ Submit(j))

-----------------------------------------------------------------------------
(* Properties *)

\* cancel() "only applies to queued work": a job reported as cancelled was
\* never started and never will be, whichever thread comes first.
CancelledNeverRuns ==
    \A j \in Jobs : status[j] = "cancelled" => attempts[j] = 0 /\ at[j] = "idle"

\* The status a client has seen as final does not change any more, although
\* cancel and the worker write it without a lock.
TerminalIsFinal ==
    [][\A j \in Jobs : IsTerminal(status[j]) => status'[j] = status[j]]_vars

\* Whoever waits for a future that ran finds the job finished, with its result
\* or its error in place.
FinishedIsRecorded ==
    \A j \in Jobs : future[j] = "finished" =>
        status[j] \in {"succeeded", "failed"} /\ recorded[j]

\* A job fails only when all its retries are used, and never runs more often.
RetriesExhausted ==
    \A j \in Jobs :
        /\ attempts[j] <= MaxRetries[j] + 1
        /\ status[j] = "failed" => attempts[j] = MaxRetries[j] + 1

\* "Drop the oldest *finished* jobs": a job that was accepted can be looked up
\* until it is finished, however full the history is.
LiveJobsTracked ==
    \A j \in Jobs : since[j] > 0 /\ ~IsTerminal(status[j]) => j \in registry

\* shutdown(wait=True) returns when every job that got into the pool is
\* finished or cancelled: nothing is left half done.
JoinedMeansDone ==
    shutdown = "joined" =>
        \A j \in Jobs : future[j] \in {"none", "cancelled", "finished"}

\* A job is left without a future only while its submit call is under way, or
\* because that call raised.
OrphanMeansRaised ==
    \A j \in Jobs : since[j] > 0 /\ future[j] = "none" =>
        submit[j] = "tracked" \/ (submit[j] = "raised" /\ shutdown # "open")

\* Every job whose submit call succeeds is finished or cancelled in the end,
\* after a shutdown too.
EverySubmittedSettles ==
    \A j \in Jobs : submit[j] = "queued" ~> IsTerminal(status[j])

\* wait(): "Block until a job finishes".  For a caller whose submit returned, it
\* comes back with a finished job, or with one that a cancel call is about to
\* mark: cancel() ends the future before it sets the status.
WaitMeansFinished ==
    \A j \in Jobs : HasFuture(j) /\ WaitReturns(j) =>
        IsTerminal(status[j]) \/ j \in cancelling

\* The inductive invariant behind the safety properties.

\* What the future's state says about the job and about its worker.
FutureInv(j) ==
    /\ future[j] \in {"none", "pending", "cancelled"} => attempts[j] = 0
    /\ future[j] \in {"none", "pending"} => status[j] = "pending"
    /\ future[j] = "cancelled" => status[j] \in {"pending", "cancelled"}
    /\ future[j] = "running" <=> at[j] # "idle"
    /\ future[j] = "finished" => status[j] \in {"succeeded", "failed"}
                                /\ recorded[j]
    /\ j \in cancelling => future[j] = "cancelled"

\* What the worker's place in _run says about the job.
WorkerInv(j) ==
    /\ at[j] = "start" => status[j] = "pending" /\ attempts[j] = 0
    /\ at[j] = "call" => status[j] \in {"running", "retrying"}
                         /\ attempts[j] <= MaxRetries[j] + 1
    /\ at[j] = "sleep" => status[j] = "retrying"
                          /\ attempts[j] <= MaxRetries[j]
    /\ at[j] \in {"record", "exit"} => status[j] \in {"succeeded", "failed"}
    /\ at[j] = "exit" => recorded[j]

\* What the submit call has done so far.
SubmitInv(j) ==
    /\ submit[j] \in {"queued", "returned"} <=> future[j] # "none"
    /\ submit[j] \in {"new", "checked"} => since[j] = 0
    /\ submit[j] \in {"tracked", "queued", "returned"} => since[j] # 0
    /\ since[j] = 0 => future[j] = "none"

\* A future that waits to be run waits in the pool's queue.
QueueInv ==
    \A j \in Jobs : future[j] = "pending" =>
        \E i \in 1..Len(queue) : queue[i] = j

IInv ==
    /\ TypeOK
    /\ \A j \in Jobs : FutureInv(j) /\ WorkerInv(j) /\ SubmitInv(j)
    /\ QueueInv
    /\ RetriesExhausted
    /\ LiveJobsTracked
    /\ OrphanMeansRaised
    /\ JoinedMeansDone
=============================================================================
