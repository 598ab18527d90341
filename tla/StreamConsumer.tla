--------------------------- MODULE StreamConsumer ---------------------------
(***************************************************************************)
(* The consume loop of app/streaming/kafka_consumer.py: poll a batch from  *)
(* Kafka, run every message through StreamProcessor.handle, flush the      *)
(* buffer to the Parquet store, and only then commit the offsets.  The     *)
(* process may crash or be stopped, the store may fail at any step, and    *)
(* the commit may be refused by the broker.                                *)
(*                                                                         *)
(* The broker holds one partition of the topic, messages 1..N in order.    *)
(* A message is abstracted to its Kind and to its deduplication Key; the   *)
(* parse, transform and validate stages only decide the Kind.              *)
(***************************************************************************)
EXTENDS ParquetStore, Integers

CONSTANTS
    N,            \* number of messages the producers will send
    Kind,         \* Kind[m]: "ok", "bad" (rejected) or "null" (no value)
    Keys,         \* deduplication keys
    Key,          \* Key[m]: the content hash deduplication compares
    MaxBatch,     \* streaming.max_batch
    MaxTracked,   \* deduplication.max_tracked_keys
    MaxFaults     \* bound on crashes, stops, I/O errors and refused commits

ASSUME StreamAssumption ==
    /\ N \in Nat
    /\ Records = 1..N
    /\ Runs = Nat
    /\ Kind \in [1..N -> {"ok", "bad", "null"}]
    /\ Key \in [1..N -> Keys]
    /\ MaxBatch \in Nat \ {0}
    /\ MaxTracked \in Nat \ {0}
    /\ MaxFaults \in Nat

NoOffset == -1

VARIABLES
    produced,     \* messages the broker holds: 1..produced
    committed,    \* the group's committed offset, or NoOffset
    position,     \* offset of the last message polled by this consumer
    origin,       \* auxiliary: where the group began reading, given no commit
    pc,           \* control state of consume(): see Locations
    final,        \* consume() has entered its finally clause
    todo,         \* polled messages not handled yet
    buffer,       \* StreamProcessor._buffer
    inflight,     \* the batch flush() took out of the buffer
    seen,         \* keys the deduplicator remembers
    nextRun,      \* flush sequence; the run ids of all processes differ
    stats,        \* StreamStats of this process
    faults

consumerVars == <<position, pc, final, todo, buffer, inflight, seen, stats>>
auxVars == <<origin>>
vars == <<storeVars, produced, committed, position, origin, pc,
          final, todo, buffer, inflight, seen, nextRun, stats, faults>>

Locations == {"down", "loop", "handle", "flush", "writing", "publishing",
              "commit", "closing"}

NoStats == [messages |-> 0, rejected |-> 0, duplicates |-> 0, written |-> 0]

StreamStats ==
    [messages : Nat, rejected : Nat, duplicates : Nat, written : Nat]

TypeOK ==
    /\ StoreTypeOK
    /\ produced \in 0..N
    /\ committed \in -1..N
    /\ position \in 0..N
    /\ origin \in 0..N
    /\ pc \in Locations
    /\ final \in BOOLEAN
    /\ todo \in SUBSET (1..N)
    /\ buffer \in SUBSET (1..N)
    /\ inflight \in SUBSET (1..N)
    /\ seen \in SUBSET Keys
    /\ nextRun \in Nat
    /\ stats \in StreamStats
    /\ faults \in 0..MaxFaults

Init ==
    /\ StoreInit
    /\ produced \in 0..N
    /\ committed = NoOffset
    /\ position = 0
    /\ origin = 0
    /\ pc = "down"
    /\ final = FALSE
    /\ todo = {}
    /\ buffer = {}
    /\ inflight = {}
    /\ seen = {}
    /\ nextRun = 0
    /\ stats = NoStats
    /\ faults = 0

Spend == faults < MaxFaults /\ faults' = faults + 1

-----------------------------------------------------------------------------
(* The broker and the start of a consumer process *)

Produce ==
    /\ produced < N
    /\ produced' = produced + 1
    /\ UNCHANGED <<storeVars, committed, consumerVars, auxVars, nextRun, faults>>

\* Where a new process begins to read: auto.offset.reset is "latest", so a group
\* with no committed offset begins at the end of the log.
StartOffset == IF committed = NoOffset THEN produced ELSE committed

Start ==
    /\ pc = "down"
    /\ pc' = "loop"
    /\ position' = StartOffset
    /\ origin' = IF committed = NoOffset THEN produced ELSE origin
    /\ UNCHANGED <<storeVars, produced, committed, final, todo, buffer,
                   inflight, seen, nextRun, stats, faults>>

\* The process is gone: all that it held in memory is lost with it.
Down ==
    /\ pc' = "down"
    /\ final' = FALSE
    /\ todo' = {}
    /\ buffer' = {}
    /\ inflight' = {}
    /\ seen' = {}
    /\ stats' = NoStats
    /\ StoreCrash

Crash ==
    /\ pc # "down"
    /\ Spend
    /\ Down
    /\ UNCHANGED <<produced, committed, position, auxVars, nextRun>>

-----------------------------------------------------------------------------
(* The loop *)

\* poll_batch: up to MaxBatch values; a poll that times out ends the batch
\* early.  Messages without a value are skipped.
PollBatch ==
    /\ pc = "loop"
    /\ \E last \in (position + 1)..produced :
        /\ todo' = {m \in (position + 1)..last : Kind[m] # "null"}
        /\ Cardinality(todo') <= MaxBatch
        /\ Cardinality(todo') = MaxBatch => last \in todo'
        /\ position' = last
        /\ pc' = IF todo' = {} THEN "loop" ELSE "handle"
    /\ UNCHANGED <<storeVars, produced, committed, auxVars, final, buffer,
                   inflight, seen, nextRun, stats, faults>>

\* poll_batch returned nothing: the loop goes round.
PollEmpty ==
    /\ pc = "loop"
    /\ UNCHANGED vars

\* stop() was called, or max_batches is reached: leave the loop.
Stop ==
    /\ pc = "loop"
    /\ Spend
    /\ final' = TRUE
    /\ pc' = "flush"
    /\ UNCHANGED <<storeVars, produced, committed, position, auxVars, todo,
                   buffer, inflight, seen, nextRun, stats>>

\* SeenKeys.add: at the limit the least recently used key is forgotten; which
\* one that is, is left open here.
Remember(k) ==
    IF Cardinality(seen) < MaxTracked
    THEN seen' = seen \union {k}
    ELSE \E old \in seen : seen' = (seen \ {old}) \union {k}

\* Variant: the rejection is not counted.
Reject_uncounted(m) ==
    /\ Kind[m] = "bad"
    /\ stats' = [stats EXCEPT !.messages = @ + 1]
    /\ UNCHANGED <<buffer, seen>>

\* The lines of handle after the stages have accepted or refused message m.
Reject(m) ==
    /\ Kind[m] = "bad"
    /\ stats' = [stats EXCEPT !.messages = @ + 1, !.rejected = @ + 1]
    /\ UNCHANGED <<buffer, seen>>

Duplicate(m) ==
    /\ Kind[m] = "ok"
    /\ Key[m] \in seen
    /\ stats' = [stats EXCEPT !.messages = @ + 1, !.duplicates = @ + 1]
    /\ UNCHANGED <<buffer, seen>>

Accept(m) ==
    /\ Kind[m] = "ok"
    /\ Key[m] \notin seen
    /\ Remember(Key[m])
    /\ buffer' = buffer \union {m}
    /\ stats' = [stats EXCEPT !.messages = @ + 1]

\* Variant: the offsets are committed before the flush.
Handle_commitsFirst ==
    /\ pc = "handle"
    /\ \E m \in todo :
        /\ \A n \in todo : m <= n
        /\ Reject(m) \/ Duplicate(m) \/ Accept(m)
        /\ todo' = todo \ {m}
        /\ pc' = IF todo' = {} THEN "commit" ELSE "handle"
    /\ UNCHANGED <<storeVars, produced, committed, position, auxVars, final,
                   inflight, nextRun, faults>>

\* process_batch hands the messages to handle in order, then calls flush.
Handle ==
    /\ pc = "handle"
    /\ \E m \in todo :
        /\ \A n \in todo : m <= n
        /\ Reject(m) \/ Duplicate(m) \/ Accept(m)
        /\ todo' = todo \ {m}
        /\ pc' = IF todo' = {} THEN "flush" ELSE "handle"
    /\ UNCHANGED <<storeVars, produced, committed, position, auxVars, final,
                   inflight, nextRun, faults>>

-----------------------------------------------------------------------------
(* StreamProcessor.flush *)

\* Where control goes when flush returns: commit after process_batch,
\* source.close() in the finally clause.
AfterFlush == IF final THEN "closing" ELSE "commit"

FlushEmpty ==
    /\ pc = "flush"
    /\ buffer = {}
    /\ pc' = AfterFlush
    /\ UNCHANGED <<storeVars, produced, committed, position, auxVars, final,
                   todo, buffer, inflight, seen, nextRun, stats, faults>>

\* Variant: a run id that two flushes can share, e.g. the wall-clock second.
FlushBuffer_sameRun ==
    /\ pc = "flush"
    /\ buffer # {}
    /\ inflight' = buffer
    /\ buffer' = {}
    /\ nextRun' = 1
    /\ WriteBatch(buffer, nextRun')
    /\ pc' = "writing"
    /\ UNCHANGED <<produced, committed, position, auxVars, final, todo, seen,
                   stats, faults>>

FlushBuffer ==
    /\ pc = "flush"
    /\ buffer # {}
    /\ inflight' = buffer
    /\ buffer' = {}
    /\ nextRun' = nextRun + 1
    /\ WriteBatch(buffer, nextRun')
    /\ pc' = "writing"
    /\ UNCHANGED <<produced, committed, position, auxVars, final, todo, seen,
                   stats, faults>>

\* store.write appends partition by partition ...
WriteSome ==
    /\ pc = "writing"
    /\ \/ \E p \in pending : AppendPartition(p)
       \/ WriteReturns
    /\ UNCHANGED <<produced, committed, consumerVars, auxVars, nextRun, faults>>

\* ... then store.flush publishes file by file.
StoreFlush ==
    /\ pc = "writing"
    /\ op = "ready"
    /\ FlushStart
    /\ pc' = "publishing"
    /\ UNCHANGED <<produced, committed, position, auxVars, final, todo, buffer,
                   inflight, seen, nextRun, stats, faults>>

PublishSome ==
    /\ pc = "publishing"
    /\ \/ \E path \in closing : PublishStep(path)
       \/ FlushReturns
    /\ UNCHANGED <<produced, committed, consumerVars, auxVars, nextRun, faults>>

StoreFault ==
    /\ Spend
    /\ \/ pc = "writing" /\ \E p \in pending : AppendFails(p)
       \/ pc = "publishing" /\ \E path \in closing : PublishFails(path)
    /\ UNCHANGED <<produced, committed, consumerVars, auxVars, nextRun>>

FlushSucceeds ==
    /\ pc = "publishing"
    /\ op = "ready"
    /\ stats' = [stats EXCEPT !.written = @ + Cardinality(inflight)]
    /\ inflight' = {}
    /\ pc' = AfterFlush
    /\ UNCHANGED <<storeVars, produced, committed, position, auxVars, final,
                   todo, buffer, seen, nextRun, faults>>

\* Variant: the exception is logged and swallowed, so the commit follows.
FlushRaises_swallowed ==
    /\ pc \in {"writing", "publishing"}
    /\ op = "raised"
    /\ ~final
    /\ buffer' = inflight \union buffer
    /\ inflight' = {}
    /\ pc' = "commit"
    /\ UNCHANGED <<storeVars, produced, committed, position, auxVars, final,
                   todo, seen, nextRun, stats, faults>>

\* The batch goes back to the buffer and the exception leaves consume() by way
\* of the finally clause, which flushes once more, with a run id of its own.
FlushRaises ==
    /\ pc \in {"writing", "publishing"}
    /\ op = "raised"
    /\ ~final
    /\ buffer' = inflight \union buffer
    /\ inflight' = {}
    /\ final' = TRUE
    /\ pc' = "flush"
    /\ UNCHANGED <<storeVars, produced, committed, position, auxVars, todo,
                   seen, nextRun, stats, faults>>

\* A flush that raises inside the finally clause ends the process.
FinalFlushRaises ==
    /\ pc \in {"writing", "publishing"}
    /\ op = "raised"
    /\ final
    /\ Down
    /\ UNCHANGED <<produced, committed, position, auxVars, nextRun, faults>>

-----------------------------------------------------------------------------
(* KafkaLogConsumer.commit and close *)

Commit ==
    /\ pc = "commit"
    /\ committed' = position
    /\ pc' = "loop"
    /\ UNCHANGED <<storeVars, produced, position, auxVars, final, todo, buffer,
                   inflight, seen, nextRun, stats, faults>>

\* The broker refuses the commit: logged and swallowed.
CommitFails ==
    /\ pc = "commit"
    /\ Spend
    /\ pc' = "loop"
    /\ UNCHANGED <<storeVars, produced, committed, position, auxVars, final,
                   todo, buffer, inflight, seen, nextRun, stats>>

Close ==
    /\ pc = "closing"
    /\ Down
    /\ UNCHANGED <<produced, committed, position, auxVars, nextRun, faults>>

-----------------------------------------------------------------------------
\* The steps a running consumer takes by itself, when nothing goes wrong.
Progress ==
    \/ PollBatch \/ Handle
    \/ FlushEmpty \/ FlushBuffer \/ WriteSome \/ StoreFlush \/ PublishSome
    \/ FlushSucceeds \/ FlushRaises \/ FinalFlushRaises
    \/ Commit \/ Close

Next ==
    \/ Produce
    \/ Start
    \/ Progress
    \/ PollEmpty
    \/ Stop
    \/ Crash
    \/ StoreFault
    \/ CommitFails

Spec == Init /\ [][Next]_vars

\* A running process is scheduled.  Nothing starts one that has ended, and
\* nothing obliges producers or faults to happen.
FairSpec == Spec /\ WF_vars(Progress)

-----------------------------------------------------------------------------
(* Properties *)

\* Message m needs no more work: it holds nothing to store, or a row with its
\* content is visible to readers.
Durable(m) ==
    \/ Kind[m] # "ok"
    \/ \E row \in published : Key[row[2]] = Key[m]

\* No loss: every message up to the committed offset, from where the group
\* began, is durable.  commit() comes after the flush, a flush that fails
\* part-way puts its batch back, and a message dropped as a duplicate is one
\* whose first copy is durable by the time the offset is committed.
CommittedIsDurable ==
    \A m \in (origin + 1)..committed : Durable(m)

\* Every message handled by this process is in exactly one place: rejected,
\* duplicate, buffered, being flushed or written.
StatsAddUp ==
    stats.messages = stats.rejected + stats.duplicates + stats.written
                     + Cardinality(buffer) + Cardinality(inflight)

\* What is visible stays visible: flushes of one process, and of its
\* successors, never replace one another's files.
PublishedGrows == [][published \subseteq published']_vars

\* The committed offset never moves back, whatever replays happen.
CommitMonotone == [][committed' >= committed]_vars

\* Progress: a message that was polled is durable in the end, or the process
\* ends; none stays in the buffer of a topic on which nothing follows it.
PolledSettles ==
    \A m \in 1..N : m \in todo ~> (Durable(m) \/ pc = "down")

\* The inductive invariant behind CommittedIsDurable.

\* A key the process still owes to storage, or has already stored.
InMemory(k)  == \E m \in buffer \union inflight : Key[m] = k
Published(k) == \E row \in published : Key[row[2]] = k

\* What each control state says about the processor's own variables.
ControlInv ==
    /\ pc \in {"down", "loop", "commit"} => buffer = {}
    /\ pc \notin {"writing", "publishing"} => inflight = {}
    /\ pc \in {"writing", "publishing"} => buffer = {}
    /\ pc # "handle" => todo = {}
    /\ pc = "down" => seen = {}
    /\ pc = "writing" => op \in {"writing", "ready", "raised"}
    /\ pc = "publishing" => op \in {"flushing", "ready", "raised"}
    /\ pc \notin {"writing", "publishing"} => op \in {"ready", "raised"}

\* Nothing polled is forgotten: it is still to be handled, in memory or durable;
\* and a remembered key is one whose message is in memory or stored.
CoverInv ==
    /\ pc # "down" => \A m \in (origin + 1)..position :
                          m \in todo \/ Durable(m) \/ InMemory(Key[m])
    /\ pc # "down" => committed <= position
    /\ \A k \in seen : Published(k) \/ InMemory(k)

\* Where the rows of the batch being flushed are.
Staged(m) == <<nextRun, m>> \in temp /\ <<nextRun, PartitionOf[m]>> \in writers
FlushInv ==
    /\ pc = "writing" /\ op = "writing" =>
           /\ batch = inflight
           /\ run = nextRun
           /\ \A m \in inflight : PartitionOf[m] \in pending \/ Staged(m)
    /\ pc = "writing" /\ op = "ready" => \A m \in inflight : Staged(m)
    /\ pc = "publishing" /\ op = "flushing" =>
           \A m \in inflight :
               \/ errors
               \/ <<nextRun, m>> \in published
               \/ Staged(m) /\ <<nextRun, PartitionOf[m]>> \in closing
    /\ pc = "publishing" /\ op = "ready" =>
           \A m \in inflight : <<nextRun, m>> \in published

\* Run ids are not reused, so no open writer's file exists already.
FreshInv ==
    /\ swapping = {}
    /\ closing \subseteq writers
    /\ \A row \in temp \union published : row[1] <= nextRun
    /\ \A path \in writers : path[1] <= nextRun
    /\ \A path \in writers : RowsAt(published, path) = {}
    /\ pc = "writing" => \A row \in published : row[1] # nextRun

\* What is buffered has been taken out of the polled batch, so that handling the
\* rest of it never buffers a message twice; behind StatsAddUp.
BufferedOnce == buffer \intersect todo = {}

IInv ==
    /\ TypeOK
    /\ ControlInv
    /\ CoverInv
    /\ FlushInv
    /\ FreshInv
    /\ CommittedIsDurable

Delivery == INSTANCE AtLeastOnce
                WITH start <- origin, acked <- committed,
                     settled <- {m \in 1..N : Durable(m)}

\* The loop implements at-least-once delivery.
Implements == Delivery!Spec
=============================================================================
