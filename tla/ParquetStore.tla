---------------------------- MODULE ParquetStore ----------------------------
(***************************************************************************)
(* The partitioned Parquet writer of app/storage/parquet_store.py, as seen *)
(* by the thread that owns it.                                             *)
(*                                                                         *)
(* A record is stored as a row <<run, record>>: run is the run id that     *)
(* names the file, and the record determines the partition directory.  Row *)
(* contents, Arrow conversion and compression are abstracted away; what is *)
(* kept is which rows sit in a hidden temporary file and which are visible *)
(* to readers (readers glob *.parquet).                                    *)
(*                                                                         *)
(* The module gives one action per step of write, _append and flush that   *)
(* another process, a crash or an I/O error can separate.  The callers'    *)
(* modules (StoreClient, StreamConsumer, PipelineRun) compose them.        *)
(***************************************************************************)
EXTENDS Naturals, FiniteSets

CONSTANTS
    Records,      \* the records that can be written
    Partitions,   \* partition directories, e.g. year=../month=../day=..
    PartitionOf,  \* the directory each record belongs to
    Runs          \* run ids; the run id becomes the file name

ASSUME StoreAssumption == PartitionOf \in [Records -> Partitions]

VARIABLES
    op,           \* what the store is doing: see Ops
    run,          \* run id of the write call in progress
    batch,        \* the batch being written
    pending,      \* partitions of that batch not appended yet
    writers,      \* keys of _writers: the final paths with an open writer
    temp,         \* rows in .part-<run>.parquet.tmp files
    published,    \* rows in part-<run>.parquet files
    closing,      \* writers the flush in progress has not visited yet
    swapping,     \* the path whose old file is unlinked, not yet replaced
    errors,       \* flush has collected an OSError
    recordsWritten

storeVars == <<op, run, batch, pending, writers, temp, published, closing,
               swapping, errors, recordsWritten>>

\* "ready" and "raised": the last call returned, or raised StorageError.
Ops == {"ready", "raised", "writing", "flushing"}

NoRun == 0   \* before the first write

Rows  == Runs \X Records
Paths == Runs \X Partitions

\* part-<run_id>.parquet in the directory of the record's partition
PathOf(row) == <<row[1], PartitionOf[row[2]]>>

RowsAt(rows, path) == {row \in rows : PathOf(row) = path}

\* group_by_partition: the partitions a batch falls into, and each one's part
PartitionsOf(events) == {PartitionOf[m] : m \in events}
Bucket(events, p)    == {m \in events : PartitionOf[m] = p}

StoreTypeOK ==
    /\ op \in Ops
    /\ run \in Runs \union {NoRun}
    /\ batch \in SUBSET Records
    /\ pending \in SUBSET Partitions
    /\ writers \in SUBSET Paths
    /\ temp \in SUBSET Rows
    /\ published \in SUBSET Rows
    /\ closing \in SUBSET Paths
    /\ swapping \in SUBSET Paths
    /\ errors \in BOOLEAN
    /\ recordsWritten \in Nat

\* __init__: a new instance on whatever the disk already holds
NewStore ==
    /\ op = "ready"
    /\ batch = {}
    /\ pending = {}
    /\ writers = {}
    /\ closing = {}
    /\ swapping = {}
    /\ errors = FALSE
    /\ recordsWritten = 0

StoreInit ==
    /\ NewStore
    /\ run = NoRun
    /\ temp = {}
    /\ published = {}

-----------------------------------------------------------------------------
(* write(events, run_id), one batch of the batched() loop *)

WriteBatch(events, r) ==
    /\ op \in {"ready", "raised"}
    /\ op' = "writing"
    /\ run' = r
    /\ batch' = events
    /\ pending' = PartitionsOf(events)
    /\ UNCHANGED <<writers, temp, published, closing, swapping, errors,
                   recordsWritten>>

\* Opening a ParquetWriter truncates a temporary file left by an earlier run.
Opened(path) == IF path \in writers THEN temp ELSE temp \ RowsAt(temp, path)

\* _append: one partition's rows go to the (possibly new) writer of its file
AppendPartition(p) ==
    /\ op = "writing"
    /\ p \in pending
    /\ writers' = writers \union {<<run, p>>}
    /\ temp' = Opened(<<run, p>>) \union ({run} \X Bucket(batch, p))
    /\ pending' = pending \ {p}
    /\ UNCHANGED <<op, run, batch, published, closing, swapping, errors,
                   recordsWritten>>

\* _append raises: no writer could be opened, or the writer is open (and stays
\* in _writers) and write_table refused the table.
AppendFails(p) ==
    /\ op = "writing"
    /\ p \in pending
    /\ op' = "raised"
    /\ batch' = {}
    /\ pending' = {}
    /\ \/ /\ <<run, p>> \notin writers
          /\ UNCHANGED <<writers, temp>>
       \/ /\ writers' = writers \union {<<run, p>>}
          /\ temp' = Opened(<<run, p>>)
    /\ UNCHANGED <<run, published, closing, swapping, errors, recordsWritten>>

WriteReturns ==
    /\ op = "writing"
    /\ pending = {}
    /\ op' = "ready"
    /\ recordsWritten' = recordsWritten + Cardinality(batch)
    /\ batch' = {}
    /\ UNCHANGED <<run, pending, writers, temp, published, closing, swapping,
                   errors>>

-----------------------------------------------------------------------------
(* flush(): close every writer and publish its file *)

FlushStart ==
    /\ op \in {"ready", "raised"}
    /\ op' = "flushing"
    /\ closing' = writers
    /\ errors' = FALSE
    /\ UNCHANGED <<run, batch, pending, writers, temp, published, swapping,
                   recordsWritten>>

Visit(path) ==
    /\ op = "flushing"
    /\ path \in closing
    /\ swapping \subseteq {path}

Visited(path) ==
    /\ closing' = closing \ {path}
    /\ writers' = writers \ {path}
    /\ swapping' = {}

\* "if final_path.exists(): final_path.unlink()"
UnlinkFinal(path) ==
    /\ Visit(path)
    /\ RowsAt(published, path) # {}
    /\ published' = published \ RowsAt(published, path)
    /\ swapping' = {path}
    /\ UNCHANGED <<op, run, batch, pending, writers, temp, closing, errors,
                   recordsWritten>>

\* "temp_path.replace(final_path)"
PublishFile(path) ==
    /\ Visit(path)
    /\ RowsAt(published, path) = {}
    /\ published' = published \union RowsAt(temp, path)
    /\ temp' = temp \ RowsAt(temp, path)
    /\ Visited(path)
    /\ UNCHANGED <<op, run, batch, pending, errors, recordsWritten>>

\* One iteration of the loop body that does not raise, up to the point where
\* it can be interrupted.
PublishStep(path) == UnlinkFinal(path) \/ PublishFile(path)

\* Variant: the OSError is not collected.
PublishFails_silent(path) ==
    /\ Visit(path)
    /\ Visited(path)
    /\ UNCHANGED <<op, run, batch, pending, temp, published, errors,
                   recordsWritten>>

\* close, unlink or replace raises OSError: noted, and the loop goes on.  The
\* temporary file is left behind and its writer is forgotten.
PublishFails(path) ==
    /\ Visit(path)
    /\ errors' = TRUE
    /\ Visited(path)
    /\ UNCHANGED <<op, run, batch, pending, temp, published, recordsWritten>>

FlushReturns ==
    /\ op = "flushing"
    /\ closing = {}
    /\ op' = IF errors THEN "raised" ELSE "ready"
    /\ UNCHANGED <<run, batch, pending, writers, temp, published, closing,
                   swapping, errors, recordsWritten>>

\* The instance is gone, with its process or at the end of its run; the files
\* on disk stay as they are for the next one.
StoreCrash ==
    /\ op' = "ready"
    /\ batch' = {}
    /\ pending' = {}
    /\ writers' = {}
    /\ closing' = {}
    /\ swapping' = {}
    /\ errors' = FALSE
    /\ recordsWritten' = 0
    /\ UNCHANGED <<run, temp, published>>
=============================================================================
