---------------------------- MODULE PipelineRun ----------------------------
(***************************************************************************)
(* LogPipeline.run of app/pipeline/orchestrator.py: the generator stages   *)
(* parse, transform, validate and deduplicate feed the Parquet store, and  *)
(* _finalise publishes whatever was written, also after a failure.         *)
(*                                                                         *)
(* The stages are chained generators, so a line goes through all of them,  *)
(* and the batch it fills is written, before the next line is read.  A     *)
(* line is abstracted to what becomes of it: unparseable, refused by       *)
(* transform or validate, or a record with a deduplication key.            *)
(***************************************************************************)
EXTENDS ParquetStore

CONSTANTS
    N,            \* lines of the source
    Keys,         \* deduplication keys of well-formed records
    BatchSize,    \* batch_size of the store
    CheckEvery,   \* lines between two checks of the rejection rate (10,000)
    Num, Den,     \* processing.error_threshold is Num/Den
    MaxTracked,   \* deduplication.max_tracked_keys
    DlqMax,       \* max_records of the dead-letter queue
    Limits,       \* values of PipelineOptions.limit; one above N means None
    MaxRuns,      \* bound on runs over the same source
    MaxFaults     \* bound on I/O errors, crashes and shutdown signals

ASSUME PipelineAssumption ==
    /\ N \in Nat
    /\ Records = 1..N
    /\ Runs = 1..MaxRuns
    /\ Keys \intersect {"unparseable", "invalid"} = {}
    /\ BatchSize \in Nat \ {0}
    /\ CheckEvery \in Nat \ {0}
    /\ Num \in Nat /\ Den \in Nat \ {0} /\ Num <= Den
    /\ MaxTracked \in Nat \ {0}
    /\ DlqMax \in Nat
    /\ Limits \subseteq Nat
    /\ MaxRuns \in Nat \ {0}
    /\ MaxFaults \in Nat

VARIABLES
    line,         \* what each line of the source is: see Lines
    opts,         \* PipelineOptions and deduplication.keep_duplicates
    pc,           \* control state of run(): see Locations
    runId,        \* opts.run_id, a new one for every run
    at,           \* lines taken through the stages
    ended,        \* the source is exhausted, limited or stopped
    stop,         \* GracefulShutdown.requested
    held,         \* the batch that batched() is filling
    seen,         \* keys the deduplicator remembers
    duplicates,   \* deduplicator.stats.duplicates
    result,       \* PipelineResult
    dlq,          \* the dead-letter queue's counters
    checkedAt,    \* lines_read at the last check of the rejection rate
    faults

inputVars == <<line, opts>>
stageVars == <<at, held, seen, duplicates, dlq, checkedAt>>
vars == <<storeVars, line, opts, pc, runId, at, ended, stop, held, seen,
          duplicates, result, dlq, checkedAt, faults>>

Lines == {"unparseable", "invalid"} \union Keys

Options == [dryRun : BOOLEAN, limit : Limits, keepDuplicates : BOOLEAN]

Locations == {"open", "read", "check", "write", "finalise", "flush", "done",
              "down"}

NoResult == [lines |-> 0, parsed |-> 0, valid |-> 0, rejected |-> 0,
             duplicate |-> 0, written |-> 0, succeeded |-> TRUE]

PipelineResult ==
    [lines : Nat, parsed : Nat, valid : Nat, rejected : Nat, duplicate : Nat,
     written : Nat, succeeded : BOOLEAN]

EmptyDlq == [total |-> 0, written |-> 0, dropped |-> 0]

TypeOK ==
    /\ StoreTypeOK
    /\ line \in [1..N -> Lines]
    /\ opts \in Options
    /\ pc \in Locations
    /\ runId \in Runs
    /\ at \in 0..N
    /\ ended \in BOOLEAN
    /\ stop \in BOOLEAN
    /\ held \in SUBSET (1..N)
    /\ seen \in SUBSET Keys
    /\ duplicates \in Nat
    /\ result \in PipelineResult
    /\ dlq \in [total : Nat, written : Nat, dropped : Nat]
    /\ checkedAt \in Nat
    /\ faults \in 0..MaxFaults

Init ==
    /\ StoreInit
    /\ line \in [1..N -> Lines]
    /\ opts \in Options
    /\ pc = "open"
    /\ runId = 1
    /\ at = 0
    /\ ended = FALSE
    /\ stop = FALSE
    /\ held = {}
    /\ seen = {}
    /\ duplicates = 0
    /\ result = NoResult
    /\ dlq = EmptyDlq
    /\ checkedAt = 0
    /\ faults = 0

Spend == faults < MaxFaults /\ faults' = faults + 1

\* Any exception: run() notes it in the result and goes to _finalise.  The
\* generators, and the batch that was being filled, are gone.
Fail(r) ==
    /\ result' = [r EXCEPT !.succeeded = FALSE]
    /\ pc' = "finalise"

-----------------------------------------------------------------------------
(* build_source and _prepare_parser *)

OpenSource ==
    /\ pc = "open"
    /\ pc' = "read"
    /\ UNCHANGED <<storeVars, inputVars, runId, stageVars, ended, stop, result,
                   faults>>

\* "An unreadable target is a *result*, not an exception": run() returns early.
OpenFails ==
    /\ pc = "open"
    /\ Spend
    /\ result' = [result EXCEPT !.succeeded = FALSE]
    /\ pc' = "done"
    /\ UNCHANGED <<storeVars, inputVars, runId, stageVars, ended, stop>>

-----------------------------------------------------------------------------
(* _stage_parse to _stage_dedup *)

\* Variant: the cap is off by one.
Recorded_offByOne(d) ==
    IF opts.dryRun THEN [d EXCEPT !.total = @ + 1]
    ELSE IF d.written > DlqMax
         THEN [d EXCEPT !.total = @ + 1, !.dropped = @ + 1]
         ELSE [d EXCEPT !.total = @ + 1, !.written = @ + 1]

\* DeadLetterQueue._write, which is disabled in a dry run
Recorded(d) ==
    IF opts.dryRun THEN [d EXCEPT !.total = @ + 1]
    ELSE IF d.written >= DlqMax
         THEN [d EXCEPT !.total = @ + 1, !.dropped = @ + 1]
         ELSE [d EXCEPT !.total = @ + 1, !.written = @ + 1]

\* SeenKeys.add; which key a full set forgets is left open.
Remember(k) ==
    IF Cardinality(seen) < MaxTracked
    THEN seen' = seen \union {k}
    ELSE \E old \in seen : seen' = (seen \ {old}) \union {k}

\* The result after a line was read and, if well-formed, parsed and validated.
Counted(l) ==
    CASE line[l] = "unparseable" -> [result EXCEPT !.lines = @ + 1]
      [] line[l] = "invalid" ->
             [result EXCEPT !.lines = @ + 1, !.parsed = @ + 1]
      [] OTHER ->
             [result EXCEPT !.lines = @ + 1, !.parsed = @ + 1, !.valid = @ + 1]

Reject(l) ==
    /\ line[l] \in {"unparseable", "invalid"}
    /\ result' = [Counted(l) EXCEPT !.rejected = @ + 1]
    /\ dlq' = Recorded(dlq)
    /\ pc' = "check"
    /\ UNCHANGED <<storeVars, held, seen, duplicates>>

Duplicate(l) ==
    /\ line[l] \in seen
    /\ result' = Counted(l)
    /\ duplicates' = duplicates + 1
    /\ dlq' = IF opts.keepDuplicates THEN Recorded(dlq) ELSE dlq
    /\ pc' = "check"
    /\ UNCHANGED <<storeVars, held, seen>>

\* A record that reaches the store; a full batch is written at once.
Unique(l) ==
    /\ line[l] \in Keys \ seen
    /\ result' = Counted(l)
    /\ Remember(line[l])
    /\ held' = IF opts.dryRun THEN {} ELSE held \union {l}
    /\ IF Cardinality(held') = BatchSize
       THEN pc' = "write" /\ WriteBatch(held', runId)
       ELSE pc' = "check" /\ UNCHANGED storeVars
    /\ UNCHANGED <<duplicates, dlq>>

\* The loop of _stage_parse goes round with another record.
MayRead == pc = "read" /\ ~ended /\ at < N /\ ~stop

ReadLine ==
    /\ MayRead
    /\ result.parsed < opts.limit
    /\ at' = at + 1
    /\ Reject(at') \/ Duplicate(at') \/ Unique(at')
    /\ UNCHANGED <<inputVars, runId, ended, stop, checkedAt, faults>>

\* The line that finds the limit reached is counted, and the loop ends.
LimitReached ==
    /\ MayRead
    /\ result.parsed >= opts.limit
    /\ result' = [result EXCEPT !.lines = @ + 1]
    /\ ended' = TRUE
    /\ UNCHANGED <<storeVars, inputVars, pc, runId, stageVars, stop, faults>>

\* Nothing more to read, or a shutdown was requested.
SourceEnds ==
    /\ pc = "read"
    /\ ~ended
    /\ at = N \/ stop
    /\ ended' = TRUE
    /\ UNCHANGED <<storeVars, inputVars, pc, runId, stageVars, stop, result,
                   faults>>

\* Variant: a rate at the threshold is too much.
TooManyRejected_atLimit == result.rejected * Den >= Num * (result.parsed + result.rejected)

\* result.rejection_rate > threshold
TooManyRejected == result.rejected * Den > Num * (result.parsed + result.rejected)

\* Variant: the sample is one line longer.
CheckRate_offByOne ==
    /\ pc = "check"
    /\ LET due == result.lines - checkedAt > CheckEvery IN
         /\ checkedAt' = IF due THEN result.lines ELSE checkedAt
         /\ IF due /\ TooManyRejected
            THEN Fail(result) /\ held' = {}
            ELSE pc' = "read" /\ UNCHANGED <<result, held>>
    /\ UNCHANGED <<storeVars, inputVars, runId, at, ended, stop, seen,
                   duplicates, dlq, faults>>

\* "Abort a hopeless run, but only after a meaningful sample."
CheckRate ==
    /\ pc = "check"
    /\ LET due == result.lines - checkedAt >= CheckEvery IN
         /\ checkedAt' = IF due THEN result.lines ELSE checkedAt
         /\ IF due /\ TooManyRejected
            THEN Fail(result) /\ held' = {}
            ELSE pc' = "read" /\ UNCHANGED <<result, held>>
    /\ UNCHANGED <<storeVars, inputVars, runId, at, ended, stop, seen,
                   duplicates, dlq, faults>>

Signal ==
    /\ pc \notin {"open", "done", "down"}
    /\ ~stop
    /\ Spend
    /\ stop' = TRUE
    /\ UNCHANGED <<storeVars, inputVars, pc, runId, stageVars, ended, result>>

-----------------------------------------------------------------------------
(* store.write and the end of _execute *)

\* batched() hands over the last, partial batch.
WriteRest ==
    /\ pc = "read"
    /\ ended
    /\ held # {}
    /\ WriteBatch(held, runId)
    /\ pc' = "write"
    /\ UNCHANGED <<inputVars, runId, stageVars, ended, stop, result, faults>>

WriteSome ==
    /\ pc = "write"
    /\ \/ \E p \in pending : AppendPartition(p)
       \/ WriteReturns
    /\ UNCHANGED <<inputVars, pc, runId, stageVars, ended, stop, result, faults>>

WriteEnds ==
    /\ pc = "write"
    /\ op \in {"ready", "raised"}
    /\ held' = {}
    /\ IF op = "raised" THEN Fail(result)
       ELSE pc' = (IF ended THEN "read" ELSE "check") /\ UNCHANGED result
    /\ UNCHANGED <<storeVars, inputVars, runId, at, ended, stop, seen,
                   duplicates, dlq, checkedAt, faults>>

\* Variant: the last, partial batch is forgotten.
Complete_early ==
    /\ pc = "read"
    /\ ended
    /\ result' = [result EXCEPT
                     !.duplicate = duplicates,
                     !.written = IF opts.dryRun THEN @ ELSE recordsWritten]
    /\ pc' = "finalise"
    /\ UNCHANGED <<storeVars, inputVars, runId, stageVars, ended, stop, faults>>

\* Variant: records_duplicate is not copied.
Complete_noDuplicates ==
    /\ pc = "read"
    /\ ended
    /\ held = {}
    /\ result' = [result EXCEPT
                     !.written = IF opts.dryRun THEN @ ELSE recordsWritten]
    /\ pc' = "finalise"
    /\ UNCHANGED <<storeVars, inputVars, runId, stageVars, ended, stop, faults>>

\* _execute returns: records_written and records_duplicate are copied.
Complete ==
    /\ pc = "read"
    /\ ended
    /\ held = {}
    /\ result' = [result EXCEPT
                     !.duplicate = duplicates,
                     !.written = IF opts.dryRun THEN @ ELSE recordsWritten]
    /\ pc' = "finalise"
    /\ UNCHANGED <<storeVars, inputVars, runId, stageVars, ended, stop, faults>>

-----------------------------------------------------------------------------
(* _finalise *)

FinaliseDryRun ==
    /\ pc = "finalise"
    /\ opts.dryRun
    /\ pc' = "done"
    /\ UNCHANGED <<storeVars, inputVars, runId, stageVars, ended, stop, result,
                   faults>>

FinaliseFlush ==
    /\ pc = "finalise"
    /\ ~opts.dryRun
    /\ FlushStart
    /\ pc' = "flush"
    /\ UNCHANGED <<inputVars, runId, stageVars, ended, stop, result, faults>>

PublishSome ==
    /\ pc = "flush"
    /\ \/ \E path \in closing : PublishStep(path)
       \/ FlushReturns
    /\ UNCHANGED <<inputVars, pc, runId, stageVars, ended, stop, result, faults>>

FlushEnds ==
    /\ pc = "flush"
    /\ op \in {"ready", "raised"}
    /\ result' = IF op = "ready" THEN [result EXCEPT !.written = recordsWritten]
                 ELSE [result EXCEPT !.succeeded = FALSE]
    /\ pc' = "done"
    /\ UNCHANGED <<storeVars, inputVars, runId, stageVars, ended, stop, faults>>

-----------------------------------------------------------------------------
(* Failures, crashes and runs over the same source again *)

\* source.read() raises.
SourceFails ==
    /\ pc = "read"
    /\ ~ended
    /\ Spend
    /\ Fail(result)
    /\ held' = {}
    /\ UNCHANGED <<storeVars, inputVars, runId, at, ended, stop, seen,
                   duplicates, dlq, checkedAt>>

\* The dead-letter file cannot be written: the rejection is counted by the
\* queue, not by the result.
DlqFails ==
    /\ MayRead
    /\ result.parsed < opts.limit
    /\ line[at + 1] \in {"unparseable", "invalid"}
    /\ ~opts.dryRun /\ dlq.written < DlqMax
    /\ Spend
    /\ dlq' = [dlq EXCEPT !.total = @ + 1]
    /\ Fail(Counted(at + 1))
    /\ held' = {}
    /\ UNCHANGED <<storeVars, inputVars, runId, at, ended, stop, seen,
                   duplicates, checkedAt>>

StoreFault ==
    /\ Spend
    /\ \/ pc = "write" /\ \E p \in pending : AppendFails(p)
       \/ pc = "flush" /\ \E path \in closing : PublishFails(path)
    /\ UNCHANGED <<inputVars, pc, runId, stageVars, ended, stop, result>>

Crash ==
    /\ pc \notin {"done", "down"}
    /\ Spend
    /\ StoreCrash
    /\ pc' = "down"
    /\ UNCHANGED <<inputVars, runId, stageVars, ended, stop, result>>

\* The job is submitted again, or the CLI is called again: new options, hence
\* a new run id, a new store and new stages.
Rerun ==
    /\ pc \in {"done", "down"}
    /\ runId < MaxRuns
    /\ runId' = runId + 1
    /\ StoreCrash
    /\ pc' = "open"
    /\ at' = 0
    /\ ended' = FALSE
    /\ stop' = FALSE
    /\ held' = {}
    /\ seen' = {}
    /\ duplicates' = 0
    /\ result' = NoResult
    /\ dlq' = EmptyDlq
    /\ checkedAt' = 0
    /\ UNCHANGED <<inputVars, faults>>

-----------------------------------------------------------------------------
\* What the run does by itself.
Progress ==
    \/ OpenSource \/ ReadLine \/ LimitReached \/ SourceEnds \/ CheckRate
    \/ WriteRest \/ WriteSome \/ WriteEnds \/ Complete
    \/ FinaliseDryRun \/ FinaliseFlush \/ PublishSome \/ FlushEnds

Next ==
    \/ Progress
    \/ Signal
    \/ OpenFails
    \/ SourceFails
    \/ DlqFails
    \/ StoreFault
    \/ Crash
    \/ Rerun

Spec == Init /\ [][Next]_vars

-----------------------------------------------------------------------------
(* Properties *)

Visible(r) == {row \in published : row[1] = r}
Stored == pc = "done" /\ result.succeeded /\ ~opts.dryRun

\* Every line a successful run has taken, up to its limit or to the shutdown
\* request, is rejected, or a record with its key is visible to readers under
\* the run's id: full batches, the partial last one and every partition file.
NothingDropped ==
    Stored => \A l \in 1..at :
        \/ line[l] \in {"unparseable", "invalid"}
        \/ \E row \in Visible(runId) : line[row[2]] = line[l]

\* The result that is printed, returned and persisted adds up to the lines
\* read (plus the one that found the limit reached), and records_written is
\* the number of rows readers can see.
CountsAddUp ==
    Stored =>
        /\ at = result.rejected + result.duplicate + result.written
        /\ result.lines \in {at, at + 1}
        /\ result.written = Cardinality(Visible(runId))

\* Until something fails, every rejection is in the dead-letter file or
\* counted as dropped at its cap.
DlqAccountsForAll ==
    result.succeeded =>
        /\ dlq.total = result.rejected
                       + (IF opts.keepDuplicates THEN duplicates ELSE 0)
        /\ ~opts.dryRun => dlq.total = dlq.written + dlq.dropped
        /\ dlq.dropped > 0 => dlq.written = DlqMax

\* "Abort a hopeless run, but only after a meaningful sample": a run whose
\* whole first sample could not be parsed does not end as a success, unless the
\* threshold is 1, which no rate exceeds.
HopelessRunAborts ==
    Num < Den /\ pc = "done" /\ result.succeeded /\ at >= CheckEvery =>
        \E l \in 1..CheckEvery : line[l] # "unparseable"

\* Whether more than the threshold was refused of the first n lines.  A record
\* that a later stage refuses is among the parsed and the rejected.
OverThreshold(n) ==
    LET unparsed == {l \in 1..n : line[l] = "unparseable"}
        refused == {l \in 1..n : line[l] \in {"unparseable", "invalid"}}
    IN  Cardinality(refused) * Den > Num * (n - Cardinality(unparsed) + Cardinality(refused))

\* The check neither misses a sample nor fires too early: no run succeeds when
\* the lines up to the end of one of its samples exceed the threshold, and a run
\* that nothing else made fail was stopped at the end of such a sample, so that
\* neither a source shorter than a sample nor a rate at the threshold aborts it.
AbortsAtSample ==
    pc = "done" =>
        /\ result.succeeded => \A k \in 1..(at \div CheckEvery) : ~ OverThreshold(k * CheckEvery)
        /\ ~ result.succeeded /\ faults = 0 => at % CheckEvery = 0 /\ OverThreshold(at)

-----------------------------------------------------------------------------
(* The inductive invariants behind these properties *)

\* A run that goes well: no exception is on its way to the result.
Healthy ==
    /\ result.succeeded
    /\ pc # "down"
    /\ pc \in {"write", "flush"} => op # "raised" /\ ~errors

\* What each location says about the store and the stages.
ControlInv ==
    /\ pc = "write" => op \in {"writing", "ready", "raised"}
    /\ pc = "flush" => op \in {"flushing", "ready", "raised"}
    /\ pc \notin {"write", "flush"} => op \in {"ready", "raised"}
    /\ op = "writing" => batch = held /\ run = runId
    /\ pc \in {"finalise", "flush", "done"} => held = {}
    /\ opts.dryRun => held = {} /\ pc \notin {"write", "flush"}
    /\ pc = "flush" => closing = writers
    /\ pc = "flush" /\ op # "flushing" => writers = {}
    /\ pc = "flush" /\ op = "ready" => ~errors
    /\ pc = "done" /\ result.succeeded => writers = {}
    /\ pc \notin {"flush", "done"} => ~errors
    /\ pc = "check" => ~ended

\* Run ids are new, so no open writer's file exists already.
FreshInv ==
    /\ swapping = {}
    /\ closing \subseteq writers
    /\ \A row \in temp \union published : row[1] <= runId
    /\ \A path \in writers : path[1] = runId /\ RowsAt(published, path) = {}
    /\ pc \notin {"flush", "done", "down"} => Visible(runId) = {}
    /\ pc = "open" => /\ \A row \in temp : row[1] # runId
                      /\ at = 0 /\ held = {} /\ seen = {} /\ duplicates = 0
                      /\ result = NoResult /\ recordsWritten = 0 /\ dlq = EmptyDlq
                      /\ checkedAt = 0 /\ ~ended /\ op = "ready" /\ writers = {}
    /\ opts.dryRun => writers = {} /\ \A row \in temp \union published : FALSE

\* The lines of this run that have reached a file, and all those it keeps.
Filed == {m \in 1..N : <<runId, m>> \in temp \union published}
Kept == held \union Filed

\* Where the lines of a healthy run are: an open writer has every temporary row,
\* and every line of the batch being written is in a file or still to come.
StageInv ==
    Healthy =>
        /\ \A row \in temp : row[1] = runId => PathOf(row) \in writers
        /\ pc = "write" /\ op = "writing" =>
               \A m \in held : PartitionOf[m] \in pending \/ m \in Filed
        /\ pc = "write" /\ op = "ready" => held \subseteq Filed

\* Each line read was rejected, was a duplicate, or is kept, once; and a key that
\* is remembered is the key of a line that is kept.
KeptInv ==
    Healthy /\ ~opts.dryRun =>
        /\ Kept \subseteq 1..at
        /\ at = result.rejected + duplicates + Cardinality(Kept)
        /\ Cardinality(Kept) = recordsWritten
               + (IF pc = "write" /\ op = "ready" THEN 0 ELSE Cardinality(held))
        /\ \A k \in seen : \E m \in Kept : line[m] = k
        /\ \A l \in 1..at : \/ line[l] \in {"unparseable", "invalid"}
                            \/ \E m \in Kept : line[m] = line[l]

\* What the result says of it, before and after it is copied.
ResultInv ==
    result.succeeded /\ pc # "down" =>
        /\ result.lines = at \/ (ended /\ result.lines = at + 1)
        /\ pc \in {"finalise", "flush", "done"} => result.duplicate = duplicates
        /\ pc = "done" /\ ~opts.dryRun => result.written = recordsWritten

\* The dead-letter queue, which never exceeds its cap.
DlqInv ==
    /\ DlqAccountsForAll
    /\ dlq.written <= DlqMax
    /\ dlq.dropped > 0 => dlq.written = DlqMax

\* A run that has met unparseable lines only has rejected them all, and does not
\* get past the check at the end of the first sample.
Hopeless ==
    /\ result.rejected = at /\ result.parsed = 0 /\ checkedAt = 0
    /\ held = {} /\ pc # "write"
    /\ ended \/ result.lines = at
    /\ at <= CheckEvery
    /\ at = CheckEvery => pc = "check"

HopelessInv ==
    /\ Num < Den
    /\ result.succeeded /\ pc # "down"
    /\ \A l \in 1..CheckEvery : line[l] = "unparseable"
    => Hopeless

IInv ==
    /\ TypeOK
    /\ ControlInv
    /\ FreshInv
    /\ StageInv
    /\ KeptInv
    /\ ResultInv
=============================================================================
