------------------------- MODULE PipelineRunProofs -------------------------
(***************************************************************************)
(* Machine-checked proofs about PipelineRun: type correctness, the         *)
(* inductive invariant IInv, that a successful run drops no line and that  *)
(* its counters add up, and the invariants of the dead-letter queue and of *)
(* the rejection check.                                                    *)
(***************************************************************************)
EXTENDS PipelineRun, FiniteSetTheorems, TLAPS

\* A set of lines is finite, so its cardinality is a number.
LEMMA LineSetSize ==
    ASSUME NEW S \in SUBSET (1..N)
    PROVE  IsFiniteSet(S) /\ Cardinality(S) \in Nat
<1>1. IsFiniteSet(1..N)
  BY FS_Interval, PipelineAssumption
<1>2. IsFiniteSet(S)
  BY <1>1, FS_Subset
<1> QED
  BY <1>2, FS_CardinalityType

-----------------------------------------------------------------------------
(* Type correctness *)

\* The initial state is well typed.
LEMMA InitTypes == Init => TypeOK
<1> SUFFICES ASSUME Init PROVE TypeOK
  OBVIOUS
<1> USE PipelineAssumption
<1>1. StoreTypeOK
  BY DEF Init, StoreInit, NewStore, StoreTypeOK, Ops
<1>2. result \in PipelineResult
  BY DEF Init, NoResult, PipelineResult
<1>3. dlq \in [total : Nat, written : Nat, dropped : Nat]
  BY DEF Init, EmptyDlq
<1>4. runId \in Runs /\ at \in 0..N /\ faults \in 0..MaxFaults
  BY DEF Init
<1> QED
  BY <1>1, <1>2, <1>3, <1>4 DEF Init, TypeOK, Locations

\* Each step of the store that the pipeline takes keeps the store well typed.
LEMMA StoreStepTypes ==
    ASSUME StoreTypeOK, op = "writing" => run \in Runs,
           \/ \E p \in pending : AppendPartition(p)
           \/ \E p \in pending : AppendFails(p)
           \/ WriteReturns
           \/ FlushStart
           \/ \E path \in closing : PublishStep(path)
           \/ \E path \in closing : PublishFails(path)
           \/ FlushReturns
           \/ StoreCrash
    PROVE  StoreTypeOK'
<1> USE DEF StoreTypeOK, Ops
<1>0. Records = 1..N
  BY PipelineAssumption
<1>1. ASSUME NEW p \in pending, AppendPartition(p) PROVE StoreTypeOK'
  <2>1. <<run, p>> \in Paths
    BY <1>1 DEF Paths, AppendPartition
  <2>2. {run} \X Bucket(batch, p) \in SUBSET Rows
    BY <1>1 DEF Rows, Bucket, AppendPartition
  <2> QED
    BY <1>1, <2>1, <2>2 DEF AppendPartition, Opened, RowsAt
<1>2. ASSUME NEW p \in pending, AppendFails(p) PROVE StoreTypeOK'
  <2>1. <<run, p>> \in Paths
    BY <1>2 DEF Paths, AppendFails
  <2> QED
    BY <1>2, <2>1 DEF AppendFails, Opened, RowsAt
<1>3. CASE WriteReturns
  <2>1. Cardinality(batch) \in Nat
    BY <1>0, LineSetSize
  <2> QED
    BY <1>3, <2>1 DEF WriteReturns
<1>4. CASE FlushStart
  BY <1>4 DEF FlushStart
<1>5. ASSUME NEW path \in closing, PublishStep(path) PROVE StoreTypeOK'
  BY <1>5 DEF PublishStep, UnlinkFinal, PublishFile, Visit, Visited, RowsAt
<1>6. ASSUME NEW path \in closing, PublishFails(path) PROVE StoreTypeOK'
  BY <1>6 DEF PublishFails, Visit, Visited
<1>7. CASE FlushReturns
  BY <1>7 DEF FlushReturns
<1>8. CASE StoreCrash
  BY <1>8 DEF StoreCrash
<1> QED
  BY <1>1, <1>2, <1>3, <1>4, <1>5, <1>6, <1>7, <1>8

\* A step that leaves the store alone leaves it well typed.
LEMMA StoreSameTypes ==
    ASSUME StoreTypeOK, UNCHANGED storeVars
    PROVE  StoreTypeOK'
BY DEF StoreTypeOK, storeVars

\* The batch handed to the store is a set of records of the current run.
LEMMA WriteBatchTypes ==
    ASSUME StoreTypeOK, NEW S \in SUBSET Records, NEW r \in Runs, WriteBatch(S, r)
    PROVE  StoreTypeOK'
<1>1. PartitionsOf(S) \in SUBSET Partitions
  BY StoreAssumption DEF PartitionsOf
<1> QED
  BY <1>1 DEF WriteBatch, StoreTypeOK, Ops

\* The fields of the result that Counted changes, and by how much.
LEMMA CountedFields ==
    ASSUME TypeOK, NEW l \in 1..N
    PROVE  /\ Counted(l) \in PipelineResult
           /\ Counted(l).lines = result.lines + 1
           /\ Counted(l).rejected = result.rejected
           /\ Counted(l).duplicate = result.duplicate
           /\ Counted(l).written = result.written
           /\ Counted(l).succeeded = result.succeeded
           /\ line[l] = "unparseable" => Counted(l).parsed = result.parsed
<1>0. result \in PipelineResult
  BY DEF TypeOK
<1> USE DEF PipelineResult
<1>n. /\ result.lines + 1 \in Nat
      /\ result.parsed + 1 \in Nat
      /\ result.valid + 1 \in Nat
  BY <1>0
<1>1. CASE line[l] = "unparseable"
  <2>1. Counted(l) = [result EXCEPT !.lines = @ + 1]
    BY <1>1 DEF Counted
  <2>2. Counted(l) \in PipelineResult
    BY <1>0, <1>n, <2>1
  <2> QED
    BY <1>0, <2>1, <2>2
<1>2. CASE line[l] = "invalid"
  <2>1. Counted(l) = [result EXCEPT !.lines = @ + 1, !.parsed = @ + 1]
    BY <1>2 DEF Counted
  <2>2. Counted(l) \in PipelineResult
    BY <1>0, <1>n, <2>1
  <2>3. /\ Counted(l).lines = result.lines + 1
        /\ Counted(l).rejected = result.rejected
        /\ Counted(l).duplicate = result.duplicate
        /\ Counted(l).written = result.written
        /\ Counted(l).succeeded = result.succeeded
    BY <1>0, <2>1
  <2> QED
    BY <1>2, <2>2, <2>3
<1>3. CASE line[l] \notin {"unparseable", "invalid"}
  <2>1. Counted(l) = [result EXCEPT !.lines = @ + 1, !.parsed = @ + 1,
                                    !.valid = @ + 1]
    BY <1>3 DEF Counted
  <2>2. Counted(l) \in PipelineResult
    BY <1>0, <1>n, <2>1
  <2>3. /\ Counted(l).lines = result.lines + 1
        /\ Counted(l).rejected = result.rejected
        /\ Counted(l).duplicate = result.duplicate
        /\ Counted(l).written = result.written
        /\ Counted(l).succeeded = result.succeeded
    BY <1>0, <2>1
  <2> QED
    BY <1>3, <2>2, <2>3
<1> QED
  BY <1>1, <1>2, <1>3

\* What the dead-letter queue counts for one rejection.
LEMMA RecordedFields ==
    ASSUME NEW d \in [total : Nat, written : Nat, dropped : Nat]
    PROVE  /\ Recorded(d) \in [total : Nat, written : Nat, dropped : Nat]
           /\ Recorded(d).total = d.total + 1
           /\ opts.dryRun => Recorded(d).written = d.written
                             /\ Recorded(d).dropped = d.dropped
           /\ ~opts.dryRun /\ d.written >= DlqMax =>
                  Recorded(d).written = d.written
                  /\ Recorded(d).dropped = d.dropped + 1
           /\ ~opts.dryRun /\ ~(d.written >= DlqMax) =>
                  Recorded(d).written = d.written + 1
                  /\ Recorded(d).dropped = d.dropped
<1> DEFINE Dlq == [total : Nat, written : Nat, dropped : Nat]
<1>n. d.total + 1 \in Nat /\ d.written + 1 \in Nat /\ d.dropped + 1 \in Nat
  OBVIOUS
<1>1. CASE opts.dryRun
  <2>1. Recorded(d) = [d EXCEPT !.total = @ + 1]
    BY <1>1 DEF Recorded
  <2>2. Recorded(d) \in Dlq
    BY <1>n, <2>1
  <2>3. /\ Recorded(d).total = d.total + 1
        /\ Recorded(d).written = d.written
        /\ Recorded(d).dropped = d.dropped
    BY <2>1
  <2> QED
    BY <1>1, <2>2, <2>3
<1>2. CASE ~opts.dryRun /\ d.written >= DlqMax
  <2>1. Recorded(d) = [d EXCEPT !.total = @ + 1, !.dropped = @ + 1]
    BY <1>2 DEF Recorded
  <2>2. Recorded(d) \in Dlq
    BY <1>n, <2>1
  <2>3. /\ Recorded(d).total = d.total + 1
        /\ Recorded(d).written = d.written
        /\ Recorded(d).dropped = d.dropped + 1
    BY <2>1
  <2> QED
    BY <1>2, <2>2, <2>3
<1>3. CASE ~opts.dryRun /\ ~(d.written >= DlqMax)
  <2>1. Recorded(d) = [d EXCEPT !.total = @ + 1, !.written = @ + 1]
    BY <1>3 DEF Recorded
  <2>2. Recorded(d) \in Dlq
    BY <1>n, <2>1
  <2>3. /\ Recorded(d).total = d.total + 1
        /\ Recorded(d).written = d.written + 1
        /\ Recorded(d).dropped = d.dropped
    BY <2>1
  <2> QED
    BY <1>3, <2>2, <2>3
<1> QED
  BY <1>1, <1>2, <1>3

\* A failure of the dead-letter file is the failure of the run.
LEMMA DlqFailsFacts ==
    ASSUME TypeOK, DlqFails
    PROVE  result' \in PipelineResult /\ ~result'.succeeded
<1>1. at \in 0..N
  BY DEF TypeOK
<1>2. at < N
  BY DEF DlqFails, MayRead
<1>3. N \in Nat
  BY PipelineAssumption
<1>4. at + 1 \in 1..N
  BY <1>1, <1>2, <1>3
<1>5. Counted(at + 1) \in PipelineResult
  BY <1>4, CountedFields
<1>6. result' = [Counted(at + 1) EXCEPT !.succeeded = FALSE]
  BY DEF DlqFails, Fail
<1> QED
  BY <1>5, <1>6 DEF PipelineResult

\* A line that goes through the stages keeps the types.
LEMMA ReadLineTypes ==
    ASSUME TypeOK, ReadLine
    PROVE  TypeOK'
<1> USE PipelineAssumption
<1>t. /\ at \in 0..N /\ at < N /\ at' = at + 1 /\ at' \in 1..N
      /\ held \in SUBSET (1..N) /\ seen \in SUBSET Keys /\ duplicates \in Nat
      /\ StoreTypeOK /\ runId \in Runs
      /\ dlq \in [total : Nat, written : Nat, dropped : Nat]
  BY DEF TypeOK, ReadLine, MayRead
<1>c. /\ Counted(at') \in PipelineResult
      /\ Counted(at').rejected \in Nat /\ Counted(at').rejected + 1 \in Nat
  BY <1>t, CountedFields DEF PipelineResult
<1>r. Recorded(dlq) \in [total : Nat, written : Nat, dropped : Nat]
  BY <1>t, RecordedFields
<1>1. CASE Reject(at')
  <2>1. result' \in PipelineResult
    BY <1>1, <1>c DEF Reject, PipelineResult
  <2>2. StoreTypeOK'
    BY <1>1, <1>t, StoreSameTypes DEF Reject
  <2>3. dlq' = Recorded(dlq) /\ pc' = "check" /\ UNCHANGED <<held, seen, duplicates>>
    BY <1>1 DEF Reject
  <2>4. UNCHANGED <<inputVars, runId, ended, stop, checkedAt, faults>>
    BY DEF ReadLine
  <2> QED
    BY <1>t, <1>r, <2>1, <2>2, <2>3, <2>4 DEF ReadLine, TypeOK, Locations, inputVars
<1>2. CASE Duplicate(at')
  <2>1. StoreTypeOK'
    BY <1>2, <1>t, StoreSameTypes DEF Duplicate
  <2>2. dlq' \in [total : Nat, written : Nat, dropped : Nat]
    BY <1>2, <1>t, <1>r DEF Duplicate
  <2>3. duplicates' \in Nat
    BY <1>2, <1>t DEF Duplicate
  <2> QED
    BY <1>2, <1>t, <1>c, <2>1, <2>2, <2>3 DEF Duplicate, ReadLine, TypeOK, Locations, inputVars
<1>3. CASE Unique(at')
  <2>1. held' \in SUBSET (1..N)
    BY <1>3, <1>t DEF Unique
  <2>2. StoreTypeOK' /\ pc' \in {"write", "check"}
    BY <1>3, <1>t, <2>1, StoreSameTypes, WriteBatchTypes DEF Unique
  <2>3. seen' \in SUBSET Keys
    BY <1>3, <1>t DEF Unique, Remember
  <2>4. /\ result' \in PipelineResult /\ duplicates' \in Nat
        /\ dlq' \in [total : Nat, written : Nat, dropped : Nat]
    BY <1>3, <1>t, <1>c DEF Unique
  <2>5. UNCHANGED <<inputVars, runId, ended, stop, checkedAt, faults>>
    BY DEF ReadLine
  <2> QED
    <3>1. pc' \in Locations /\ at' \in 0..N
      BY <1>t, <2>2 DEF Locations
    <3>2. /\ line' \in [1..N -> Lines] /\ opts' \in Options /\ runId' \in Runs
          /\ ended' \in BOOLEAN /\ stop' \in BOOLEAN /\ checkedAt' \in Nat
          /\ faults' \in 0..MaxFaults
      BY <2>5 DEF TypeOK, inputVars
    <3> QED
      BY <2>1, <2>2, <2>3, <2>4, <3>1, <3>2 DEF TypeOK
<1> QED
  BY <1>1, <1>2, <1>3 DEF ReadLine

\* Every step of the specification preserves the types.
LEMMA NextTypes == TypeOK /\ ControlInv /\ [Next]_vars => TypeOK'
<1> SUFFICES ASSUME TypeOK, ControlInv, [Next]_vars PROVE TypeOK'
  OBVIOUS
<1> USE PipelineAssumption DEF TypeOK, Locations
<1>s. StoreTypeOK /\ (op = "writing" => run \in Runs)
  BY DEF ControlInv
<1>u. UNCHANGED storeVars => StoreTypeOK'
  BY <1>s, StoreSameTypes
<1>r. result \in PipelineResult /\ [result EXCEPT !.succeeded = FALSE] \in PipelineResult
  BY DEF PipelineResult
<1>sp. Spend => faults' \in 0..MaxFaults
  BY DEF Spend
<1>1. CASE OpenSource \/ OpenFails \/ Signal
  BY <1>1, <1>u, <1>r, <1>sp DEF OpenSource, OpenFails, Signal, inputVars, stageVars
<1>2. CASE ReadLine
  BY <1>2, ReadLineTypes
<1>3. CASE LimitReached \/ SourceEnds
  <2>n. result.lines + 1 \in Nat
    <3>1. result \in PipelineResult
      OBVIOUS
    <3>2. result.lines \in Nat
      BY <3>1 DEF PipelineResult
    <3> QED
      BY <3>2
  <2>1. [result EXCEPT !.lines = @ + 1] \in PipelineResult
    BY <1>r, <2>n DEF PipelineResult
  <2> QED
    BY <1>3, <1>u, <1>r, <2>1 DEF LimitReached, SourceEnds, inputVars, stageVars
<1>4. CASE CheckRate
  <2>1. result.lines \in Nat
    BY <1>r DEF PipelineResult
  <2>2. checkedAt' \in Nat /\ pc' \in Locations /\ held' \in SUBSET (1..N)
    BY <1>4, <2>1 DEF CheckRate, Fail
  <2>3. result' \in PipelineResult
    BY <1>4, <1>r DEF CheckRate, Fail
  <2> QED
    BY <1>4, <1>u, <2>2, <2>3 DEF CheckRate, inputVars
<1>5. CASE WriteRest
  <2>1. StoreTypeOK'
    BY <1>5, <1>s, WriteBatchTypes DEF WriteRest
  <2> QED
    BY <1>5, <2>1 DEF WriteRest, inputVars, stageVars
<1>6. CASE WriteSome
  <2>1. StoreTypeOK'
    BY <1>6, <1>s, StoreStepTypes DEF WriteSome
  <2> QED
    BY <1>6, <2>1 DEF WriteSome, inputVars, stageVars
<1>7. CASE WriteEnds
  <2>1. result' \in PipelineResult /\ pc' \in Locations
    BY <1>7, <1>r DEF WriteEnds, Fail
  <2> QED
    BY <1>7, <1>u, <2>1 DEF WriteEnds, inputVars
<1>8. CASE Complete
  <2>1. recordsWritten \in Nat /\ duplicates \in Nat
    BY <1>s DEF StoreTypeOK
  <2>2. result' \in PipelineResult
    BY <1>8, <1>r, <2>1 DEF Complete, PipelineResult
  <2> QED
    BY <1>8, <1>u, <2>2 DEF Complete, inputVars, stageVars
<1>9. CASE FinaliseDryRun
  BY <1>9, <1>u DEF FinaliseDryRun, inputVars, stageVars
<1>10. CASE FinaliseFlush
  <2>1. StoreTypeOK'
    BY <1>10, <1>s, StoreStepTypes DEF FinaliseFlush
  <2> QED
    BY <1>10, <2>1 DEF FinaliseFlush, inputVars, stageVars
<1>11. CASE PublishSome
  <2>1. StoreTypeOK'
    BY <1>11, <1>s, StoreStepTypes DEF PublishSome
  <2> QED
    BY <1>11, <2>1 DEF PublishSome, inputVars, stageVars
<1>12. CASE FlushEnds
  <2>1. recordsWritten \in Nat
    BY <1>s DEF StoreTypeOK
  <2>2. [result EXCEPT !.written = recordsWritten] \in PipelineResult
    BY <1>r, <2>1 DEF PipelineResult
  <2> QED
    BY <1>12, <1>u, <1>r, <2>2 DEF FlushEnds, inputVars, stageVars
<1>13. CASE SourceFails
  BY <1>13, <1>u, <1>r, <1>sp DEF SourceFails, Fail, inputVars
<1>14. CASE DlqFails
  <2>3. result' \in PipelineResult
    BY <1>14, DlqFailsFacts
  <2>n. dlq.total + 1 \in Nat
    OBVIOUS
  <2>4. dlq' \in [total : Nat, written : Nat, dropped : Nat]
    BY <1>14, <2>n DEF DlqFails
  <2> QED
    BY <1>14, <1>u, <1>sp, <2>3, <2>4 DEF DlqFails, Fail, inputVars
<1>15. CASE StoreFault
  <2>1. StoreTypeOK'
    BY <1>15, <1>s, StoreStepTypes DEF StoreFault
  <2> QED
    BY <1>15, <1>sp, <2>1 DEF StoreFault, inputVars, stageVars
<1>16. CASE Crash
  <2>1. StoreTypeOK'
    BY <1>16, <1>s, StoreStepTypes DEF Crash
  <2> QED
    BY <1>16, <1>sp, <2>1 DEF Crash, inputVars, stageVars
<1>17. CASE Rerun
  <2>1. StoreTypeOK'
    BY <1>17, <1>s, StoreStepTypes DEF Rerun
  <2>2. runId' \in Runs /\ at' \in 0..N
    BY <1>17 DEF Rerun
  <2>3. result' \in PipelineResult
    BY <1>17 DEF Rerun, NoResult, PipelineResult
  <2>4. dlq' \in [total : Nat, written : Nat, dropped : Nat]
    BY <1>17 DEF Rerun, EmptyDlq
  <2> QED
    BY <1>17, <2>1, <2>2, <2>3, <2>4 DEF Rerun, inputVars
<1>18. CASE UNCHANGED vars
  BY <1>18, <1>u DEF vars
<1> QED
  BY <1>1, <1>2, <1>3, <1>4, <1>5, <1>6, <1>7, <1>8, <1>9, <1>10, <1>11, <1>12,
     <1>13, <1>14, <1>15, <1>16, <1>17, <1>18 DEF Next, Progress

-----------------------------------------------------------------------------
(* The inductive invariant *)

\* What a line that goes through the stages does, whatever becomes of it: the
\* files stay as they are, and a full batch is handed to the store.
LEMMA ReadFacts ==
    ASSUME TypeOK, ReadLine
    PROVE  /\ pc = "read" /\ ~ended /\ at < N /\ at' = at + 1 /\ at' \in 1..N
           /\ pc' \in {"check", "write"}
           /\ UNCHANGED <<inputVars, runId, ended, stop, checkedAt, faults>>
           /\ UNCHANGED <<writers, temp, published, closing, swapping, errors,
                          recordsWritten>>
           /\ result'.succeeded = result.succeeded
           /\ result'.lines = result.lines + 1
           /\ result'.duplicate = result.duplicate
           /\ result'.written = result.written
           /\ opts.dryRun => held' \in {{}, held} /\ pc' = "check"
           /\ pc' = "check" => UNCHANGED storeVars
           /\ pc' = "write" => /\ op' = "writing" /\ batch' = held' /\ run' = runId
                               /\ pending' = PartitionsOf(held')
<1> USE PipelineAssumption
<1>1. /\ pc = "read" /\ ~ended /\ at < N /\ at' = at + 1 /\ at' \in 1..N
      /\ UNCHANGED <<inputVars, runId, ended, stop, checkedAt, faults>>
  BY DEF ReadLine, MayRead, TypeOK
<1>c. /\ Counted(at') \in PipelineResult
      /\ Counted(at').succeeded = result.succeeded
      /\ Counted(at').lines = result.lines + 1
      /\ Counted(at').duplicate = result.duplicate
      /\ Counted(at').written = result.written
  BY <1>1, CountedFields
<1>2. CASE Reject(at')
  <2>1. /\ result' = [Counted(at') EXCEPT !.rejected = @ + 1]
        /\ pc' = "check" /\ UNCHANGED storeVars /\ held' = held
    BY <1>2 DEF Reject
  <2>2. /\ result'.succeeded = Counted(at').succeeded
        /\ result'.lines = Counted(at').lines
        /\ result'.duplicate = Counted(at').duplicate
        /\ result'.written = Counted(at').written
    BY <2>1, <1>c DEF PipelineResult
  <2> QED
    BY <1>1, <1>c, <2>1, <2>2 DEF storeVars
<1>3. CASE Duplicate(at')
  <2>1. /\ result' = Counted(at')
        /\ pc' = "check" /\ UNCHANGED storeVars /\ held' = held
    BY <1>3 DEF Duplicate
  <2> QED
    BY <1>1, <1>c, <2>1 DEF storeVars
<1>4. CASE Unique(at')
  <2>1. /\ result' = Counted(at')
        /\ held' = IF opts.dryRun THEN {} ELSE held \union {at'}
        /\ \/ pc' = "write" /\ Cardinality(held') = BatchSize /\ WriteBatch(held', runId)
           \/ pc' = "check" /\ UNCHANGED storeVars
    BY <1>4 DEF Unique
  <2>2. opts.dryRun => Cardinality(held') # BatchSize
    BY <2>1, FS_EmptySet
  <2>3. CASE pc' = "check" /\ UNCHANGED storeVars
    BY <1>1, <1>c, <2>1, <2>3 DEF storeVars
  <2>4. CASE pc' = "write" /\ Cardinality(held') = BatchSize /\ WriteBatch(held', runId)
    BY <1>1, <1>c, <2>1, <2>2, <2>4 DEF WriteBatch
  <2> QED
    BY <2>1, <2>3, <2>4
<1> QED
  BY <1>2, <1>3, <1>4 DEF ReadLine

\* Because run ids are new, flush never finds a file to unlink.
LEMMA NeverUnlinks ==
    ASSUME FreshInv, NEW path \in closing, PublishStep(path)
    PROVE  PublishFile(path)
BY DEF FreshInv, PublishStep, UnlinkFinal

\* Control states, the store's state and the stages stay in step.
LEMMA ControlStep == TypeOK /\ ControlInv /\ FreshInv /\ [Next]_vars => ControlInv'
<1> SUFFICES ASSUME TypeOK, ControlInv, FreshInv, [Next]_vars PROVE ControlInv'
  OBVIOUS
<1>r. result \in PipelineResult /\ [result EXCEPT !.succeeded = FALSE].succeeded = FALSE
  BY DEF TypeOK, PipelineResult
<1> USE DEF ControlInv
<1>1. CASE OpenSource
  BY <1>1 DEF OpenSource, storeVars, inputVars, stageVars
<1>2. CASE OpenFails
  <2>1. ~result'.succeeded
    BY <1>2, <1>r DEF OpenFails
  <2>2. held = {}
    BY <1>2 DEF OpenFails, FreshInv
  <2> QED
    BY <1>2, <2>1, <2>2 DEF OpenFails, storeVars, inputVars, stageVars
<1>3. CASE ReadLine
  <2>1. /\ pc = "read" /\ ~ended /\ pc' \in {"check", "write"}
        /\ UNCHANGED <<inputVars, runId, ended, stop, checkedAt, faults>>
        /\ UNCHANGED <<writers, closing, errors>>
        /\ opts.dryRun => held' \in {{}, held} /\ pc' = "check"
        /\ pc' = "check" => UNCHANGED storeVars
        /\ pc' = "write" => op' = "writing" /\ batch' = held' /\ run' = runId
    BY <1>3, ReadFacts
  <2> QED
    BY <2>1 DEF storeVars, inputVars
<1>4. CASE LimitReached \/ SourceEnds
  BY <1>4 DEF LimitReached, SourceEnds, MayRead, storeVars, inputVars, stageVars
<1>5. CASE CheckRate
  BY <1>5 DEF CheckRate, Fail, storeVars, inputVars
<1>6. CASE Signal
  BY <1>6 DEF Signal, storeVars, inputVars, stageVars
<1>7. CASE WriteRest
  BY <1>7 DEF WriteRest, WriteBatch, inputVars, stageVars
<1>8. CASE WriteSome
  <2>1. ASSUME NEW p \in pending, AppendPartition(p) PROVE ControlInv'
    BY <1>8, <2>1 DEF WriteSome, AppendPartition, inputVars, stageVars
  <2>2. CASE WriteReturns
    BY <1>8, <2>2 DEF WriteSome, WriteReturns, inputVars, stageVars
  <2> QED
    BY <1>8, <2>1, <2>2 DEF WriteSome
<1>9. CASE WriteEnds
  BY <1>9 DEF WriteEnds, Fail, storeVars, inputVars
<1>10. CASE Complete
  BY <1>10 DEF Complete, storeVars, inputVars, stageVars
<1>11. CASE FinaliseDryRun
  BY <1>11 DEF FinaliseDryRun, FreshInv, storeVars, inputVars, stageVars
<1>12. CASE FinaliseFlush
  BY <1>12 DEF FinaliseFlush, FlushStart, inputVars, stageVars
<1>13. CASE PublishSome
  <2>1. CASE FlushReturns
    BY <1>13, <2>1 DEF PublishSome, FlushReturns, inputVars, stageVars
  <2>2. ASSUME NEW path \in closing, PublishStep(path) PROVE ControlInv'
    <3>1. PublishFile(path)
      BY <2>2, NeverUnlinks
    <3> QED
      BY <1>13, <3>1 DEF PublishSome, PublishFile, Visit, Visited, inputVars, stageVars
  <2> QED
    BY <1>13, <2>1, <2>2 DEF PublishSome
<1>14. CASE FlushEnds
  <2>1. op = "raised" => ~result'.succeeded
    BY <1>14, <1>r DEF FlushEnds
  <2> QED
    BY <1>14, <2>1 DEF FlushEnds, storeVars, inputVars, stageVars
<1>15. CASE SourceFails
  BY <1>15 DEF SourceFails, Fail, storeVars, inputVars
<1>16. CASE DlqFails
  BY <1>16 DEF DlqFails, MayRead, Fail, storeVars, inputVars
<1>17. CASE StoreFault
  <2>1. ASSUME pc = "write", NEW p \in pending, AppendFails(p) PROVE ControlInv'
    BY <1>17, <2>1 DEF StoreFault, AppendFails, inputVars, stageVars
  <2>2. ASSUME pc = "flush", NEW path \in closing, PublishFails(path) PROVE ControlInv'
    BY <1>17, <2>2 DEF StoreFault, PublishFails, Visit, Visited, inputVars, stageVars
  <2> QED
    BY <1>17, <2>1, <2>2 DEF StoreFault
<1>18. CASE Crash
  BY <1>18 DEF Crash, StoreCrash, inputVars, stageVars
<1>19. CASE Rerun
  BY <1>19 DEF Rerun, StoreCrash, inputVars
<1>20. CASE UNCHANGED vars
  BY <1>20 DEF vars, storeVars
<1> QED
  BY <1>1, <1>2, <1>3, <1>4, <1>5, <1>6, <1>7, <1>8, <1>9, <1>10, <1>11, <1>12,
     <1>13, <1>14, <1>15, <1>16, <1>17, <1>18, <1>19, <1>20 DEF Next, Progress

\* Steps that leave the files, the writers and the run id alone keep FreshInv.
LEMMA FreshSame ==
    ASSUME FreshInv, UNCHANGED <<writers, temp, published, closing, swapping>>,
           UNCHANGED <<runId, opts>>, pc' # "open",
           pc' \in {"flush", "done", "down"} \/ pc \notin {"flush", "done", "down"}
    PROVE  FreshInv'
<1>1. \A path : RowsAt(published, path)' = RowsAt(published, path)
  BY DEF RowsAt, PathOf
<1>2. Visible(runId)' = Visible(runId)
  BY DEF Visible
<1> QED
  BY <1>1, <1>2 DEF FreshInv

\* Opening a writer under the current run id keeps FreshInv.
LEMMA FreshAppend ==
    ASSUME TypeOK, FreshInv, pc = "write", UNCHANGED <<pc, runId, opts>>,
           UNCHANGED <<published, closing, swapping>>, ~opts.dryRun,
           NEW p,
           writers \subseteq writers', writers' \subseteq writers \union {<<runId, p>>},
           \A row \in temp' : row \in temp \/ row[1] = runId
    PROVE  FreshInv'
<1>1. \A path : RowsAt(published, path)' = RowsAt(published, path)
  BY DEF RowsAt, PathOf
<1>2. Visible(runId)' = Visible(runId) /\ Visible(runId) = {}
  BY DEF Visible, FreshInv
<1>3. RowsAt(published, <<runId, p>>) = {}
  BY <1>2 DEF RowsAt, PathOf, Visible
<1>4. \A path \in writers' : path[1] = runId' /\ RowsAt(published, path)' = {}
  BY <1>1, <1>3 DEF FreshInv
<1>5. runId \in Nat
  BY PipelineAssumption DEF TypeOK
<1>6. \A row \in temp' \union published' : row[1] <= runId'
  BY <1>5 DEF FreshInv
<1> QED
  BY <1>2, <1>4, <1>6 DEF FreshInv

\* Run ids are not reused: every step keeps FreshInv.
LEMMA FreshStep ==
    TypeOK /\ ControlInv /\ FreshInv /\ [Next]_vars => FreshInv'
<1> SUFFICES ASSUME TypeOK, ControlInv, FreshInv, [Next]_vars PROVE FreshInv'
  OBVIOUS
<1>t. /\ temp \in SUBSET (Nat \X Records) /\ published \in SUBSET (Nat \X Records)
      /\ runId \in Nat
  BY PipelineAssumption DEF TypeOK, StoreTypeOK, Rows
<1>1. CASE OpenSource \/ OpenFails \/ Signal \/ LimitReached \/ SourceEnds
  BY <1>1, FreshSame DEF OpenSource, OpenFails, Signal, LimitReached, SourceEnds,
     MayRead, storeVars, inputVars
<1>2. CASE ReadLine
  BY <1>2, ReadFacts, FreshSame DEF inputVars
<1>3. CASE CheckRate \/ WriteEnds \/ SourceFails \/ DlqFails
  BY <1>3, FreshSame DEF CheckRate, WriteEnds, SourceFails, DlqFails, MayRead, Fail,
     storeVars, inputVars
<1>4. CASE Complete \/ FinaliseDryRun \/ FlushEnds
  BY <1>4, FreshSame DEF Complete, FinaliseDryRun, FlushEnds, storeVars, inputVars
<1>5. CASE WriteRest
  BY <1>5, FreshSame DEF WriteRest, WriteBatch, inputVars
<1>6. CASE WriteSome
  <2>1. pc = "write" /\ UNCHANGED <<pc, runId, opts>> /\ ~opts.dryRun
    BY <1>6 DEF WriteSome, ControlInv, inputVars
  <2>2. CASE WriteReturns
    BY <2>1, <2>2, FreshSame DEF WriteReturns
  <2>3. ASSUME NEW p \in pending, AppendPartition(p) PROVE FreshInv'
    <3>1. run = runId
      BY <2>3 DEF AppendPartition, ControlInv
    <3>2. writers' = writers \union {<<runId, p>>}
      BY <2>3, <3>1 DEF AppendPartition
    <3>3. \A row \in temp' : row \in temp \/ row[1] = runId
      BY <2>3, <3>1 DEF AppendPartition, Opened, RowsAt
    <3> QED
      BY <2>1, <2>3, <3>2, <3>3, FreshAppend DEF AppendPartition
  <2> QED
    BY <1>6, <2>2, <2>3 DEF WriteSome
<1>7. CASE FinaliseFlush
  <2>1. /\ UNCHANGED <<writers, temp, published, swapping, runId, opts>>
        /\ closing' = writers /\ pc' = "flush"
    BY <1>7 DEF FinaliseFlush, FlushStart, inputVars
  <2>2. \A path : RowsAt(published, path)' = RowsAt(published, path)
    BY <2>1 DEF RowsAt, PathOf
  <2> QED
    BY <2>1, <2>2 DEF FreshInv
<1>8. CASE PublishSome
  <2>1. pc = "flush" /\ UNCHANGED <<pc, runId, opts>>
    BY <1>8 DEF PublishSome, inputVars
  <2>2. CASE FlushReturns
    BY <2>1, <2>2, FreshSame DEF FlushReturns
  <2>3. ASSUME NEW path \in closing, PublishStep(path) PROVE FreshInv'
    <3>1. PublishFile(path)
      BY <2>3, NeverUnlinks
    <3>2. /\ published' = published \union RowsAt(temp, path)
          /\ temp' = temp \ RowsAt(temp, path)
          /\ writers' = writers \ {path}
          /\ closing' = closing \ {path}
          /\ swapping' = {}
      BY <3>1 DEF PublishFile, Visited
    <3>3. \A other \in writers' : RowsAt(published', other) = {}
      BY <3>2 DEF FreshInv, RowsAt
    <3>4. \A other \in writers' : RowsAt(published, other)' = {}
      BY <3>3 DEF RowsAt, PathOf
    <3> QED
      BY <2>1, <3>2, <3>4 DEF FreshInv, RowsAt
  <2> QED
    BY <1>8, <2>2, <2>3 DEF PublishSome
<1>9. CASE StoreFault
  <2>1. UNCHANGED <<pc, runId, opts>>
    BY <1>9 DEF StoreFault, inputVars
  <2>2. ASSUME pc = "flush", NEW path \in closing, PublishFails(path) PROVE FreshInv'
    <3>1. \A other : RowsAt(published, other)' = RowsAt(published, other)
      BY <2>2 DEF PublishFails, RowsAt, PathOf
    <3> QED
      BY <2>1, <2>2, <3>1 DEF PublishFails, Visited, FreshInv
  <2>3. ASSUME pc = "write", NEW p \in pending, AppendFails(p) PROVE FreshInv'
    <3>1. run = runId /\ ~opts.dryRun
      BY <2>3 DEF AppendFails, ControlInv
    <3>2. writers' \subseteq writers \union {<<runId, p>>}
          /\ writers \subseteq writers'
      BY <2>3, <3>1 DEF AppendFails
    <3>3. temp' \subseteq temp
      BY <2>3 DEF AppendFails, Opened
    <3> QED
      BY <2>1, <2>3, <3>1, <3>2, <3>3, FreshAppend DEF AppendFails
  <2> QED
    BY <1>9, <2>2, <2>3 DEF StoreFault
<1>10. CASE Crash
  BY <1>10 DEF Crash, StoreCrash, inputVars, FreshInv
<1>11. CASE Rerun
  <2>1. /\ runId' = runId + 1 /\ UNCHANGED <<temp, published, opts>>
        /\ writers' = {} /\ closing' = {} /\ swapping' = {} /\ op' = "ready"
        /\ recordsWritten' = 0 /\ at' = 0 /\ ended' = FALSE /\ held' = {}
        /\ seen' = {} /\ duplicates' = 0 /\ result' = NoResult /\ dlq' = EmptyDlq
        /\ checkedAt' = 0
    BY <1>11 DEF Rerun, StoreCrash, inputVars
  <2>2. \A row \in temp \union published : row[1] \in Nat /\ row[1] <= runId
    BY <1>t DEF FreshInv
  <2>3. \A row \in temp \union published : row[1] <= runId' /\ row[1] # runId'
    BY <1>t, <2>1, <2>2
  <2>4. Visible(runId)' = {}
    BY <2>1, <2>3 DEF Visible
  <2> QED
    BY <2>1, <2>3, <2>4 DEF FreshInv, NoResult, EmptyDlq
<1>12. CASE UNCHANGED vars
  <2>1. \A path : RowsAt(published, path)' = RowsAt(published, path)
    BY <1>12 DEF RowsAt, PathOf, vars, storeVars
  <2>2. Visible(runId)' = Visible(runId)
    BY <1>12 DEF Visible, vars, storeVars
  <2> QED
    BY <1>12, <2>1, <2>2 DEF FreshInv, vars, storeVars, NoResult, EmptyDlq
<1> QED
  BY <1>1, <1>2, <1>3, <1>4, <1>5, <1>6, <1>7, <1>8, <1>9, <1>10, <1>11, <1>12
     DEF Next, Progress

\* A run is healthy only if it was before, unless it is a new one.
LEMMA HealthyBefore ==
    ASSUME TypeOK, ControlInv, [Next]_vars, Healthy', ~Rerun
    PROVE  Healthy
<1>r. result \in PipelineResult /\ ~[result EXCEPT !.succeeded = FALSE].succeeded
  BY DEF TypeOK, PipelineResult
<1>h. result'.succeeded /\ pc' # "down"
      /\ (pc' \in {"write", "flush"} => op' # "raised" /\ ~errors')
  BY DEF Healthy
<1>1. CASE OpenSource \/ FinaliseDryRun \/ Signal \/ SourceEnds
  BY <1>1, <1>h DEF OpenSource, FinaliseDryRun, Signal, SourceEnds, Healthy,
     storeVars, stageVars, inputVars
<1>2. CASE OpenFails \/ SourceFails
  BY <1>2, <1>h, <1>r DEF OpenFails, SourceFails, Fail
<1>3. CASE ReadLine
  BY <1>3, <1>h, ReadFacts DEF Healthy
<1>4. CASE LimitReached
  <2>1. result'.succeeded = result.succeeded
    BY <1>4, <1>r DEF LimitReached, PipelineResult
  <2> QED
    BY <1>4, <1>h, <2>1 DEF LimitReached, MayRead, Healthy
<1>5. CASE CheckRate
  <2>1. result' = result
    BY <1>5, <1>h, <1>r DEF CheckRate, Fail
  <2> QED
    BY <1>5, <1>h, <2>1 DEF CheckRate, Healthy
<1>6. CASE WriteRest
  BY <1>6, <1>h DEF WriteRest, Healthy
<1>7. CASE WriteSome
  BY <1>7, <1>h DEF WriteSome, AppendPartition, WriteReturns, ControlInv, Healthy
<1>8. CASE WriteEnds
  <2>1. op = "ready" /\ result' = result
    BY <1>8, <1>h, <1>r DEF WriteEnds, Fail
  <2> QED
    BY <1>8, <1>h, <2>1 DEF WriteEnds, ControlInv, Healthy
<1>9. CASE Complete
  <2>1. result'.succeeded = result.succeeded
    BY <1>9, <1>r DEF Complete, PipelineResult
  <2> QED
    BY <1>9, <1>h, <2>1 DEF Complete, Healthy
<1>10. CASE FinaliseFlush
  BY <1>10, <1>h DEF FinaliseFlush, Healthy
<1>11. CASE PublishSome
  BY <1>11, <1>h DEF PublishSome, PublishStep, UnlinkFinal, PublishFile, Visit,
     FlushReturns, ControlInv, Healthy
<1>12. CASE FlushEnds
  <2>1. op = "ready"
    BY <1>12, <1>h, <1>r DEF FlushEnds
  <2>2. result' = [result EXCEPT !.written = recordsWritten]
    BY <1>12, <2>1 DEF FlushEnds
  <2>3. result'.succeeded = result.succeeded
    BY <2>2, <1>r DEF PipelineResult
  <2> QED
    BY <1>12, <1>h, <2>1, <2>3 DEF FlushEnds, ControlInv, Healthy
<1>13. CASE DlqFails
  <2>3. ~result'.succeeded
    BY <1>13, DlqFailsFacts
  <2> QED
    BY <2>3, <1>h
<1>14. CASE StoreFault
  BY <1>14, <1>h DEF StoreFault, AppendFails, PublishFails
<1>15. CASE Crash
  BY <1>15, <1>h DEF Crash
<1>16. CASE UNCHANGED vars
  BY <1>16, <1>h DEF vars, storeVars, Healthy
<1> QED
  BY <1>1, <1>2, <1>3, <1>4, <1>5, <1>6, <1>7, <1>8, <1>9, <1>10, <1>11, <1>12,
     <1>13, <1>14, <1>15, <1>16 DEF Next, Progress

\* The files of the run, as long as no file changes.
LEMMA FiledSame ==
    ASSUME UNCHANGED <<temp, published, runId>>
    PROVE  Filed' = Filed
BY DEF Filed

\* In a healthy run a new writer truncates nothing of the run's own: a partition
\* that is appended adds its part of the batch to the files.
LEMMA AppendFiles ==
    ASSUME TypeOK, ControlInv, StageInv, Healthy, pc = "write",
           UNCHANGED <<runId, held>>, NEW p \in pending, AppendPartition(p)
    PROVE  /\ temp \subseteq temp'
           /\ \A row \in temp' : row \in temp \/ row \in {runId} \X Bucket(held, p)
           /\ Filed' = Filed \union Bucket(held, p)
           /\ Kept' = Kept
<1>1. run = runId /\ batch = held /\ op = "writing"
  BY DEF AppendPartition, ControlInv
<1>2. temp' = Opened(<<runId, p>>) \union ({runId} \X Bucket(held, p))
      /\ published' = published
  BY <1>1 DEF AppendPartition
<1>3. Opened(<<runId, p>>) = temp
  <2>1. CASE <<runId, p>> \in writers
    BY <2>1 DEF Opened
  <2>2. CASE <<runId, p>> \notin writers
    <3>1. \A row \in temp : row[1] = runId => PathOf(row) \in writers
      BY DEF StageInv
    <3>2. RowsAt(temp, <<runId, p>>) = {}
      BY <2>2, <3>1 DEF RowsAt, PathOf
    <3> QED
      BY <2>2, <3>2 DEF Opened
  <2> QED
    BY <2>1, <2>2
<1>4. Bucket(held, p) \subseteq held /\ held \subseteq 1..N
  BY DEF Bucket, TypeOK
<1>5. temp' = temp \union ({runId} \X Bucket(held, p))
  BY <1>2, <1>3
<1>6. \A m : <<runId, m>> \in {runId} \X Bucket(held, p) <=> m \in Bucket(held, p)
  OBVIOUS
<1>7. Filed' = Filed \union Bucket(held, p)
  BY <1>2, <1>4, <1>5, <1>6 DEF Filed
<1> QED
  BY <1>4, <1>5, <1>7 DEF Kept

\* Publishing a file moves its rows, and loses none.
LEMMA PublishFiles ==
    ASSUME FreshInv, UNCHANGED runId, NEW path \in closing, PublishStep(path)
    PROVE  /\ temp' = temp \ RowsAt(temp, path)
           /\ writers' = writers \ {path}
           /\ published' = published \union RowsAt(temp, path)
           /\ Filed' = Filed
<1>1. PublishFile(path)
  BY NeverUnlinks
<1>2. /\ published' = published \union RowsAt(temp, path)
      /\ temp' = temp \ RowsAt(temp, path)
      /\ writers' = writers \ {path}
  BY <1>1 DEF PublishFile, Visited
<1>3. temp' \union published' = temp \union published
  BY <1>2 DEF RowsAt
<1> QED
  BY <1>2, <1>3 DEF Filed

\* A step that leaves the files and the writers alone, and is not in write after
\* it, keeps StageInv.
LEMMA StageSame ==
    ASSUME StageInv, Healthy, UNCHANGED <<temp, published, writers, runId>>, pc' # "write"
    PROVE  StageInv'
<1>1. \A row \in temp' : row[1] = runId' => PathOf(row) \in writers'
  BY DEF StageInv
<1> QED
  BY <1>1 DEF StageInv, PathOf

\* The batch in flight reaches its files partition by partition, and every
\* temporary file of a healthy run has its writer: every step keeps StageInv.
LEMMA StageStep ==
    TypeOK /\ ControlInv /\ FreshInv /\ StageInv /\ [Next]_vars => StageInv'
<1> SUFFICES ASSUME TypeOK, ControlInv, FreshInv, StageInv, [Next]_vars, Healthy'
             PROVE  StageInv'
  BY DEF StageInv
<1>r. CASE Rerun
  <2>1. /\ runId' = runId + 1 /\ temp' = temp /\ pc' = "open"
    BY <1>r DEF Rerun, StoreCrash
  <2>2. /\ temp \in SUBSET (Nat \X Records) /\ runId \in Nat
    BY PipelineAssumption DEF TypeOK, StoreTypeOK, Rows
  <2>3. \A row \in temp : row[1] \in Nat /\ row[1] <= runId
    BY <2>2 DEF FreshInv
  <2>4. \A row \in temp' : row[1] # runId'
    BY <2>1, <2>2, <2>3
  <2> QED
    BY <2>1, <2>4 DEF StageInv
<1> SUFFICES ASSUME ~Rerun PROVE StageInv'
  BY <1>r
<1>h. Healthy
  BY HealthyBefore
<1>d. pc' # "down"
  BY DEF Healthy
<1>1. CASE OpenSource \/ OpenFails \/ LimitReached \/ SourceEnds
  BY <1>1, <1>h, StageSame DEF OpenSource, OpenFails, LimitReached, MayRead,
     SourceEnds, storeVars
<1>2. CASE CheckRate \/ WriteEnds \/ SourceFails \/ DlqFails
  BY <1>2, <1>h, StageSame DEF CheckRate, WriteEnds, SourceFails, DlqFails, Fail,
     storeVars
<1>3. CASE Complete \/ FinaliseDryRun \/ FlushEnds
  BY <1>3, <1>h, StageSame DEF Complete, FinaliseDryRun, FlushEnds, storeVars
<1>4. CASE FinaliseFlush
  BY <1>4, <1>h, StageSame DEF FinaliseFlush, FlushStart
<1>5. CASE ReadLine
  <2>1. /\ pc = "read" /\ pc' \in {"check", "write"}
        /\ UNCHANGED <<writers, temp, published, runId>>
        /\ pc' = "write" => op' = "writing" /\ pending' = PartitionsOf(held')
    BY <1>5, ReadFacts
  <2>2. \A row \in temp' : row[1] = runId' => PathOf(row) \in writers'
    BY <2>1, <1>h DEF StageInv
  <2>3. pc' = "write" => \A m \in held' : PartitionOf[m] \in pending'
    BY <2>1 DEF PartitionsOf
  <2> QED
    BY <2>1, <2>2, <2>3 DEF StageInv, PathOf
<1>6. CASE WriteRest
  <2>1. /\ pc' = "write" /\ op' = "writing" /\ pending' = PartitionsOf(held)
        /\ held' = held /\ UNCHANGED <<writers, temp, published, runId>>
    BY <1>6 DEF WriteRest, WriteBatch, stageVars
  <2>2. \A row \in temp' : row[1] = runId' => PathOf(row) \in writers'
    BY <2>1, <1>h DEF StageInv
  <2>3. \A m \in held' : PartitionOf[m] \in pending'
    BY <2>1 DEF PartitionsOf
  <2> QED
    BY <2>1, <2>2, <2>3 DEF StageInv, PathOf
<1>7. CASE WriteSome
  <2>1. pc = "write" /\ UNCHANGED <<pc, runId, held>>
    BY <1>7 DEF WriteSome, stageVars
  <2>2. CASE WriteReturns
    <3>1. /\ UNCHANGED <<writers, temp, published>> /\ op = "writing" /\ op' = "ready"
          /\ pending = {}
      BY <2>2 DEF WriteReturns
    <3>2. held \subseteq Filed
      BY <1>h, <2>1, <3>1 DEF StageInv
    <3>3. held' \subseteq Filed'
      BY <2>1, <3>1, <3>2, FiledSame
    <3>4. \A row \in temp' : row[1] = runId' => PathOf(row) \in writers'
      BY <2>1, <3>1, <1>h DEF StageInv
    <3> QED
      BY <3>1, <3>3, <3>4 DEF StageInv, PathOf
  <2>3. ASSUME NEW p \in pending, AppendPartition(p) PROVE StageInv'
    <3>1. /\ op = "writing" /\ op' = op /\ run = runId
          /\ writers' = writers \union {<<run, p>>} /\ pending' = pending \ {p}
      BY <2>3 DEF AppendPartition, ControlInv
    <3>2. /\ \A row \in temp' : row \in temp \/ row \in {runId} \X Bucket(held, p)
          /\ Filed' = Filed \union Bucket(held, p)
      BY <1>h, <2>1, <2>3, AppendFiles
    <3>3. \A row \in {runId} \X Bucket(held, p) : PathOf(row) = <<runId, p>>
      BY DEF PathOf, Bucket
    <3>4. \A row \in temp' : row[1] = runId' => PathOf(row) \in writers'
      BY <1>h, <2>1, <3>1, <3>2, <3>3 DEF StageInv
    <3>5. \A m \in held : PartitionOf[m] \in pending' \/ m \in Filed'
      BY <1>h, <2>1, <3>1, <3>2 DEF StageInv, Bucket
    <3> QED
      BY <2>1, <3>1, <3>4, <3>5 DEF StageInv, PathOf
  <2> QED
    BY <1>7, <2>2, <2>3 DEF WriteSome
<1>8. CASE PublishSome
  <2>1. pc = "flush" /\ UNCHANGED <<pc, runId>>
    BY <1>8 DEF PublishSome
  <2>2. CASE FlushReturns
    BY <1>h, <2>1, <2>2, StageSame DEF FlushReturns
  <2>3. ASSUME NEW path \in closing, PublishStep(path) PROVE StageInv'
    <3>1. /\ temp' = temp \ RowsAt(temp, path)
          /\ writers' = writers \ {path}
      BY <2>1, <2>3, PublishFiles
    <3>2. \A row \in temp' : row[1] = runId' => PathOf(row) \in writers'
      BY <1>h, <2>1, <3>1 DEF StageInv, RowsAt
    <3> QED
      BY <2>1, <3>2 DEF StageInv, PathOf
  <2> QED
    BY <1>8, <2>2, <2>3 DEF PublishSome
<1>9. CASE StoreFault
  BY <1>9 DEF StoreFault, AppendFails, PublishFails, Healthy
<1>10. CASE Crash
  BY <1>10, <1>d DEF Crash
<1>11. CASE Signal \/ UNCHANGED vars
  <2>1. UNCHANGED <<temp, published, writers, runId, pc, op, held, pending>>
    BY <1>11 DEF Signal, vars, storeVars, stageVars
  <2>2. Filed' = Filed
    BY <2>1, FiledSame
  <2>3. \A row \in temp' : row[1] = runId' => PathOf(row) \in writers'
    BY <1>h, <2>1 DEF StageInv
  <2> QED
    BY <1>h, <2>1, <2>2, <2>3 DEF StageInv, PathOf
<1> QED
  BY <1>1, <1>2, <1>3, <1>4, <1>5, <1>6, <1>7, <1>8, <1>9, <1>10, <1>11
     DEF Next, Progress

\* What the result says of the run, before and after it is copied: every step
\* keeps ResultInv.
LEMMA ResultStep ==
    TypeOK /\ ControlInv /\ FreshInv /\ ResultInv /\ [Next]_vars => ResultInv'
<1> SUFFICES ASSUME TypeOK, ControlInv, FreshInv, ResultInv, [Next]_vars,
                    result'.succeeded, pc' # "down"
             PROVE  ResultInv'
  BY DEF ResultInv
<1>r. result \in PipelineResult /\ ~[result EXCEPT !.succeeded = FALSE].succeeded
  BY DEF TypeOK, PipelineResult
<1>t. /\ result.lines \in Nat /\ at \in Nat
  BY <1>r, PipelineAssumption DEF TypeOK, PipelineResult
<1>1. CASE OpenSource \/ SourceEnds \/ FinaliseDryRun \/ Signal
  <2>1. UNCHANGED <<result, at, duplicates, recordsWritten, opts>>
    BY <1>1 DEF OpenSource, SourceEnds, FinaliseDryRun, Signal, storeVars, inputVars,
       stageVars
  <2>2. /\ pc = "open" \/ pc = "finalise" \/ pc' = pc
        /\ pc' = "done" /\ ~opts.dryRun => pc = "done"
        /\ pc' \in {"finalise", "flush", "done"} => pc \in {"finalise", "flush", "done"}
        /\ pc # "down" /\ (ended => ended')
    BY <1>1 DEF OpenSource, SourceEnds, FinaliseDryRun, Signal
  <2> QED
    BY <2>1, <2>2 DEF ResultInv
<1>2. CASE OpenFails \/ SourceFails
  BY <1>2, <1>r DEF OpenFails, SourceFails, Fail
<1>3. CASE ReadLine
  <2>1. /\ pc = "read" /\ ~ended /\ at' = at + 1 /\ pc' \in {"check", "write"}
        /\ result'.lines = result.lines + 1 /\ result'.succeeded = result.succeeded
    BY <1>3, ReadFacts
  <2>2. result.lines = at
    BY <2>1 DEF ResultInv
  <2> QED
    BY <1>t, <2>1, <2>2 DEF ResultInv
<1>4. CASE LimitReached
  <2>1. /\ result' = [result EXCEPT !.lines = @ + 1]
        /\ pc = "read" /\ pc' = pc /\ ~ended /\ ended' /\ at' = at
    BY <1>4 DEF LimitReached, MayRead, stageVars
  <2>2. result'.succeeded = result.succeeded /\ result'.lines = result.lines + 1
    BY <1>r, <2>1 DEF PipelineResult
  <2>3. result.lines = at
    BY <2>1, <2>2 DEF ResultInv
  <2> QED
    BY <2>1, <2>2, <2>3 DEF ResultInv
<1>5. CASE CheckRate
  <2>1. result' = result /\ pc = "check" /\ pc' = "read" /\ UNCHANGED <<at, ended>>
    BY <1>5, <1>r DEF CheckRate, Fail
  <2> QED
    BY <2>1 DEF ResultInv
<1>6. CASE WriteRest \/ WriteSome
  <2>1. /\ UNCHANGED <<result, at, ended>> /\ pc \in {"read", "write"} /\ pc' = "write"
    BY <1>6 DEF WriteRest, WriteSome, stageVars
  <2> QED
    BY <2>1 DEF ResultInv
<1>7. CASE WriteEnds
  <2>1. result' = result /\ pc = "write" /\ pc' \in {"read", "check"} /\ UNCHANGED <<at, ended>>
    BY <1>7, <1>r DEF WriteEnds, Fail
  <2> QED
    BY <2>1 DEF ResultInv
<1>8. CASE Complete
  <2>1. /\ pc = "read" /\ pc' = "finalise" /\ UNCHANGED <<at, ended, duplicates>>
        /\ result' = [result EXCEPT !.duplicate = duplicates,
                         !.written = IF opts.dryRun THEN @ ELSE recordsWritten]
    BY <1>8 DEF Complete, stageVars
  <2>2. /\ result'.duplicate = duplicates /\ result'.lines = result.lines
        /\ result'.succeeded = result.succeeded
    BY <1>r, <2>1 DEF PipelineResult
  <2> QED
    BY <2>1, <2>2 DEF ResultInv
<1>9. CASE FinaliseFlush \/ PublishSome
  <2>1. /\ UNCHANGED <<result, at, ended, duplicates>>
        /\ pc \in {"finalise", "flush"} /\ pc' = "flush"
    BY <1>9 DEF FinaliseFlush, PublishSome, stageVars
  <2> QED
    BY <2>1 DEF ResultInv
<1>10. CASE FlushEnds
  <2>1. op = "ready"
    BY <1>10, <1>r DEF FlushEnds
  <2>2. /\ result' = [result EXCEPT !.written = recordsWritten]
        /\ pc = "flush" /\ pc' = "done"
        /\ UNCHANGED <<at, ended, duplicates, recordsWritten>>
    BY <1>10, <2>1 DEF FlushEnds, storeVars, stageVars
  <2>3. /\ result'.written = recordsWritten /\ result'.duplicate = result.duplicate
        /\ result'.lines = result.lines /\ result'.succeeded = result.succeeded
    BY <1>r, <2>2 DEF PipelineResult
  <2> QED
    BY <2>2, <2>3 DEF ResultInv
<1>11. CASE DlqFails
  <2>3. ~result'.succeeded
    BY <1>11, DlqFailsFacts
  <2> QED
    BY <2>3
<1>12. CASE StoreFault
  <2>1. UNCHANGED <<result, at, ended, duplicates, pc>> /\ pc \in {"write", "flush"}
    BY <1>12 DEF StoreFault, stageVars
  <2> QED
    BY <2>1 DEF ResultInv
<1>13. CASE Crash
  BY <1>13 DEF Crash
<1>14. CASE Rerun
  <2>1. result'.lines = 0 /\ at' = 0 /\ pc' = "open"
    BY <1>14 DEF Rerun, NoResult
  <2> QED
    BY <2>1 DEF ResultInv
<1>15. CASE UNCHANGED vars
  BY <1>15 DEF vars, storeVars, ResultInv
<1> QED
  BY <1>1, <1>2, <1>3, <1>4, <1>5, <1>6, <1>7, <1>8, <1>9, <1>10, <1>11, <1>12,
     <1>13, <1>14, <1>15 DEF Next, Progress

\* A step that neither reads a line nor moves a batch keeps KeptInv.
LEMMA KeptSame ==
    ASSUME KeptInv, Healthy, Filed' = Filed, Cardinality(held') = Cardinality(held),
           Kept' = Kept, UNCHANGED <<line, opts, at, duplicates, seen, recordsWritten>>,
           result'.rejected = result.rejected,
           (pc' = "write" /\ op' = "ready") <=> (pc = "write" /\ op = "ready")
    PROVE  KeptInv'
BY DEF KeptInv

\* One more in a sum is one more in one of its terms.
LEMMA OneMore ==
    ASSUME NEW a \in Int, NEW b \in Int, NEW c \in Int, NEW d \in Int, a = b + c + d
    PROVE  /\ a + 1 = (b + 1) + c + d
           /\ a + 1 = b + (c + 1) + d
           /\ a + 1 = b + c + (d + 1)
OBVIOUS

\* Every line that is read is rejected, found to be a duplicate or kept.
LEMMA KeptRead ==
    ASSUME TypeOK, KeptInv, Healthy, ~opts.dryRun, ReadLine
    PROVE  KeptInv'
<1> USE PipelineAssumption
<1>f. /\ pc = "read" /\ at \in Nat /\ at' = at + 1 /\ at' \in 1..N
      /\ UNCHANGED <<line, opts, runId, temp, published, recordsWritten>>
      /\ pc' = "write" => op' = "writing"
  BY ReadFacts DEF TypeOK, inputVars
<1>d. Filed' = Filed
  BY <1>f, FiledSame
<1>t. /\ result.rejected \in Nat /\ duplicates \in Nat /\ recordsWritten \in Nat
      /\ held \subseteq 1..N /\ Filed \subseteq 1..N /\ Kept \subseteq 1..N
      /\ result \in PipelineResult
  BY DEF TypeOK, StoreTypeOK, PipelineResult, Filed, Kept
<1>s. /\ IsFiniteSet(held) /\ IsFiniteSet(Kept)
      /\ Cardinality(held) \in Nat /\ Cardinality(Kept) \in Nat
  BY <1>t, LineSetSize
<1>i. /\ Kept \subseteq 1..at
      /\ at = result.rejected + duplicates + Cardinality(Kept)
      /\ Cardinality(Kept) = recordsWritten + Cardinality(held)
      /\ \A k \in seen : \E m \in Kept : line[m] = k
      /\ \A l \in 1..at : \/ line[l] \in {"unparseable", "invalid"}
                          \/ \E m \in Kept : line[m] = line[l]
  BY <1>f DEF KeptInv
<1>n. /\ at \in Int /\ result.rejected \in Int /\ duplicates \in Int
      /\ Cardinality(Kept) \in Int
      /\ at = result.rejected + duplicates + Cardinality(Kept)
  BY <1>f, <1>t, <1>s, <1>i
<1>g. \A l \in 1..at' : l \in 1..at \/ l = at'
  BY <1>f
<1>c. Counted(at') \in PipelineResult /\ Counted(at').rejected = result.rejected
  BY <1>f, CountedFields
<1>1. CASE Reject(at')
  <2>1. /\ line[at'] \in {"unparseable", "invalid"}
        /\ result' = [Counted(at') EXCEPT !.rejected = @ + 1]
        /\ pc' = "check" /\ UNCHANGED <<held, seen, duplicates>>
    BY <1>1 DEF Reject
  <2>2. result'.rejected = result.rejected + 1
    BY <1>c, <2>1 DEF PipelineResult
  <2>3. Kept' = Kept
    BY <1>d, <2>1 DEF Kept
  <2>4. Kept' \subseteq 1..at'
    BY <1>f, <1>i, <2>3
  <2>c. Cardinality(Kept') = Cardinality(Kept)
    BY <2>3
  <2>e. at + 1 = (result.rejected + 1) + duplicates + Cardinality(Kept)
    BY <1>n, OneMore
  <2>5. at' = result'.rejected + duplicates' + Cardinality(Kept')
    BY <1>f, <2>1, <2>2, <2>c, <2>e
  <2>6. Cardinality(Kept') = recordsWritten' + Cardinality(held')
    BY <1>f, <1>i, <2>1, <2>3
  <2>7. \A k \in seen' : \E m \in Kept' : line'[m] = k
    BY <1>f, <1>i, <2>1, <2>3
  <2>8. \A l \in 1..at' : \/ line'[l] \in {"unparseable", "invalid"}
                          \/ \E m \in Kept' : line'[m] = line'[l]
    BY <1>f, <1>g, <1>i, <2>1, <2>3
  <2> QED
    BY <2>1, <2>4, <2>5, <2>6, <2>7, <2>8 DEF KeptInv
<1>2. CASE Duplicate(at')
  <2>1. /\ line[at'] \in seen /\ result' = Counted(at')
        /\ duplicates' = duplicates + 1 /\ pc' = "check" /\ UNCHANGED <<held, seen>>
    BY <1>2 DEF Duplicate
  <2>2. result'.rejected = result.rejected
    BY <1>c, <2>1
  <2>3. Kept' = Kept
    BY <1>d, <2>1 DEF Kept
  <2>4. Kept' \subseteq 1..at'
    BY <1>f, <1>i, <2>3
  <2>c. Cardinality(Kept') = Cardinality(Kept)
    BY <2>3
  <2>e. at + 1 = result.rejected + (duplicates + 1) + Cardinality(Kept)
    BY <1>n, OneMore
  <2>5. at' = result'.rejected + duplicates' + Cardinality(Kept')
    BY <1>f, <2>1, <2>2, <2>c, <2>e
  <2>6. Cardinality(Kept') = recordsWritten' + Cardinality(held')
    BY <1>f, <1>i, <2>1, <2>3
  <2>7. \A k \in seen' : \E m \in Kept' : line'[m] = k
    BY <1>f, <1>i, <2>1, <2>3
  <2>8. \A l \in 1..at' : \/ line'[l] \in {"unparseable", "invalid"}
                          \/ \E m \in Kept' : line'[m] = line'[l]
    BY <1>f, <1>g, <1>i, <2>1, <2>3
  <2> QED
    BY <2>1, <2>4, <2>5, <2>6, <2>7, <2>8 DEF KeptInv
<1>3. CASE Unique(at')
  <2>1. /\ result' = Counted(at') /\ duplicates' = duplicates
        /\ held' = held \union {at'}
        /\ Remember(line[at'])
    BY <1>3 DEF Unique
  <2>2. result'.rejected = result.rejected
    BY <1>c, <2>1
  <2>3. Kept' = Kept \union {at'}
    BY <1>d, <2>1 DEF Kept
  <2>n. at' \notin Kept /\ at' \notin held
    <3>1. at' \notin 1..at
      BY <1>f
    <3> QED
      BY <1>i, <3>1 DEF Kept
  <2>c. /\ Cardinality(Kept') = Cardinality(Kept) + 1
        /\ Cardinality(held') = Cardinality(held) + 1
    BY <1>s, <2>1, <2>3, <2>n, FS_AddElement
  <2>4. Kept' \subseteq 1..at'
    BY <1>f, <1>i, <2>3
  <2>e. at + 1 = result.rejected + duplicates + (Cardinality(Kept) + 1)
    BY <1>n, OneMore
  <2>5. at' = result'.rejected + duplicates' + Cardinality(Kept')
    BY <1>f, <2>1, <2>2, <2>c, <2>e
  <2>6. Cardinality(Kept') = recordsWritten' + Cardinality(held')
    BY <1>f, <1>t, <1>s, <1>i, <2>c
  <2>s. seen' \subseteq seen \union {line[at']}
    BY <2>1 DEF Remember
  <2>7. \A k \in seen' : \E m \in Kept' : line'[m] = k
    BY <1>f, <1>i, <2>s, <2>3
  <2>8. \A l \in 1..at' : \/ line'[l] \in {"unparseable", "invalid"}
                          \/ \E m \in Kept' : line'[m] = line'[l]
    BY <1>f, <1>g, <1>i, <2>3
  <2>9. ~(pc' = "write" /\ op' = "ready")
    BY <1>f
  <2> QED
    BY <2>4, <2>5, <2>6, <2>7, <2>8, <2>9 DEF KeptInv
<1> QED
  BY <1>1, <1>2, <1>3 DEF ReadLine

\* No line that is kept is lost or counted twice on its way to a file: every step
\* keeps KeptInv.
LEMMA KeptStep == IInv /\ [Next]_vars => KeptInv'
<1> SUFFICES ASSUME IInv, [Next]_vars, Healthy', ~opts'.dryRun PROVE KeptInv'
  BY DEF KeptInv
<1>i. TypeOK /\ ControlInv /\ FreshInv /\ StageInv /\ KeptInv /\ ResultInv
  BY DEF IInv
<1>r. CASE Rerun
  <2>1. /\ runId' = runId + 1 /\ UNCHANGED <<temp, published>> /\ pc' = "open"
        /\ at' = 0 /\ held' = {} /\ seen' = {} /\ duplicates' = 0
        /\ result' = NoResult /\ recordsWritten' = 0
    BY <1>r DEF Rerun, StoreCrash
  <2>2. /\ temp \in SUBSET (Nat \X Records) /\ published \in SUBSET (Nat \X Records)
        /\ runId \in Nat
    BY <1>i, PipelineAssumption DEF TypeOK, StoreTypeOK, Rows
  <2>3. \A row \in temp \union published : row[1] \in Nat /\ row[1] <= runId
    BY <1>i, <2>2 DEF FreshInv
  <2>4. \A m : <<runId + 1, m>> \notin temp \union published
    BY <2>2, <2>3
  <2>5. Kept' = {}
    BY <2>1, <2>4 DEF Kept, Filed
  <2>6. Cardinality({}) = 0
    BY FS_EmptySet
  <2>7. result'.rejected = 0
    BY <2>1 DEF NoResult
  <2> QED
    BY <2>1, <2>5, <2>6, <2>7 DEF KeptInv
<1> SUFFICES ASSUME ~Rerun PROVE KeptInv'
  BY <1>r
<1>h. Healthy
  BY <1>i, HealthyBefore
<1>p. result \in PipelineResult /\ ~[result EXCEPT !.succeeded = FALSE].succeeded
  BY <1>i DEF TypeOK, PipelineResult
<1>k. result'.succeeded /\ pc' # "down"
      /\ (pc' \in {"write", "flush"} => op' # "raised" /\ ~errors')
  BY DEF Healthy
<1>o. UNCHANGED opts
  BY DEF Next, Progress, OpenSource, OpenFails, ReadLine, LimitReached, SourceEnds,
     CheckRate, Signal, WriteRest, WriteSome, WriteEnds, Complete, FinaliseDryRun,
     FinaliseFlush, PublishSome, FlushEnds, SourceFails, DlqFails, StoreFault, Crash,
     inputVars, vars
<1>u. ASSUME UNCHANGED <<temp, published, runId, held, line, at, duplicates, seen,
                         recordsWritten>>,
             result'.rejected = result.rejected,
             (pc' = "write" /\ op' = "ready") <=> (pc = "write" /\ op = "ready")
      PROVE  KeptInv'
  <2>1. Filed' = Filed /\ Kept' = Kept
    BY <1>u DEF Filed, Kept
  <2> QED
    BY <1>u, <1>i, <1>h, <1>o, <2>1, KeptSame
<1>1. CASE OpenSource \/ FinaliseDryRun \/ Signal \/ SourceEnds
  BY <1>1, <1>u DEF OpenSource, FinaliseDryRun, Signal, SourceEnds, storeVars, stageVars,
     inputVars
<1>2. CASE OpenFails \/ SourceFails
  BY <1>2, <1>k, <1>p DEF OpenFails, SourceFails, Fail
<1>3. CASE ReadLine
  BY <1>3, <1>i, <1>h, <1>o, KeptRead
<1>4. CASE LimitReached
  <2>1. result'.rejected = result.rejected
    BY <1>4, <1>p DEF LimitReached, PipelineResult
  <2> QED
    BY <1>4, <2>1, <1>u DEF LimitReached, MayRead, storeVars, stageVars, inputVars
<1>5. CASE CheckRate
  <2>1. result' = result /\ held' = held /\ pc = "check" /\ pc' = "read"
    BY <1>5, <1>k, <1>p DEF CheckRate, Fail
  <2> QED
    BY <1>5, <2>1, <1>u DEF CheckRate, storeVars, inputVars
<1>6. CASE WriteRest
  BY <1>6, <1>u DEF WriteRest, WriteBatch, stageVars, inputVars
<1>7. CASE WriteSome
  <2>1. /\ pc = "write" /\ pc' = pc
        /\ UNCHANGED <<runId, held, line, at, duplicates, seen, result>>
    BY <1>7 DEF WriteSome, stageVars, inputVars
  <2>2. CASE WriteReturns
    <3>1. /\ UNCHANGED <<temp, published>> /\ op = "writing" /\ op' = "ready"
          /\ recordsWritten' = recordsWritten + Cardinality(held)
      BY <1>i, <2>2 DEF WriteReturns, ControlInv
    <3>2. Kept' = Kept
      BY <2>1, <3>1 DEF Kept, Filed
    <3>3. /\ Cardinality(held) \in Nat /\ recordsWritten \in Nat
      BY <1>i, LineSetSize DEF TypeOK, StoreTypeOK
    <3>4. Cardinality(Kept') = recordsWritten' + 0
      BY <1>h, <1>i, <1>o, <2>1, <3>1, <3>2, <3>3 DEF KeptInv
    <3> QED
      BY <1>h, <1>i, <1>o, <2>1, <3>1, <3>2, <3>4 DEF KeptInv
  <2>3. ASSUME NEW p \in pending, AppendPartition(p) PROVE KeptInv'
    <3>1. /\ op = "writing" /\ op' = op /\ recordsWritten' = recordsWritten
      BY <2>3 DEF AppendPartition
    <3>2. Kept' = Kept
      BY <1>i, <1>h, <2>1, <2>3, AppendFiles
    <3> QED
      BY <1>h, <1>i, <1>o, <2>1, <3>1, <3>2 DEF KeptInv
  <2> QED
    BY <1>7, <2>2, <2>3 DEF WriteSome
<1>8. CASE WriteEnds
  <2>1. /\ pc = "write" /\ op = "ready" /\ pc' \in {"read", "check"} /\ held' = {}
        /\ result' = result
    BY <1>8, <1>k, <1>p DEF WriteEnds, Fail
  <2>2. UNCHANGED <<temp, published, runId, line, at, duplicates, seen, recordsWritten>>
    BY <1>8 DEF WriteEnds, storeVars, inputVars
  <2>3. held \subseteq Filed
    BY <1>h, <1>i, <2>1 DEF StageInv
  <2>4. Kept' = Kept
    BY <2>1, <2>2, <2>3 DEF Kept, Filed
  <2>5. Cardinality(held') = 0
    BY <2>1, FS_EmptySet
  <2>6. Cardinality(Kept') = recordsWritten' + Cardinality(held')
    BY <1>h, <1>i, <1>o, <2>1, <2>2, <2>4, <2>5 DEF KeptInv
  <2> QED
    BY <1>h, <1>i, <1>o, <2>1, <2>2, <2>4, <2>6 DEF KeptInv
<1>9. CASE Complete
  <2>1. result'.rejected = result.rejected
    BY <1>9, <1>p DEF Complete, PipelineResult
  <2> QED
    BY <1>9, <2>1, <1>u DEF Complete, storeVars, stageVars, inputVars
<1>10. CASE FinaliseFlush
  BY <1>10, <1>u DEF FinaliseFlush, FlushStart, stageVars, inputVars
<1>11. CASE PublishSome
  <2>1. /\ pc = "flush" /\ pc' = pc
        /\ UNCHANGED <<runId, held, line, at, duplicates, seen, result>>
    BY <1>11 DEF PublishSome, stageVars, inputVars
  <2>2. CASE FlushReturns
    BY <2>1, <2>2, <1>u DEF FlushReturns
  <2>3. ASSUME NEW path \in closing, PublishStep(path) PROVE KeptInv'
    <3>1. Filed' = Filed
      BY <1>i, <2>1, <2>3, PublishFiles
    <3>2. Kept' = Kept /\ recordsWritten' = recordsWritten
      BY <2>1, <2>3, <3>1 DEF Kept, PublishStep, UnlinkFinal, PublishFile
    <3> QED
      BY <1>i, <1>h, <1>o, <2>1, <3>1, <3>2, KeptSame
  <2> QED
    BY <1>11, <2>2, <2>3 DEF PublishSome
<1>12. CASE FlushEnds
  <2>1. result'.rejected = result.rejected
    BY <1>12, <1>p DEF FlushEnds, PipelineResult
  <2> QED
    BY <1>12, <2>1, <1>u DEF FlushEnds, storeVars, stageVars, inputVars
<1>13. CASE DlqFails
  <2>3. ~result'.succeeded
    BY <1>13, <1>i, DlqFailsFacts
  <2> QED
    BY <2>3, <1>k
<1>14. CASE StoreFault
  BY <1>14, <1>k DEF StoreFault, AppendFails, PublishFails
<1>15. CASE Crash
  BY <1>15, <1>k DEF Crash
<1>16. CASE UNCHANGED vars
  BY <1>16, <1>u DEF vars, storeVars
<1> QED
  BY <1>1, <1>2, <1>3, <1>4, <1>5, <1>6, <1>7, <1>8, <1>9, <1>10, <1>11, <1>12,
     <1>13, <1>14, <1>15, <1>16 DEF Next, Progress

-----------------------------------------------------------------------------
(* The theorems *)

\* The inductive invariant holds initially and is preserved.
LEMMA IInvInit == Init => IInv
<1> SUFFICES ASSUME Init PROVE IInv
  OBVIOUS
<1>1. TypeOK
  BY InitTypes
<1>2. /\ op = "ready" /\ writers = {} /\ closing = {} /\ swapping = {} /\ ~errors
      /\ recordsWritten = 0 /\ temp = {} /\ published = {}
  BY DEF Init, StoreInit, NewStore
<1>3. /\ pc = "open" /\ at = 0 /\ ~ended /\ held = {} /\ seen = {} /\ duplicates = 0
      /\ result = NoResult /\ dlq = EmptyDlq /\ checkedAt = 0
  BY DEF Init
<1>4. ControlInv
  BY <1>2, <1>3 DEF ControlInv
<1>5. FreshInv
  BY <1>2, <1>3 DEF FreshInv, Visible
<1>6. StageInv
  BY <1>2, <1>3 DEF StageInv
<1>7. KeptInv
  <2>1. Kept = {} /\ Cardinality({}) = 0
    BY <1>2, <1>3, FS_EmptySet DEF Kept, Filed
  <2>2. result.rejected = 0
    BY <1>3 DEF NoResult
  <2> QED
    BY <1>2, <1>3, <2>1, <2>2 DEF KeptInv
<1>8. ResultInv
  <2>1. result.lines = 0
    BY <1>3 DEF NoResult
  <2> QED
    BY <1>3, <2>1 DEF ResultInv
<1> QED
  BY <1>1, <1>4, <1>5, <1>6, <1>7, <1>8 DEF IInv

\* Every step preserves each of its parts.
LEMMA IInvNext == IInv /\ [Next]_vars => IInv'
<1> SUFFICES ASSUME IInv, [Next]_vars PROVE IInv'
  OBVIOUS
<1> QED
  BY NextTypes, ControlStep, FreshStep, StageStep, KeptStep, ResultStep DEF IInv

\* Hence it holds in every reachable state.
LEMMA IInvHolds == Spec => []IInv
<1> QED
  BY IInvInit, IInvNext, PTL DEF Spec

\* Type correctness of the pipeline run and of the store it drives.
THEOREM TypeCorrect == Spec => []TypeOK
<1>1. IInv => TypeOK
  BY DEF IInv
<1> QED
  BY <1>1, IInvHolds, PTL

\* At the end of a run that succeeded every line it keeps is in a published file.
LEMMA StoredIsVisible ==
    ASSUME IInv, Stored
    PROVE  /\ Healthy /\ held = {} /\ Kept = Filed
           /\ Filed = {m \in 1..N : <<runId, m>> \in published}
<1>1. /\ pc = "done" /\ result.succeeded /\ ~opts.dryRun /\ Healthy
  BY DEF Stored, Healthy
<1>2. writers = {} /\ held = {}
  BY <1>1 DEF IInv, ControlInv
<1>3. \A row \in temp : row[1] # runId
  BY <1>1, <1>2 DEF IInv, StageInv
<1>4. \A m : <<runId, m>> \notin temp
  BY <1>3
<1> QED
  BY <1>1, <1>2, <1>4 DEF Kept, Filed

\* A run that succeeds has lost no line it took from the source: each was rejected,
\* or readers see a record with its key under the run's id.
THEOREM NothingDroppedHolds == Spec => []NothingDropped
<1>1. IInv => NothingDropped
  <2> SUFFICES ASSUME IInv, Stored, NEW l \in 1..at,
                      line[l] \notin {"unparseable", "invalid"}
               PROVE  \E row \in Visible(runId) : line[row[2]] = line[l]
    BY DEF NothingDropped
  <2>1. /\ Healthy /\ ~opts.dryRun /\ Kept = Filed
        /\ Filed = {m \in 1..N : <<runId, m>> \in published}
    BY StoredIsVisible DEF Stored
  <2>2. PICK m \in Kept : line[m] = line[l]
    BY <2>1 DEF IInv, KeptInv
  <2>3. <<runId, m>> \in Visible(runId)
    BY <2>1 DEF Visible
  <2> QED
    BY <2>2, <2>3
<1> QED
  BY <1>1, IInvHolds, PTL

\* The counters of a run that succeeded add up to the lines it took, and
\* records_written is the number of rows that readers see.
THEOREM CountsAddUpHolds == Spec => []CountsAddUp
<1>1. IInv => CountsAddUp
  <2> SUFFICES ASSUME IInv, Stored
               PROVE  /\ at = result.rejected + result.duplicate + result.written
                      /\ result.lines \in {at, at + 1}
                      /\ result.written = Cardinality(Visible(runId))
    BY DEF CountsAddUp
  <2>i. TypeOK /\ KeptInv /\ ResultInv
    BY DEF IInv
  <2>1. /\ Healthy /\ ~opts.dryRun /\ pc = "done" /\ result.succeeded
        /\ held = {} /\ Kept = Filed
        /\ Filed = {m \in 1..N : <<runId, m>> \in published}
    BY StoredIsVisible DEF Stored
  <2>2. /\ result.lines = at \/ result.lines = at + 1
        /\ result.duplicate = duplicates /\ result.written = recordsWritten
    BY <2>1, <2>i DEF ResultInv
  <2>3. /\ at = result.rejected + duplicates + Cardinality(Kept)
        /\ Cardinality(Kept) = recordsWritten + Cardinality(held)
    BY <2>1, <2>i DEF KeptInv
  <2>4. Cardinality(held) = 0 /\ recordsWritten \in Nat
    BY <2>1, <2>i, FS_EmptySet DEF TypeOK, StoreTypeOK
  <2>5. Cardinality(Kept) = recordsWritten
    BY <2>3, <2>4
  <2>6. Cardinality(Visible(runId)) = Cardinality(Kept)
    <3> DEFINE rowOf == [m \in Kept |-> <<runId, m>>]
    <3>1. /\ IsFiniteSet(Kept)
          /\ published \subseteq Runs \X (1..N)
      BY <2>1, <2>i, LineSetSize, PipelineAssumption DEF TypeOK, StoreTypeOK, Rows
    <3>2. \A row \in published : row = <<row[1], row[2]>> /\ row[2] \in 1..N
      BY <3>1
    <3>3. rowOf \in Bijection(Kept, Visible(runId))
      <4>1. rowOf \in [Kept -> Visible(runId)]
        BY <2>1 DEF Visible
      <4>2. \A a, b \in Kept : rowOf[a] = rowOf[b] => a = b
        OBVIOUS
      <4>3. \A row \in Visible(runId) : row[2] \in Kept /\ rowOf[row[2]] = row
        BY <2>1, <3>2 DEF Visible
      <4> QED
        BY <4>1, <4>2, <4>3 DEF Bijection, Injection, Surjection, IsInjective
    <3>4. ExistsBijection(Kept, Visible(runId))
      BY <3>3 DEF ExistsBijection
    <3> QED
      BY <3>1, <3>4, FS_Bijection
  <2> QED
    BY <2>2, <2>3, <2>5, <2>6
<1> QED
  BY <1>1, IInvHolds, PTL

-----------------------------------------------------------------------------
(* The dead-letter queue *)

\* A step that neither rejects a line nor starts a new run keeps DlqInv.
LEMMA DlqSame ==
    ASSUME DlqInv, UNCHANGED <<dlq, duplicates, opts>>,
           result'.succeeded => result.succeeded /\ result'.rejected = result.rejected
    PROVE  DlqInv'
BY DEF DlqInv, DlqAccountsForAll

\* One more rejection in the dead-letter queue keeps its account, whatever the
\* result says the number of rejections is.
LEMMA DlqRecord ==
    ASSUME TypeOK, DlqInv, dlq' = Recorded(dlq), UNCHANGED opts,
           result'.succeeded = result.succeeded,
           result'.rejected + (IF opts.keepDuplicates THEN duplicates' ELSE 0)
               = result.rejected + (IF opts.keepDuplicates THEN duplicates ELSE 0) + 1
    PROVE  DlqInv'
<1>t. /\ dlq \in [total : Nat, written : Nat, dropped : Nat] /\ DlqMax \in Nat
      /\ dlq.total \in Nat /\ dlq.written \in Nat /\ dlq.dropped \in Nat
  BY PipelineAssumption DEF TypeOK
<1>f. /\ Recorded(dlq).total = dlq.total + 1
      /\ opts.dryRun => Recorded(dlq).written = dlq.written
                        /\ Recorded(dlq).dropped = dlq.dropped
      /\ ~opts.dryRun /\ dlq.written >= DlqMax =>
             Recorded(dlq).written = dlq.written
             /\ Recorded(dlq).dropped = dlq.dropped + 1
      /\ ~opts.dryRun /\ ~(dlq.written >= DlqMax) =>
             Recorded(dlq).written = dlq.written + 1
             /\ Recorded(dlq).dropped = dlq.dropped
  BY <1>t, RecordedFields
<1>1. /\ dlq'.total = dlq.total + 1
      /\ \/ opts.dryRun /\ dlq'.written = dlq.written /\ dlq'.dropped = dlq.dropped
         \/ /\ ~opts.dryRun /\ dlq.written >= DlqMax
            /\ dlq'.written = dlq.written /\ dlq'.dropped = dlq.dropped + 1
         \/ /\ ~opts.dryRun /\ ~(dlq.written >= DlqMax)
            /\ dlq'.written = dlq.written + 1 /\ dlq'.dropped = dlq.dropped
  BY <1>f
<1>2. dlq.written <= DlqMax /\ (dlq.dropped > 0 => dlq.written = DlqMax)
  BY DEF DlqInv
<1>3. dlq'.written <= DlqMax /\ (dlq'.dropped > 0 => dlq'.written = DlqMax)
  BY <1>t, <1>1, <1>2
<1>4. ASSUME result.succeeded
      PROVE  /\ dlq'.total = result'.rejected
                             + (IF opts.keepDuplicates THEN duplicates' ELSE 0)
             /\ ~opts.dryRun => dlq'.total = dlq'.written + dlq'.dropped
  <2>1. /\ dlq.total = result.rejected
                       + (IF opts.keepDuplicates THEN duplicates ELSE 0)
        /\ ~opts.dryRun => dlq.total = dlq.written + dlq.dropped
    BY <1>4 DEF DlqInv, DlqAccountsForAll
  <2>2. dlq'.total = result'.rejected
                     + (IF opts.keepDuplicates THEN duplicates' ELSE 0)
    BY <1>1, <2>1
  <2>3. ~opts.dryRun => dlq'.total = dlq'.written + dlq'.dropped
    BY <1>t, <1>1, <2>1
  <2> QED
    BY <2>2, <2>3
<1> QED
  BY <1>3, <1>4 DEF DlqInv, DlqAccountsForAll

\* The dead-letter queue counts what the result and the deduplicator count: every
\* step keeps DlqInv.
LEMMA DlqStep == TypeOK /\ DlqInv /\ [Next]_vars => DlqInv'
<1> SUFFICES ASSUME TypeOK, DlqInv, [Next]_vars PROVE DlqInv'
  OBVIOUS
<1>p. /\ result \in PipelineResult /\ ~[result EXCEPT !.succeeded = FALSE].succeeded
      /\ result.rejected \in Nat /\ duplicates \in Nat
  BY DEF TypeOK, PipelineResult
<1>1. CASE ReadLine
  <2>1. at' \in 1..N /\ UNCHANGED opts /\ result'.succeeded = result.succeeded
    BY <1>1, ReadFacts DEF inputVars
  <2>2. Counted(at') \in PipelineResult /\ Counted(at').rejected = result.rejected
    BY <2>1, CountedFields
  <2>3. CASE Reject(at')
    <3>1. /\ result' = [Counted(at') EXCEPT !.rejected = @ + 1]
          /\ dlq' = Recorded(dlq) /\ duplicates' = duplicates
      BY <2>3 DEF Reject
    <3>2. result'.rejected = result.rejected + 1
      BY <2>2, <3>1 DEF PipelineResult
    <3>3. result'.rejected + (IF opts.keepDuplicates THEN duplicates' ELSE 0)
              = result.rejected + (IF opts.keepDuplicates THEN duplicates ELSE 0) + 1
      BY <1>p, <3>1, <3>2
    <3> QED
      BY <2>1, <3>1, <3>3, DlqRecord
  <2>4. CASE Duplicate(at')
    <3>1. /\ result' = Counted(at') /\ duplicates' = duplicates + 1
          /\ dlq' = IF opts.keepDuplicates THEN Recorded(dlq) ELSE dlq
      BY <2>4 DEF Duplicate
    <3>2. CASE opts.keepDuplicates
      <4>1. result'.rejected + (IF opts.keepDuplicates THEN duplicates' ELSE 0)
              = result.rejected + (IF opts.keepDuplicates THEN duplicates ELSE 0) + 1
        BY <1>p, <2>2, <3>1, <3>2
      <4> QED
        BY <2>1, <3>1, <3>2, <4>1, DlqRecord
    <3>3. CASE ~opts.keepDuplicates
      BY <2>1, <2>2, <3>1, <3>3 DEF DlqInv, DlqAccountsForAll
    <3> QED
      BY <3>2, <3>3
  <2>5. CASE Unique(at')
    <3>1. result' = Counted(at') /\ UNCHANGED <<dlq, duplicates>>
      BY <2>5 DEF Unique
    <3> QED
      BY <2>1, <2>2, <3>1, DlqSame
  <2> QED
    BY <1>1, <2>3, <2>4, <2>5 DEF ReadLine
<1>2. CASE DlqFails
  <2>3. ~result'.succeeded
    BY <1>2, DlqFailsFacts
  <2>4. dlq' = [dlq EXCEPT !.total = @ + 1]
    BY <1>2 DEF DlqFails
  <2>5. dlq'.written = dlq.written /\ dlq'.dropped = dlq.dropped
    BY <2>4 DEF TypeOK
  <2> QED
    BY <2>3, <2>5 DEF DlqInv, DlqAccountsForAll
<1>3. CASE Rerun
  <2>1. /\ dlq'.total = 0 /\ dlq'.written = 0 /\ dlq'.dropped = 0
        /\ result'.rejected = 0 /\ duplicates' = 0
    BY <1>3 DEF Rerun, NoResult, EmptyDlq
  <2> QED
    BY <2>1, PipelineAssumption DEF DlqInv, DlqAccountsForAll
<1>4. CASE OpenFails \/ SourceFails
  BY <1>4, <1>p, DlqSame DEF OpenFails, SourceFails, Fail, inputVars, stageVars
<1>5. CASE CheckRate \/ WriteEnds
  <2>1. result' = result \/ ~result'.succeeded
    BY <1>5, <1>p DEF CheckRate, WriteEnds, Fail
  <2> QED
    BY <1>5, <2>1, DlqSame DEF CheckRate, WriteEnds, inputVars
<1>6. CASE LimitReached \/ Complete
  <2>1. result'.rejected = result.rejected /\ result'.succeeded = result.succeeded
    BY <1>6, <1>p DEF LimitReached, Complete, PipelineResult
  <2> QED
    BY <1>6, <2>1, DlqSame DEF LimitReached, Complete, inputVars, stageVars
<1>7. CASE FlushEnds
  <2>1. result'.succeeded => result'.rejected = result.rejected /\ result.succeeded
    BY <1>7, <1>p DEF FlushEnds, PipelineResult
  <2> QED
    BY <1>7, <2>1, DlqSame DEF FlushEnds, inputVars, stageVars
<1>8. CASE OpenSource \/ SourceEnds \/ FinaliseDryRun \/ Signal \/ WriteRest
           \/ WriteSome \/ FinaliseFlush \/ PublishSome \/ StoreFault \/ Crash
           \/ UNCHANGED vars
  BY <1>8, DlqSame DEF OpenSource, SourceEnds, FinaliseDryRun, Signal, WriteRest,
     WriteSome, FinaliseFlush, PublishSome, StoreFault, Crash, inputVars, stageVars, vars
<1> QED
  BY <1>1, <1>2, <1>3, <1>4, <1>5, <1>6, <1>7, <1>8 DEF Next, Progress

\* Until something fails, every rejection is in the dead-letter file or counted as
\* dropped at its cap.
THEOREM DlqAccountsForAllHolds == Spec => []DlqAccountsForAll
<1>1. Init => DlqInv
  <2> SUFFICES ASSUME Init PROVE DlqInv
    OBVIOUS
  <2>1. /\ dlq.total = 0 /\ dlq.written = 0 /\ dlq.dropped = 0
        /\ result.rejected = 0 /\ duplicates = 0
    BY DEF Init, NoResult, EmptyDlq
  <2> QED
    BY <2>1, PipelineAssumption DEF DlqInv, DlqAccountsForAll
<1>2. IInv /\ DlqInv /\ [Next]_vars => DlqInv'
  BY DlqStep DEF IInv
<1>3. DlqInv => DlqAccountsForAll
  BY DEF DlqInv
<1> QED
  BY <1>1, <1>2, <1>3, IInvHolds, PTL DEF Spec

-----------------------------------------------------------------------------
(* The check of the rejection rate *)

\* A rate of 1 exceeds every threshold below 1.
LEMMA AllRejectedIsTooMany ==
    ASSUME NEW c \in Nat \ {0}, Num < Den
    PROVE  c * Den > Num * (0 + c)
<1>1. Num \in Nat /\ Den \in Nat
  BY PipelineAssumption
<1>2. \A x, y, z \in Int : x > 0 /\ y < z => x * z > y * (0 + x)
  BY Z3
<1> QED
  BY <1>1, <1>2

\* A run has succeeded so far only if it had before, unless it is a new one.
LEMMA StillSucceeded ==
    ASSUME TypeOK, [Next]_vars, ~Rerun, result'.succeeded, pc' # "down"
    PROVE  result.succeeded /\ pc # "down"
<1>r. result \in PipelineResult /\ ~[result EXCEPT !.succeeded = FALSE].succeeded
  BY DEF TypeOK, PipelineResult
<1>1. CASE ReadLine
  BY <1>1, ReadFacts
<1>2. CASE LimitReached \/ Complete
  <2>1. result'.succeeded = result.succeeded
    BY <1>2, <1>r DEF LimitReached, Complete, PipelineResult
  <2> QED
    BY <1>2, <2>1 DEF LimitReached, MayRead, Complete
<1>3. CASE CheckRate \/ WriteEnds
  BY <1>3, <1>r DEF CheckRate, WriteEnds, Fail
<1>4. CASE FlushEnds
  <2>1. result'.succeeded => result.succeeded
    BY <1>4, <1>r DEF FlushEnds, PipelineResult
  <2> QED
    BY <1>4, <2>1 DEF FlushEnds
<1>5. CASE OpenFails \/ SourceFails \/ Crash
  BY <1>5, <1>r DEF OpenFails, SourceFails, Crash, Fail
<1>6. CASE DlqFails
  <2>3. ~result'.succeeded
    BY <1>6, DlqFailsFacts
  <2> QED
    BY <2>3
<1>7. CASE OpenSource \/ SourceEnds \/ FinaliseDryRun \/ Signal \/ WriteRest
           \/ WriteSome \/ FinaliseFlush \/ PublishSome \/ StoreFault
           \/ UNCHANGED vars
  BY <1>7 DEF OpenSource, SourceEnds, FinaliseDryRun, Signal, WriteRest, WriteSome,
     FinaliseFlush, PublishSome, StoreFault, vars
<1> QED
  BY <1>1, <1>2, <1>3, <1>4, <1>5, <1>6, <1>7 DEF Next, Progress

\* While a run meets unparseable lines only, every one of them is rejected, and the
\* check at the end of the first sample fails the run: each step keeps Hopeless.
LEMMA HopelessStep ==
    ASSUME IInv, [Next]_vars, ~Rerun, Hopeless, Num < Den,
           result'.succeeded, pc' # "down",
           \A l \in 1..CheckEvery : line[l] = "unparseable"
    PROVE  Hopeless'
<1> USE PipelineAssumption
<1>i. TypeOK /\ ControlInv
  BY DEF IInv
<1>p. /\ result \in PipelineResult /\ ~[result EXCEPT !.succeeded = FALSE].succeeded
      /\ at \in Nat /\ result.rejected \in Nat
  BY <1>i DEF TypeOK, PipelineResult
<1>1. CASE ReadLine
  <2>1. /\ pc = "read" /\ ~ended /\ at' = at + 1 /\ at' \in 1..N /\ checkedAt' = checkedAt
        /\ ended' = ended /\ result'.lines = result.lines + 1
    BY <1>1, <1>i, ReadFacts
  <2>2. at' \in 1..CheckEvery
    BY <1>p, <2>1 DEF Hopeless
  <2>3. line[at'] = "unparseable" /\ line[at'] \notin Keys /\ seen \subseteq Keys
    BY <1>i, <2>2 DEF TypeOK
  <2>4. Reject(at')
    BY <1>1, <2>3 DEF ReadLine, Duplicate, Unique
  <2>5. /\ result' = [Counted(at') EXCEPT !.rejected = @ + 1]
        /\ held' = held /\ pc' = "check"
    BY <2>4 DEF Reject
  <2>6. /\ Counted(at') \in PipelineResult /\ Counted(at').rejected = result.rejected
        /\ Counted(at').parsed = result.parsed
    BY <1>i, <2>1, <2>3, CountedFields
  <2>7. result'.rejected = result.rejected + 1 /\ result'.parsed = result.parsed
    BY <2>5, <2>6 DEF PipelineResult
  <2> QED
    BY <1>p, <2>1, <2>2, <2>5, <2>7 DEF Hopeless
<1>2. CASE LimitReached
  <2>1. /\ result' = [result EXCEPT !.lines = @ + 1] /\ ended'
        /\ UNCHANGED <<at, held, checkedAt, pc>>
    BY <1>2 DEF LimitReached, stageVars
  <2>2. result'.rejected = result.rejected /\ result'.parsed = result.parsed
    BY <1>p, <2>1 DEF PipelineResult
  <2> QED
    BY <2>1, <2>2 DEF Hopeless
<1>3. CASE CheckRate
  <2>1. pc = "check" /\ ~ended /\ result.lines = at /\ checkedAt = 0
    BY <1>3, <1>i DEF CheckRate, ControlInv, Hopeless
  <2>2. /\ result' = result /\ held' = held /\ pc' = "read"
        /\ ~(result.lines - checkedAt >= CheckEvery /\ TooManyRejected)
        /\ checkedAt' = IF result.lines - checkedAt >= CheckEvery THEN result.lines
                        ELSE checkedAt
        /\ UNCHANGED <<at, ended>>
    BY <1>3, <1>p DEF CheckRate, Fail
  <2>3. at # CheckEvery
    <3> SUFFICES ASSUME at = CheckEvery PROVE FALSE
      OBVIOUS
    <3>1. result.lines - checkedAt >= CheckEvery
      BY <2>1
    <3>2. result.rejected = CheckEvery /\ result.parsed = 0
      BY DEF Hopeless
    <3>3. CheckEvery * Den > Num * (0 + CheckEvery)
      BY AllRejectedIsTooMany
    <3>4. TooManyRejected
      BY <3>2, <3>3 DEF TooManyRejected
    <3> QED
      BY <2>2, <3>1, <3>4
  <2>4. at < CheckEvery
    BY <1>p, <2>3 DEF Hopeless
  <2>5. ~(result.lines - checkedAt >= CheckEvery)
    BY <1>p, <2>1, <2>4
  <2> QED
    BY <2>2, <2>3, <2>5 DEF Hopeless
<1>4. CASE WriteRest \/ WriteSome \/ WriteEnds
  BY <1>4 DEF WriteRest, WriteSome, WriteEnds, Hopeless
<1>5. CASE Complete
  <2>1. /\ result' = [result EXCEPT !.duplicate = duplicates,
                         !.written = IF opts.dryRun THEN @ ELSE recordsWritten]
        /\ pc = "read" /\ pc' = "finalise" /\ UNCHANGED <<at, held, checkedAt, ended>>
    BY <1>5 DEF Complete, stageVars
  <2>2. /\ result'.rejected = result.rejected /\ result'.parsed = result.parsed
        /\ result'.lines = result.lines
    BY <1>p, <2>1 DEF PipelineResult
  <2> QED
    BY <2>1, <2>2 DEF Hopeless
<1>6. CASE FlushEnds
  <2>1. op = "ready"
    BY <1>6, <1>p DEF FlushEnds
  <2>2. /\ result' = [result EXCEPT !.written = recordsWritten]
        /\ pc = "flush" /\ pc' = "done" /\ UNCHANGED <<at, held, checkedAt, ended>>
    BY <1>6, <2>1 DEF FlushEnds, stageVars
  <2>3. /\ result'.rejected = result.rejected /\ result'.parsed = result.parsed
        /\ result'.lines = result.lines
    BY <1>p, <2>2 DEF PipelineResult
  <2> QED
    BY <2>2, <2>3 DEF Hopeless
<1>7. CASE OpenFails \/ SourceFails
  BY <1>7, <1>p DEF OpenFails, SourceFails, Fail
<1>8. CASE DlqFails
  <2>3. ~result'.succeeded
    BY <1>8, <1>i, DlqFailsFacts
  <2> QED
    BY <2>3
<1>9. CASE OpenSource \/ SourceEnds \/ FinaliseDryRun \/ FinaliseFlush
  <2>1. /\ UNCHANGED <<result, at, held, checkedAt>> /\ pc' # "write" /\ pc # "check"
        /\ ended => ended'
    BY <1>9 DEF OpenSource, SourceEnds, FinaliseDryRun, FinaliseFlush, stageVars
  <2> QED
    BY <2>1 DEF Hopeless
<1>10. CASE Signal \/ PublishSome \/ StoreFault \/ UNCHANGED vars
  BY <1>10 DEF Signal, PublishSome, StoreFault, stageVars, vars, Hopeless
<1>11. CASE Crash
  BY <1>11 DEF Crash
<1> QED
  BY <1>1, <1>2, <1>3, <1>4, <1>5, <1>6, <1>7, <1>8, <1>9, <1>10, <1>11
     DEF Next, Progress

\* A run whose whole first sample is unparseable does not end as a success, for
\* every threshold below 1.
THEOREM HopelessRunAbortsHolds == Spec => []HopelessRunAborts
<1>1. Init => HopelessInv
  <2>1. Init => /\ result.rejected = 0 /\ result.parsed = 0 /\ result.lines = 0
                /\ at = 0 /\ checkedAt = 0 /\ held = {} /\ pc = "open"
    BY DEF Init, NoResult
  <2> QED
    BY <2>1, PipelineAssumption DEF HopelessInv, Hopeless
<1>2. IInv /\ HopelessInv /\ [Next]_vars => HopelessInv'
  <2> SUFFICES ASSUME IInv, HopelessInv, [Next]_vars,
                      Num < Den, result'.succeeded, pc' # "down",
                      \A l \in 1..CheckEvery : line'[l] = "unparseable"
               PROVE  Hopeless'
    BY DEF HopelessInv, Hopeless
  <2>1. line' = line
    BY DEF Next, Progress, OpenSource, OpenFails, ReadLine, LimitReached, SourceEnds,
       CheckRate, Signal, WriteRest, WriteSome, WriteEnds, Complete, FinaliseDryRun,
       FinaliseFlush, PublishSome, FlushEnds, SourceFails, DlqFails, StoreFault, Crash,
       Rerun, inputVars, vars
  <2>2. CASE Rerun
    <3>1. /\ result'.rejected = 0 /\ result'.parsed = 0 /\ result'.lines = 0
          /\ at' = 0 /\ checkedAt' = 0 /\ held' = {} /\ pc' = "open"
      BY <2>2 DEF Rerun, NoResult
    <3> QED
      BY <3>1, PipelineAssumption DEF Hopeless
  <2>3. CASE ~Rerun
    <3>1. result.succeeded /\ pc # "down"
      BY <2>3, StillSucceeded DEF IInv
    <3>2. Hopeless
      BY <2>1, <3>1 DEF HopelessInv, Hopeless
    <3> QED
      BY <2>1, <2>3, <3>2, HopelessStep
  <2> QED
    BY <2>2, <2>3
<1>3. IInv /\ HopelessInv => HopelessRunAborts
  <2> SUFFICES ASSUME IInv, HopelessInv, Num < Den, pc = "done", result.succeeded,
                      at >= CheckEvery,
                      \A l \in 1..CheckEvery : line[l] = "unparseable"
               PROVE  FALSE
    BY DEF HopelessRunAborts
  <2>1. at <= CheckEvery /\ (at = CheckEvery => pc = "check")
    BY DEF HopelessInv, Hopeless
  <2>2. at \in Nat /\ CheckEvery \in Nat
    BY PipelineAssumption DEF IInv, TypeOK
  <2> QED
    BY <2>1, <2>2
<1> QED
  BY <1>1, <1>2, <1>3, IInvHolds, PTL DEF Spec
=============================================================================
