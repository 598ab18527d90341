-------------------------- MODULE StoreClientProofs --------------------------
(* Proofs about the Parquet store under an arbitrary caller. *)
EXTENDS StoreClient, TLAPS

\* A row is staged when it is in the temporary file of an open writer.
Staged(row) == row \in temp /\ PathOf(row) \in writers

\* A flush visits exactly the writers that are open.
FlushInv == op = "flushing" => closing = writers

\* What write has appended so far is staged.
WriteInv ==
    op = "writing" =>
        \A m \in batch : PartitionOf[m] \notin pending => Staged(<<run, m>>)

\* Rows of completed writes are staged, or this flush has published them, or it
\* has noted an error.
WroteInv ==
    \A row \in wrote :
        \/ Staged(row)
        \/ op = "flushing" /\ (errors \/ (row \in published /\ PathOf(row) \notin closing))

\* No acknowledged row is in a file that a writer may replace.
AckedInv ==
    /\ \A row \in acked : \A path \in writers : row[1] # path[1]
    /\ op = "writing" => \A row \in acked : row[1] # run

IInv ==
    /\ batch \subseteq Records
    /\ wrote \subseteq Rows
    /\ FlushInv
    /\ WriteInv
    /\ WroteInv
    /\ AckedInv
    /\ AckedVisible

\* The first state of the store satisfies the invariant.
LEMMA InitIInv == Init => IInv
  BY DEF Init, StoreInit, NewStore, IInv, FlushInv, WriteInv, WroteInv, AckedInv, AckedVisible

\* What a row of a run and a record is named.
LEMMA RowPath ==
  ASSUME NEW r \in Runs, NEW m \in Records
  PROVE  PathOf(<<r, m>>) = <<r, PartitionOf[m]>>
  BY DEF PathOf

\* Opening a writer leaves the rows of the writers that were open.
LEMMA OpenedKeeps ==
  ASSUME NEW path, NEW row, Staged(row)
  PROVE  row \in Opened(path)
  BY DEF Staged, Opened, RowsAt

USE DEF IInv, auxVars, Rows

\* write begins: rows of its run id are acknowledged no longer.
LEMMA WriteStep ==
  ASSUME IInv, NEW events \in SUBSET Records, NEW r \in Runs, Write(events, r)
  PROVE  IInv'
<1>1. FlushInv' /\ WriteInv'
  BY DEF Write, WriteBatch, FlushInv, WriteInv, PartitionsOf
<1>2. WroteInv'
  BY DEF Write, WriteBatch, WroteInv, Staged
<1>3. AckedInv' /\ AckedVisible'
  BY DEF Write, WriteBatch, AckedInv, AckedVisible
<1> QED
  BY <1>1, <1>2, <1>3 DEF Write, WriteBatch

\* One partition's rows are staged, and the others stay so.
LEMMA AppendStep ==
  ASSUME IInv, run \in Runs, NEW p \in Partitions, Append(p)
  PROVE  IInv'
<1> USE DEF Append, AppendPartition
<1>1. \A row : Staged(row) => Staged(row)'
  BY OpenedKeeps DEF Staged, PathOf
<1>2. FlushInv'
  BY DEF FlushInv
<1>3. WriteInv'
  <2> SUFFICES ASSUME NEW m \in batch, PartitionOf[m] \notin pending'
               PROVE  Staged(<<run, m>>)'
    BY DEF WriteInv
  <2>1. CASE PartitionOf[m] \notin pending
    BY <1>1, <2>1 DEF WriteInv
  <2>2. CASE PartitionOf[m] = p
    <3>1. <<run, m>> \in temp'
      BY <2>2 DEF Bucket
    <3>2. PathOf(<<run, m>>)' = <<run, p>>
      BY <2>2 DEF PathOf
    <3> QED
      BY <3>1, <3>2 DEF Staged
  <2> QED
    BY <2>1, <2>2
<1>4. WroteInv'
  BY <1>1 DEF WroteInv
<1>5. AckedInv' /\ AckedVisible'
  BY DEF AckedInv, AckedVisible
<1> QED
  BY <1>2, <1>3, <1>4, <1>5

\* write returns: all partitions of its batch were appended.
LEMMA WriteReturnsStep ==
  ASSUME IInv, run \in Runs, WriteOK
  PROVE  IInv'
<1> USE DEF WriteOK, WriteReturns
<1>1. FlushInv' /\ WriteInv'
  BY DEF FlushInv, WriteInv
<1>2. WroteInv'
  <2> SUFFICES ASSUME NEW row \in wrote'
               PROVE  Staged(row)
    BY DEF WroteInv, Staged, PathOf
  <2>1. CASE row \in wrote
    BY <2>1 DEF WroteInv
  <2>2. CASE row \in {run} \X batch
    <3>1. PICK m \in batch : row = <<run, m>>
      BY <2>2
    <3> QED
      BY <3>1 DEF WriteInv
  <2> QED
    BY <2>1, <2>2
<1>3. wrote' \subseteq Rows
  BY DEF Rows
<1>4. AckedInv' /\ AckedVisible'
  BY DEF AckedInv, AckedVisible
<1> QED
  BY <1>1, <1>2, <1>3, <1>4

\* flush begins: it will visit every open writer.
LEMMA FlushStep ==
  ASSUME IInv, Flush
  PROVE  IInv'
<1> USE DEF Flush, FlushStart
<1>1. FlushInv' /\ WriteInv'
  BY DEF FlushInv, WriteInv
<1>2. WroteInv'
  BY DEF WroteInv, Staged, PathOf
<1>3. AckedInv' /\ AckedVisible'
  BY DEF AckedInv, AckedVisible
<1> QED
  BY <1>1, <1>2, <1>3

\* A file is unlinked or published: no acknowledged row is in it, and the rows
\* of this flush that are visible are in files it is done with.
LEMMA PublishStepInv ==
  ASSUME IInv, NEW path \in closing, Publish(path)
  PROVE  IInv'
<1> USE DEF Publish
<1>1. op = "flushing" /\ op' = "flushing" /\ path \in writers /\ closing = writers
  BY DEF PublishStep, UnlinkFinal, PublishFile, Visit, FlushInv
<1>2. CASE UnlinkFinal(path)
  <2> USE <1>2 DEF UnlinkFinal
  <2>1. WroteInv'
    <3> SUFFICES ASSUME NEW row \in wrote, ~ Staged(row)', ~ errors
                 PROVE  row \in published' /\ PathOf(row) \notin closing
      BY <1>1 DEF WroteInv, PathOf
    <3>1. row \in published /\ PathOf(row) \notin closing
      BY DEF WroteInv, Staged, PathOf
    <3> QED
      BY <3>1 DEF RowsAt
  <2>2. AckedVisible'
    <3> SUFFICES ASSUME NEW row \in acked
                 PROVE  row \in published'
      BY DEF AckedVisible
    <3>1. row[1] # path[1]
      BY <1>1 DEF AckedInv
    <3>2. PathOf(row) # path
      BY <3>1 DEF PathOf
    <3> QED
      BY <3>2 DEF RowsAt, AckedVisible
  <2>3. FlushInv' /\ WriteInv' /\ AckedInv'
    BY <1>1 DEF FlushInv, WriteInv, AckedInv
  <2> QED
    BY <2>1, <2>2, <2>3
<1>3. CASE PublishFile(path)
  <2> USE <1>3 DEF PublishFile, Visited
  <2>1. WroteInv'
    <3> SUFFICES ASSUME NEW row \in wrote, ~ errors
                 PROVE  \/ Staged(row)'
                        \/ row \in published' /\ PathOf(row) \notin closing'
      BY <1>1 DEF WroteInv, PathOf
    <3>1. CASE Staged(row) /\ PathOf(row) = path
      BY <3>1 DEF Staged, RowsAt, PathOf
    <3>2. CASE Staged(row) /\ PathOf(row) # path
      BY <3>2 DEF Staged, RowsAt, PathOf
    <3>3. CASE row \in published /\ PathOf(row) \notin closing
      BY <3>3
    <3> QED
      BY <3>1, <3>2, <3>3 DEF WroteInv
  <2>2. FlushInv' /\ WriteInv' /\ AckedInv' /\ AckedVisible'
    BY <1>1 DEF FlushInv, WriteInv, AckedInv, AckedVisible
  <2> QED
    BY <2>1, <2>2
<1> QED
  BY <1>2, <1>3 DEF PublishStep

\* flush returns: without an error everything that was written is visible.
LEMMA FlushEndsStep ==
  ASSUME IInv, FlushEnds
  PROVE  IInv'
<1> USE DEF FlushEnds, FlushReturns
<1>1. op = "flushing" /\ writers = {} /\ closing = {}
  BY DEF FlushInv
<1>2. ~ errors => wrote \subseteq published
  BY <1>1 DEF WroteInv, Staged
<1>3. FlushInv' /\ WriteInv' /\ WroteInv' /\ AckedInv'
  BY <1>1 DEF FlushInv, WriteInv, WroteInv, AckedInv
<1>4. AckedVisible'
  BY <1>2 DEF AckedVisible
<1> QED
  BY <1>3, <1>4

\* An append, a publication or the whole instance fails: rows of completed
\* writes stay staged, or the flush notes its error, or nothing was promised.
LEMMA FaultStep ==
  ASSUME IInv, Fault
  PROVE  IInv'
<1> USE DEF Fault
<1>1. ASSUME NEW p \in Partitions, AppendFails(p), UNCHANGED wrote
      PROVE  IInv'
  <2> USE <1>1 DEF AppendFails
  <2>1. \A row : Staged(row) => Staged(row)'
    BY OpenedKeeps DEF Staged, PathOf
  <2>2. WroteInv'
    BY <2>1 DEF WroteInv
  <2>3. FlushInv' /\ WriteInv' /\ AckedInv' /\ AckedVisible'
    BY DEF FlushInv, WriteInv, AckedInv, AckedVisible
  <2> QED
    BY <2>2, <2>3
<1>2. ASSUME NEW path \in closing, PublishFails(path), UNCHANGED wrote
      PROVE  IInv'
  <2> USE <1>2 DEF PublishFails, Visit, Visited
  <2>1. WroteInv'
    BY DEF WroteInv
  <2>2. FlushInv' /\ WriteInv' /\ AckedInv' /\ AckedVisible'
    BY DEF FlushInv, WriteInv, AckedInv, AckedVisible
  <2> QED
    BY <2>1, <2>2
<1>3. ASSUME StoreCrash, wrote' = {}
      PROVE  IInv'
  BY <1>3 DEF StoreCrash, FlushInv, WriteInv, WroteInv, AckedInv, AckedVisible
<1> QED
  BY <1>1, <1>2, <1>3

\* While a write is under way its run id is one.
RunInv == op = "writing" => run \in Runs

LEMMA RunStep == RunInv /\ [Next]_vars => RunInv'
<1> SUFFICES ASSUME RunInv, [Next]_vars
             PROVE  RunInv'
  OBVIOUS
<1> USE DEF RunInv
<1>1. ASSUME NEW events \in SUBSET Records, NEW r \in Runs, Write(events, r)
      PROVE  RunInv'
  BY <1>1 DEF Write, WriteBatch
<1>2. ASSUME NEW p \in Partitions, Append(p)
      PROVE  RunInv'
  BY <1>2 DEF Append, AppendPartition
<1>3. CASE WriteOK \/ Flush \/ FlushEnds
  BY <1>3 DEF WriteOK, WriteReturns, Flush, FlushStart, FlushEnds, FlushReturns
<1>4. ASSUME NEW path \in closing, Publish(path)
      PROVE  RunInv'
  BY <1>4 DEF Publish, PublishStep, UnlinkFinal, PublishFile
<1>5. CASE Fault
  BY <1>5 DEF Fault, AppendFails, PublishFails, StoreCrash
<1>6. CASE UNCHANGED vars
  BY <1>6 DEF vars, storeVars
<1> QED
  BY <1>1, <1>2, <1>3, <1>4, <1>5, <1>6 DEF Next

\* Every step keeps the invariant.
LEMMA NextIInv == RunInv /\ IInv /\ [Next]_vars => IInv'
<1> SUFFICES ASSUME RunInv, IInv, [Next]_vars
             PROVE  IInv'
  OBVIOUS
<1>1. ASSUME NEW events \in SUBSET Records, NEW r \in Runs, Write(events, r)
      PROVE  IInv'
  BY <1>1, WriteStep
<1>2. ASSUME NEW p \in Partitions, Append(p)
      PROVE  IInv'
  BY <1>2, AppendStep DEF RunInv, Append, AppendPartition
<1>3. CASE WriteOK
  BY <1>3, WriteReturnsStep DEF RunInv, WriteOK, WriteReturns
<1>4. CASE Flush \/ FlushEnds \/ Fault
  BY <1>4, FlushStep, FlushEndsStep, FaultStep
<1>5. ASSUME NEW path \in closing, Publish(path)
      PROVE  IInv'
  BY <1>5, PublishStepInv
<1>6. CASE UNCHANGED vars
  BY <1>6 DEF vars, storeVars, auxVars, FlushInv, WriteInv, WroteInv, AckedInv, AckedVisible, Staged, PathOf
<1> QED
  BY <1>1, <1>2, <1>3, <1>4, <1>5, <1>6 DEF Next

\* What a write and a flush have returned for is visible to readers, for any
\* number of records, partitions, run ids, calls, errors and crashes.
THEOREM AckedVisibleHolds == Spec => []AckedVisible
<1>1. Init => IInv /\ RunInv
  BY InitIInv DEF Init, StoreInit, NewStore, RunInv
<1>2. (IInv /\ RunInv) /\ [Next]_vars => (IInv /\ RunInv)'
  BY NextIInv, RunStep
<1>3. IInv => AckedVisible
  OBVIOUS
<1> QED
  BY <1>1, <1>2, <1>3, PTL DEF Spec
=============================================================================
