------------------------ MODULE StreamConsumerProofs ------------------------
(***************************************************************************)
(* Machine-checked proofs about StreamConsumer: type correctness, the      *)
(* inductive invariant IInv, no loss of committed messages, monotone       *)
(* commits and published files, the counters of StreamStats, and the       *)
(* refinement of AtLeastOnce.                                              *)
(***************************************************************************)
EXTENDS StreamConsumer, FiniteSetTheorems, TLAPS

\* A set of messages is finite, so its cardinality is a number.
LEMMA MessageSetSize ==
    ASSUME NEW S \in SUBSET (1..N)
    PROVE  Cardinality(S) \in Nat
<1>1. IsFiniteSet(1..N)
  BY FS_Interval, StreamAssumption
<1>2. IsFiniteSet(S)
  BY <1>1, FS_Subset
<1> QED
  BY <1>2, FS_CardinalityType

-----------------------------------------------------------------------------
(* Type correctness *)

\* The initial state is well typed.
LEMMA InitTypes == Init => TypeOK
<1> SUFFICES ASSUME Init PROVE TypeOK
  OBVIOUS
<1>1. StoreTypeOK
  BY DEF Init, StoreInit, NewStore, StoreTypeOK, Ops
<1>2. stats \in StreamStats
  BY DEF Init, NoStats, StreamStats
<1>3. /\ produced \in 0..N
      /\ committed \in -1..N
      /\ position \in 0..N
      /\ origin \in 0..N
      /\ nextRun \in Nat
      /\ faults \in 0..MaxFaults
  BY StreamAssumption DEF Init, NoOffset
<1> QED
  BY <1>1, <1>2, <1>3 DEF Init, TypeOK, Locations

\* Each step of the store that the consumer takes keeps the store well typed.
LEMMA StoreStepTypes ==
    ASSUME StoreTypeOK,
           NEW p \in Partitions, NEW path \in Paths,
           \/ AppendPartition(p)
           \/ AppendFails(p)
           \/ WriteReturns
           \/ FlushStart
           \/ PublishStep(path)
           \/ PublishFails(path)
           \/ FlushReturns
           \/ StoreCrash
    PROVE  StoreTypeOK'
<1> USE DEF StoreTypeOK, Ops
<1>0. run \in Runs \union {NoRun} /\ Runs = Nat /\ NoRun \in Nat /\ Records = 1..N
  BY StreamAssumption DEF NoRun
<1>1. CASE AppendPartition(p)
  <2>1. <<run, p>> \in Paths
    BY <1>0 DEF Paths
  <2>2. {run} \X Bucket(batch, p) \in SUBSET Rows
    BY <1>0 DEF Rows, Bucket
  <2> QED
    BY <1>1, <2>1, <2>2 DEF AppendPartition, Opened, RowsAt
<1>2. CASE AppendFails(p)
  <2>1. <<run, p>> \in Paths
    BY <1>0 DEF Paths
  <2> QED
    BY <1>2, <2>1 DEF AppendFails, Opened, RowsAt
<1>3. CASE WriteReturns
  <2>1. Cardinality(batch) \in Nat
    BY <1>0, MessageSetSize
  <2> QED
    BY <1>3, <2>1 DEF WriteReturns
<1>4. CASE FlushStart
  BY <1>4 DEF FlushStart
<1>5. CASE PublishStep(path)
  BY <1>5 DEF PublishStep, UnlinkFinal, PublishFile, Visit, Visited, RowsAt
<1>6. CASE PublishFails(path)
  BY <1>6 DEF PublishFails, Visit, Visited
<1>7. CASE FlushReturns
  BY <1>7 DEF FlushReturns
<1>8. CASE StoreCrash
  BY <1>8 DEF StoreCrash
<1> QED
  BY <1>1, <1>2, <1>3, <1>4, <1>5, <1>6, <1>7, <1>8

\* A step that leaves the store alone leaves it well typed.
LEMMA StoreSameTypes ==
    ASSUME StoreTypeOK, UNCHANGED storeVars
    PROVE  StoreTypeOK'
BY DEF StoreTypeOK, storeVars

\* The updates of the stream counters keep them numbers.
LEMMA StatsUpdates ==
    ASSUME NEW s \in StreamStats, NEW n \in Nat
    PROVE  /\ [s EXCEPT !.messages = @ + 1] \in StreamStats
           /\ [s EXCEPT !.messages = @ + 1, !.rejected = @ + 1] \in StreamStats
           /\ [s EXCEPT !.messages = @ + 1, !.duplicates = @ + 1] \in StreamStats
           /\ [s EXCEPT !.written = @ + n] \in StreamStats
<1> USE DEF StreamStats
<1>0. /\ s.messages + 1 \in Nat /\ s.rejected + 1 \in Nat
      /\ s.duplicates + 1 \in Nat /\ s.written + n \in Nat
  OBVIOUS
<1>1. [s EXCEPT !.messages = @ + 1] \in StreamStats
  BY <1>0
<1>2. [s EXCEPT !.messages = @ + 1, !.rejected = @ + 1] \in StreamStats
  BY <1>0
<1>3. [s EXCEPT !.messages = @ + 1, !.duplicates = @ + 1] \in StreamStats
  BY <1>0
<1>4. [s EXCEPT !.written = @ + n] \in StreamStats
  BY <1>0
<1> QED
  BY <1>1, <1>2, <1>3, <1>4

\* Every step of the specification preserves the types.
LEMMA NextTypes == TypeOK /\ [Next]_vars => TypeOK'
<1> SUFFICES ASSUME TypeOK, [Next]_vars PROVE TypeOK'
  OBVIOUS
<1> USE StreamAssumption DEF TypeOK, Locations
<1>s. StoreTypeOK
  OBVIOUS
<1>1. CASE Produce
  BY <1>1, StoreSameTypes DEF Produce, consumerVars, auxVars
<1>2. CASE Start
  BY <1>2, StoreSameTypes DEF Start, StartOffset, NoOffset
<1>d. ASSUME Down, UNCHANGED <<produced, committed, position, auxVars, nextRun>>,
             faults' \in 0..MaxFaults
      PROVE  TypeOK'
  <2>1. StoreTypeOK'
    BY <1>d DEF Down, StoreCrash, StoreTypeOK, Ops
  <2>2. stats' \in StreamStats
    BY <1>d DEF Down, NoStats, StreamStats
  <2> QED
    BY <1>d, <2>1, <2>2 DEF Down, auxVars
<1>sp. ASSUME Spend PROVE faults' \in 0..MaxFaults
  BY <1>sp DEF Spend
<1>3. CASE Crash
  BY <1>3, <1>d, <1>sp DEF Crash
<1>4. CASE PollBatch
  <2> PICK last \in (position + 1)..produced :
         /\ todo' = {m \in (position + 1)..last : Kind[m] # "null"}
         /\ position' = last
         /\ pc' = IF todo' = {} THEN "loop" ELSE "handle"
    BY <1>4 DEF PollBatch
  <2>1. last \in 0..N /\ todo' \in SUBSET (1..N)
    OBVIOUS
  <2>2. StoreTypeOK'
    BY <1>4, StoreSameTypes DEF PollBatch
  <2> QED
    BY <1>4, <2>1, <2>2 DEF PollBatch, auxVars
<1>5. CASE PollEmpty \/ UNCHANGED vars
  <2>1. StoreTypeOK'
    BY <1>5, StoreSameTypes DEF PollEmpty, vars
  <2> QED
    BY <1>5, <2>1 DEF PollEmpty, vars
<1>6. CASE Stop
  <2>1. StoreTypeOK'
    BY <1>6, StoreSameTypes DEF Stop
  <2> QED
    BY <1>6, <2>1, <1>sp DEF Stop, auxVars
<1>7. CASE Handle
  <2> PICK m \in todo :
         /\ Reject(m) \/ Duplicate(m) \/ Accept(m)
         /\ todo' = todo \ {m}
         /\ pc' = IF todo' = {} THEN "flush" ELSE "handle"
    BY <1>7 DEF Handle
  <2>1. StoreTypeOK'
    BY <1>7, StoreSameTypes DEF Handle
  <2>2. stats' \in StreamStats
    BY StatsUpdates DEF Reject, Duplicate, Accept
  <2>m. m \in 1..N /\ buffer \subseteq 1..N /\ seen \subseteq Keys /\ Key[m] \in Keys
    OBVIOUS
  <2>3. buffer' \in SUBSET (1..N)
    <3> HIDE StreamAssumption DEF TypeOK
    <3>1. buffer' = buffer \/ buffer' = buffer \union {m}
      BY DEF Reject, Duplicate, Accept
    <3> QED
      BY <2>m, <3>1
  <2>4. seen' \in SUBSET Keys
    <3> HIDE StreamAssumption DEF TypeOK
    <3>1. seen' \subseteq seen \union {Key[m]}
      BY DEF Reject, Duplicate, Accept, Remember
    <3> QED
      BY <2>m, <3>1
  <2> QED
    BY <1>7, <2>1, <2>2, <2>3, <2>4 DEF Handle, auxVars
<1>8. CASE FlushEmpty
  <2>1. StoreTypeOK'
    BY <1>8, StoreSameTypes DEF FlushEmpty
  <2> QED
    BY <1>8, <2>1 DEF FlushEmpty, AfterFlush, auxVars
<1>9. CASE FlushBuffer
  <2>1. nextRun' \in Nat /\ nextRun' \in Runs
    BY <1>9 DEF FlushBuffer
  <2>2. PartitionsOf(buffer) \in SUBSET Partitions
    BY StoreAssumption DEF PartitionsOf
  <2>3. StoreTypeOK'
    BY <1>9, <2>1, <2>2 DEF FlushBuffer, WriteBatch, StoreTypeOK, Ops
  <2> QED
    BY <1>9, <2>1, <2>3 DEF FlushBuffer, auxVars
<1>10. CASE WriteSome
  <2>1. StoreTypeOK'
    <3>1. CASE WriteReturns
      BY <3>1, MessageSetSize DEF WriteReturns, StoreTypeOK, Ops
    <3>2. CASE \E p \in pending : AppendPartition(p)
      <4> PICK p \in pending : AppendPartition(p)
        BY <3>2
      <4>1. p \in Partitions
        BY DEF StoreTypeOK
      <4>2. <<0, p>> \in Paths
        BY <4>1 DEF Paths
      <4> QED
        BY <4>1, <4>2, <1>s, StoreStepTypes
    <3> QED
      BY <1>10, <3>1, <3>2 DEF WriteSome
  <2> QED
    BY <1>10, <2>1 DEF WriteSome, consumerVars, auxVars
<1>11. CASE StoreFlush
  <2>1. StoreTypeOK'
    BY <1>11 DEF StoreFlush, FlushStart, StoreTypeOK, Ops
  <2> QED
    BY <1>11, <2>1 DEF StoreFlush, auxVars
<1>12. CASE PublishSome
  <2>1. StoreTypeOK'
    <3>1. CASE FlushReturns
      BY <3>1 DEF FlushReturns, StoreTypeOK, Ops
    <3>2. CASE \E path \in closing : PublishStep(path)
      BY <3>2 DEF PublishStep, UnlinkFinal, PublishFile, Visit, Visited,
                  RowsAt, StoreTypeOK, Ops
    <3> QED
      BY <1>12, <3>1, <3>2 DEF PublishSome
  <2> QED
    BY <1>12, <2>1 DEF PublishSome, consumerVars, auxVars
<1>13. CASE StoreFault
  <2>1. StoreTypeOK'
    <3>1. CASE \E path \in closing : PublishFails(path)
      BY <3>1 DEF PublishFails, Visit, Visited, StoreTypeOK, Ops
    <3>2. CASE \E p \in pending : AppendFails(p)
      <4> PICK p \in pending : AppendFails(p)
        BY <3>2
      <4>1. p \in Partitions
        BY DEF StoreTypeOK
      <4>2. <<0, p>> \in Paths
        BY <4>1 DEF Paths
      <4> QED
        BY <4>1, <4>2, <1>s, StoreStepTypes
    <3> QED
      BY <1>13, <3>1, <3>2 DEF StoreFault
  <2> QED
    BY <1>13, <2>1, <1>sp DEF StoreFault, consumerVars, auxVars
<1>14. CASE FlushSucceeds
  <2>1. StoreTypeOK'
    BY <1>14, StoreSameTypes DEF FlushSucceeds
  <2>2. stats' \in StreamStats
    <3>1. Cardinality(inflight) \in Nat
      BY MessageSetSize
    <3> QED
      BY <1>14, <3>1, StatsUpdates DEF FlushSucceeds
  <2> QED
    BY <1>14, <2>1, <2>2 DEF FlushSucceeds, AfterFlush, auxVars
<1>15. CASE FlushRaises
  <2>1. StoreTypeOK'
    BY <1>15, StoreSameTypes DEF FlushRaises
  <2> QED
    BY <1>15, <2>1 DEF FlushRaises, auxVars
<1>16. CASE FinalFlushRaises \/ Close
  BY <1>16, <1>d DEF FinalFlushRaises, Close
<1>17. CASE Commit
  <2>1. StoreTypeOK'
    BY <1>17, StoreSameTypes DEF Commit
  <2> QED
    BY <1>17, <2>1 DEF Commit, auxVars
<1>18. CASE CommitFails
  <2>1. StoreTypeOK'
    BY <1>18, StoreSameTypes DEF CommitFails
  <2> QED
    BY <1>18, <2>1, <1>sp DEF CommitFails, auxVars
<1> QED
  BY <1>1, <1>2, <1>3, <1>4, <1>5, <1>6, <1>7, <1>8, <1>9, <1>10, <1>11, <1>12,
     <1>13, <1>14, <1>15, <1>16, <1>17, <1>18 DEF Next, Progress

\* Type correctness of the consume loop and the store it drives.
THEOREM TypeCorrect == Spec => []TypeOK
<1>1. Init => TypeOK
  BY InitTypes
<1>2. TypeOK /\ [Next]_vars => TypeOK'
  BY NextTypes
<1> QED
  BY <1>1, <1>2, PTL DEF Spec

-----------------------------------------------------------------------------
(* The inductive invariant *)

\* Control states and the processor's variables stay in step.
LEMMA ControlStep == TypeOK /\ ControlInv /\ [Next]_vars => ControlInv'
<1> SUFFICES ASSUME TypeOK, ControlInv, [Next]_vars PROVE ControlInv'
  OBVIOUS
<1> USE DEF ControlInv
<1>1. CASE Produce
  BY <1>1 DEF Produce, consumerVars, storeVars
<1>2. CASE Start
  BY <1>2 DEF Start, storeVars
<1>3. CASE Crash \/ FinalFlushRaises \/ Close
  BY <1>3 DEF Crash, FinalFlushRaises, Close, Down, StoreCrash
<1>4. CASE PollBatch
  BY <1>4 DEF PollBatch, storeVars
<1>5. CASE PollEmpty \/ UNCHANGED vars
  BY <1>5 DEF PollEmpty, vars, storeVars
<1>6. CASE Stop
  BY <1>6 DEF Stop, storeVars
<1>7. CASE Handle
  BY <1>7 DEF Handle, storeVars
<1>8. CASE FlushEmpty
  BY <1>8 DEF FlushEmpty, AfterFlush, storeVars
<1>9. CASE FlushBuffer
  BY <1>9 DEF FlushBuffer, WriteBatch
<1>10. CASE WriteSome
  BY <1>10 DEF WriteSome, AppendPartition, WriteReturns, consumerVars
<1>11. CASE StoreFlush
  BY <1>11 DEF StoreFlush, FlushStart
<1>12. CASE PublishSome
  BY <1>12 DEF PublishSome, PublishStep, UnlinkFinal, PublishFile, Visit,
               FlushReturns, consumerVars
<1>13. CASE StoreFault
  BY <1>13 DEF StoreFault, AppendFails, PublishFails, Visit, consumerVars
<1>14. CASE FlushSucceeds
  BY <1>14 DEF FlushSucceeds, AfterFlush, storeVars
<1>15. CASE FlushRaises
  BY <1>15 DEF FlushRaises, storeVars
<1>16. CASE Commit
  BY <1>16 DEF Commit, storeVars
<1>17. CASE CommitFails
  BY <1>17 DEF CommitFails, storeVars
<1> QED
  BY <1>1, <1>2, <1>3, <1>4, <1>5, <1>6, <1>7, <1>8, <1>9, <1>10, <1>11, <1>12,
     <1>13, <1>14, <1>15, <1>16, <1>17 DEF Next, Progress

\* Because run ids are fresh, flush never finds a file to unlink, and the set
\* of visible rows only grows.
LEMMA PublishedStep == FreshInv /\ [Next]_vars => published \subseteq published'
<1> SUFFICES ASSUME FreshInv, [Next]_vars PROVE published \subseteq published'
  OBVIOUS
<1>1. CASE PublishSome
  <2>1. \A path \in closing : ~UnlinkFinal(path)
    BY DEF FreshInv, UnlinkFinal
  <2> QED
    BY <1>1, <2>1 DEF PublishSome, PublishStep, PublishFile, FlushReturns
<1>2. CASE WriteSome
  BY <1>2 DEF WriteSome, AppendPartition, WriteReturns
<1>3. CASE StoreFault
  BY <1>3 DEF StoreFault, AppendFails, PublishFails
<1>4. CASE Crash \/ FinalFlushRaises \/ Close
  BY <1>4 DEF Crash, FinalFlushRaises, Close, Down, StoreCrash
<1>5. CASE FlushBuffer \/ StoreFlush
  BY <1>5 DEF FlushBuffer, WriteBatch, StoreFlush, FlushStart
<1>6. CASE UNCHANGED storeVars
  BY <1>6 DEF storeVars
<1> QED
  BY <1>1, <1>2, <1>3, <1>4, <1>5, <1>6 DEF Next, Progress, Produce, Start,
     PollBatch, PollEmpty, Stop, Handle, FlushEmpty, FlushSucceeds, FlushRaises,
     Commit, CommitFails, vars

\* Which is why a durable message stays durable.
LEMMA DurableStays ==
    ASSUME published \subseteq published', NEW m
    PROVE  /\ Durable(m) => Durable(m)'
           /\ \A k : Published(k) => Published(k)'
BY DEF Durable, Published

\* Steps that leave the store and the run counter alone keep FreshInv.
LEMMA FreshSame ==
    ASSUME FreshInv, UNCHANGED <<storeVars, nextRun>>,
           pc' = "writing" => pc = "writing"
    PROVE  FreshInv'
BY DEF FreshInv, storeVars, RowsAt, PathOf

\* Run ids are not reused: every step keeps FreshInv, so that no flush finds an
\* older file at the path it publishes to.
LEMMA FreshStep ==
    TypeOK /\ FlushInv /\ FreshInv /\ [Next]_vars => FreshInv'
<1> SUFFICES ASSUME TypeOK, FlushInv, FreshInv, [Next]_vars PROVE FreshInv'
  OBVIOUS
<1>t. /\ temp \in SUBSET (Nat \X Records) /\ published \in SUBSET (Nat \X Records)
      /\ writers \in SUBSET (Nat \X Partitions) /\ nextRun \in Nat
  BY StreamAssumption DEF TypeOK, StoreTypeOK, Rows, Paths
<1>1. CASE Crash \/ FinalFlushRaises \/ Close
  BY <1>1 DEF Crash, FinalFlushRaises, Close, Down, StoreCrash, FreshInv
<1>2. CASE FlushBuffer
  <2>1. /\ UNCHANGED <<temp, published, writers, closing, swapping>>
        /\ nextRun' = nextRun + 1
    BY <1>2 DEF FlushBuffer, WriteBatch
  <2>2. \A row \in temp \union published : row[1] \in Nat /\ row[1] <= nextRun
    BY <1>t DEF FreshInv
  <2>3. \A path \in writers : path[1] \in Nat /\ path[1] <= nextRun
    BY <1>t DEF FreshInv
  <2> QED
    BY <1>t, <2>1, <2>2, <2>3 DEF FreshInv, RowsAt, PathOf
<1>3. CASE WriteSome
  <2>1. pc = "writing" /\ pc' = pc /\ nextRun' = nextRun
    BY <1>3 DEF WriteSome, consumerVars
  <2>2. CASE WriteReturns
    BY <2>1, <2>2 DEF WriteReturns, FreshInv, RowsAt, PathOf
  <2>3. ASSUME NEW p \in pending, AppendPartition(p) PROVE FreshInv'
    <3>1. run = nextRun
      BY <2>1, <2>3 DEF AppendPartition, FlushInv
    <3>2. writers' = writers \union {<<nextRun, p>>}
      BY <2>3, <3>1 DEF AppendPartition
    <3>3. \A row \in temp' : row \in temp \/ row[1] = nextRun
      BY <2>3, <3>1 DEF AppendPartition, Opened, RowsAt
    <3>4. RowsAt(published, <<nextRun, p>>) = {}
      BY <2>1 DEF FreshInv, RowsAt, PathOf
    <3>5. published' = published /\ closing' = closing /\ swapping' = swapping
      BY <2>3 DEF AppendPartition
    <3> QED
      BY <1>t, <2>1, <3>2, <3>3, <3>4, <3>5 DEF FreshInv, RowsAt, PathOf
  <2> QED
    BY <1>3, <2>2, <2>3 DEF WriteSome
<1>4. CASE StoreFlush
  BY <1>4 DEF StoreFlush, FlushStart, FreshInv, RowsAt, PathOf
<1>5. CASE PublishSome
  <2>1. pc = "publishing" /\ pc' = pc /\ nextRun' = nextRun
    BY <1>5 DEF PublishSome, consumerVars
  <2>2. CASE FlushReturns
    BY <2>1, <2>2 DEF FlushReturns, FreshInv, RowsAt, PathOf
  <2>3. ASSUME NEW path \in closing, PublishStep(path) PROVE FreshInv'
    <3>1. PublishFile(path)
      BY <2>3 DEF PublishStep, UnlinkFinal, FreshInv
    <3>2. /\ published' = published \union RowsAt(temp, path)
          /\ temp' = temp \ RowsAt(temp, path)
          /\ writers' = writers \ {path}
          /\ closing' = closing \ {path}
          /\ swapping' = {}
      BY <3>1 DEF PublishFile, Visited
    <3>3. \A other \in writers' : RowsAt(published', other) = {}
      BY <3>2 DEF FreshInv, RowsAt
    <3>4. \A other \in writers' : RowsAt(published, other)' = {}
      BY <3>3 DEF RowsAt, PathOf
    <3> QED
      BY <2>1, <3>2, <3>4 DEF FreshInv, RowsAt
  <2> QED
    BY <1>5, <2>2, <2>3 DEF PublishSome
<1>6. CASE StoreFault
  <2>1. pc' = pc /\ nextRun' = nextRun
    BY <1>6 DEF StoreFault, consumerVars
  <2>2. ASSUME NEW path \in closing, PublishFails(path) PROVE FreshInv'
    BY <2>1, <2>2 DEF PublishFails, Visited, FreshInv, RowsAt, PathOf
  <2>3. ASSUME pc = "writing", NEW p \in pending, AppendFails(p) PROVE FreshInv'
    <3>1. run = nextRun
      BY <2>3 DEF AppendFails, FlushInv
    <3>2. writers' \subseteq writers \union {<<nextRun, p>>}
          /\ writers \subseteq writers'
      BY <2>3, <3>1 DEF AppendFails
    <3>3. temp' \subseteq temp
      BY <2>3 DEF AppendFails, Opened
    <3>4. RowsAt(published, <<nextRun, p>>) = {}
      BY <2>3 DEF FreshInv, RowsAt, PathOf
    <3>5. published' = published /\ closing' = closing /\ swapping' = swapping
      BY <2>3 DEF AppendFails
    <3> QED
      BY <1>t, <2>1, <3>2, <3>3, <3>4, <3>5 DEF FreshInv, RowsAt, PathOf
  <2> QED
    BY <1>6, <2>2, <2>3 DEF StoreFault
<1>7. ASSUME UNCHANGED <<storeVars, nextRun>>, pc' = "writing" => pc = "writing"
      PROVE  FreshInv'
  BY <1>7, FreshSame
<1>8. CASE Produce \/ UNCHANGED vars \/ PollEmpty
  BY <1>8, <1>7 DEF Produce, PollEmpty, consumerVars, vars
<1>9. CASE Start \/ PollBatch \/ Stop \/ Handle \/ FlushEmpty \/ FlushSucceeds
           \/ FlushRaises \/ Commit \/ CommitFails
  BY <1>9, <1>7 DEF Start, PollBatch, Stop, Handle, FlushEmpty, AfterFlush,
     FlushSucceeds, FlushRaises, Commit, CommitFails
<1> QED
  BY <1>1, <1>2, <1>3, <1>4, <1>5, <1>6, <1>8, <1>9 DEF Next, Progress

\* Steps that leave the store, the run counter and the batch in flight alone.
LEMMA FlushSame ==
    ASSUME FlushInv, UNCHANGED <<storeVars, nextRun, inflight, pc>>
    PROVE  FlushInv'
BY DEF FlushInv, storeVars, Staged

\* The batch in flight is staged, then published, partition by partition: every
\* step of write and flush keeps FlushInv.
LEMMA FlushStep ==
    TypeOK /\ ControlInv /\ FlushInv /\ FreshInv /\ [Next]_vars => FlushInv'
<1> SUFFICES ASSUME TypeOK, ControlInv, FlushInv, FreshInv, [Next]_vars
             PROVE  FlushInv'
  OBVIOUS
<1>1. ASSUME pc' \notin {"writing", "publishing"} PROVE FlushInv'
  BY <1>1 DEF FlushInv
<1>2. CASE FlushBuffer
  <2>1. \A m \in buffer : PartitionOf[m] \in PartitionsOf(buffer)
    BY DEF PartitionsOf
  <2> QED
    BY <1>2, <2>1 DEF FlushBuffer, WriteBatch, FlushInv
<1>3. CASE WriteSome
  <2>1. pc = "writing" /\ pc' = pc /\ nextRun' = nextRun /\ inflight' = inflight
    BY <1>3 DEF WriteSome, consumerVars
  <2>2. CASE WriteReturns
    BY <2>1, <2>2 DEF WriteReturns, FlushInv, Staged
  <2>3. ASSUME NEW p \in pending, AppendPartition(p) PROVE FlushInv'
    <3>1. op = "writing" /\ run = nextRun /\ batch = inflight
      BY <2>1, <2>3 DEF AppendPartition, FlushInv
    <3>2. /\ op' = op /\ run' = run /\ batch' = batch
          /\ pending' = pending \ {p}
          /\ writers' = writers \union {<<nextRun, p>>}
          /\ temp' = Opened(<<nextRun, p>>) \union ({nextRun} \X Bucket(inflight, p))
      BY <2>3, <3>1 DEF AppendPartition
    <3>3. ASSUME NEW m \in inflight PROVE PartitionOf[m] \in pending' \/ Staged(m)'
      <4>1. CASE PartitionOf[m] = p
        BY <2>1, <3>2, <4>1 DEF Staged, Bucket
      <4>2. CASE PartitionOf[m] # p /\ PartitionOf[m] \notin pending
        <5>1. Staged(m)
          BY <2>1, <3>1, <4>2 DEF FlushInv
        <5>2. PathOf(<<nextRun, m>>) # <<nextRun, p>>
          BY <4>2 DEF PathOf
        <5>3. <<nextRun, m>> \in Opened(<<nextRun, p>>)
          BY <5>1, <5>2 DEF Staged, Opened, RowsAt
        <5> QED
          BY <2>1, <3>2, <5>1, <5>3 DEF Staged
      <4> QED
        BY <3>2, <4>1, <4>2
    <3> QED
      BY <2>1, <3>1, <3>2, <3>3 DEF FlushInv
  <2> QED
    BY <1>3, <2>2, <2>3 DEF WriteSome
<1>4. CASE StoreFlush
  BY <1>4 DEF StoreFlush, FlushStart, FlushInv, Staged
<1>5. CASE PublishSome
  <2>1. pc = "publishing" /\ pc' = pc /\ nextRun' = nextRun /\ inflight' = inflight
    BY <1>5 DEF PublishSome, consumerVars
  <2>2. CASE FlushReturns
    BY <2>1, <2>2 DEF FlushReturns, FlushInv, Staged
  <2>3. ASSUME NEW path \in closing, PublishStep(path) PROVE FlushInv'
    <3>1. PublishFile(path)
      BY <2>3 DEF PublishStep, UnlinkFinal, FreshInv
    <3>2. /\ op = "flushing" /\ op' = op /\ errors' = errors
          /\ published' = published \union RowsAt(temp, path)
          /\ temp' = temp \ RowsAt(temp, path)
          /\ writers' = writers \ {path}
          /\ closing' = closing \ {path}
      BY <3>1 DEF PublishFile, Visit, Visited
    <3>3. ASSUME NEW m \in inflight
          PROVE  \/ errors'
                 \/ <<nextRun, m>> \in published'
                 \/ Staged(m)' /\ <<nextRun, PartitionOf[m]>> \in closing'
      <4>1. PathOf(<<nextRun, m>>) = <<nextRun, PartitionOf[m]>>
        BY DEF PathOf
      <4>2. \/ errors
            \/ <<nextRun, m>> \in published
            \/ Staged(m) /\ <<nextRun, PartitionOf[m]>> \in closing
        BY <2>1, <3>2 DEF FlushInv
      <4> QED
        BY <2>1, <3>2, <4>1, <4>2 DEF Staged, RowsAt
    <3> QED
      BY <2>1, <3>2, <3>3 DEF FlushInv
  <2> QED
    BY <1>5, <2>2, <2>3 DEF PublishSome
<1>6. CASE StoreFault
  BY <1>6 DEF StoreFault, AppendFails, PublishFails, Visit, Visited,
              consumerVars, FlushInv
<1>7. CASE Produce \/ PollEmpty \/ UNCHANGED vars
  BY <1>7, FlushSame DEF Produce, PollEmpty, consumerVars, vars
<1>8. CASE Crash \/ FinalFlushRaises \/ Close
  BY <1>1, <1>8 DEF Crash, FinalFlushRaises, Close, Down
<1>9. CASE Start \/ PollBatch \/ Stop \/ Handle \/ FlushEmpty \/ FlushSucceeds
           \/ FlushRaises \/ Commit \/ CommitFails
  BY <1>9, <1>1 DEF Start, PollBatch, Stop, Handle, FlushEmpty, AfterFlush,
     FlushSucceeds, FlushRaises, Commit, CommitFails
<1> QED
  BY <1>2, <1>3, <1>4, <1>5, <1>6, <1>7, <1>8, <1>9 DEF Next, Progress

\* A key that is in memory, or published, is one of these after a step that
\* keeps both.
LEMMA CoverSame ==
    ASSUME CoverInv, published \subseteq published',
           buffer \union inflight \subseteq buffer' \union inflight',
           UNCHANGED <<origin, position, committed, seen, todo>>,
           pc' # "down" => pc # "down"
    PROVE  CoverInv'
<1>1. \A k : InMemory(k) => InMemory(k)'
  BY DEF InMemory
<1>2. \A k : Published(k) => Published(k)'
  BY DEF Published
<1>3. \A m : Durable(m) => Durable(m)'
  BY DEF Durable
<1> QED
  BY <1>1, <1>2, <1>3 DEF CoverInv

\* No step forgets a polled message or remembers a key it does not owe: every
\* step keeps CoverInv.
LEMMA CoverStep ==
    IInv /\ [Next]_vars => CoverInv'
<1> SUFFICES ASSUME IInv, [Next]_vars PROVE CoverInv'
  OBVIOUS
<1>i. TypeOK /\ ControlInv /\ CoverInv /\ FlushInv /\ FreshInv /\ CommittedIsDurable
  BY DEF IInv
<1>p. published \subseteq published'
  BY <1>i, PublishedStep
<1>d. \A m : Durable(m) => Durable(m)'
  BY <1>p DEF Durable
<1>k. \A k : Published(k) => Published(k)'
  BY <1>p DEF Published
<1>1. CASE Crash \/ FinalFlushRaises \/ Close
  BY <1>1 DEF Crash, FinalFlushRaises, Close, Down, CoverInv
<1>2. CASE Start
  <2>1. seen' = {}
    BY <1>2, <1>i DEF Start, ControlInv
  <2>2. CASE committed = NoOffset
    BY <1>2, <1>i, <2>1, <2>2, StreamAssumption
       DEF Start, StartOffset, TypeOK, CoverInv, NoOffset
  <2>3. CASE committed # NoOffset
    <3>1. origin' = origin /\ position' = committed /\ committed' = committed
      BY <1>2, <2>3 DEF Start, StartOffset
    <3>2. committed \in Int
      BY <1>i, StreamAssumption DEF TypeOK
    <3>3. \A m \in (origin + 1)..committed : Durable(m)'
      BY <1>i, <1>d DEF CommittedIsDurable
    <3> QED
      BY <2>1, <3>1, <3>2, <3>3 DEF CoverInv
  <2> QED
    BY <2>2, <2>3
<1>3. CASE PollBatch
  <2>1. PICK last \in (position + 1)..produced :
           /\ todo' = {m \in (position + 1)..last : Kind[m] # "null"}
           /\ position' = last
    BY <1>3 DEF PollBatch
  <2>2. /\ UNCHANGED <<published, buffer, inflight, origin, committed, seen>>
        /\ pc = "loop" /\ todo = {}
    BY <1>3, <1>i DEF PollBatch, storeVars, auxVars, ControlInv
  <2>3. position \in Nat /\ last \in Nat /\ committed \in Int /\ origin \in Nat
    BY <1>i, <2>1, StreamAssumption DEF TypeOK
  <2>4. ASSUME NEW m \in (origin + 1)..last
        PROVE  m \in todo' \/ Durable(m)' \/ InMemory(Key[m])'
    <3>1. CASE m <= position
      <4>1. m \in (origin + 1)..position
        BY <2>3, <3>1
      <4>2. Durable(m) \/ InMemory(Key[m])
        BY <1>i, <2>2, <4>1 DEF CoverInv
      <4> QED
        BY <1>d, <2>2, <4>2 DEF InMemory
    <3>2. CASE m > position
      <4>1. m \in (position + 1)..last
        BY <2>3, <3>2
      <4> QED
        BY <2>1, <4>1 DEF Durable
    <3> QED
      BY <2>3, <3>1, <3>2
  <2>5. committed' <= position'
    BY <1>i, <2>1, <2>2, <2>3 DEF CoverInv
  <2>6. \A k \in seen' : Published(k)' \/ InMemory(k)'
    BY <1>i, <1>k, <2>2 DEF CoverInv, InMemory
  <2> QED
    BY <2>1, <2>2, <2>4, <2>5, <2>6 DEF CoverInv
<1>4. CASE Handle
  <2>1. PICK m \in todo :
           /\ Reject(m) \/ Duplicate(m) \/ Accept(m)
           /\ todo' = todo \ {m}
    BY <1>4 DEF Handle
  <2>2. /\ UNCHANGED <<published, inflight, origin, committed, position>>
        /\ pc = "handle"
    BY <1>4 DEF Handle, storeVars, auxVars
  <2>3. buffer \subseteq buffer'
    BY <2>1 DEF Reject, Duplicate, Accept
  <2>4. \A k : InMemory(k) => InMemory(k)'
    BY <2>2, <2>3 DEF InMemory
  <2>5. \A k \in seen' : Published(k)' \/ InMemory(k)'
    <3>1. \A k \in seen : Published(k)' \/ InMemory(k)'
      BY <1>i, <1>k, <2>4 DEF CoverInv
    <3>2. \A k \in seen' : k \in seen \/ (k = Key[m] /\ Accept(m))
      BY <2>1 DEF Reject, Duplicate, Accept, Remember
    <3>3. Accept(m) => InMemory(Key[m])'
      BY DEF Accept, InMemory
    <3> QED
      BY <3>1, <3>2, <3>3
  <2>6. Durable(m)' \/ InMemory(Key[m])'
    <3>1. CASE Reject(m)
      BY <3>1 DEF Reject, Durable
    <3>2. CASE Duplicate(m)
      <4>1. Published(Key[m])' \/ InMemory(Key[m])'
        BY <3>2, <2>5 DEF Duplicate
      <4> QED
        BY <4>1 DEF Published, Durable
    <3>3. CASE Accept(m)
      BY <3>3 DEF Accept, InMemory
    <3> QED
      BY <2>1, <3>1, <3>2, <3>3
  <2>7. \A n \in (origin + 1)..position :
            n \in todo' \/ Durable(n)' \/ InMemory(Key[n])'
    BY <1>i, <1>d, <2>1, <2>2, <2>4, <2>6 DEF CoverInv
  <2> QED
    BY <1>i, <2>2, <2>5, <2>7 DEF CoverInv
<1>5. CASE FlushSucceeds
  <2>1. \A m \in inflight : Published(Key[m])
    <3> SUFFICES ASSUME NEW m \in inflight PROVE Published(Key[m])
      OBVIOUS
    <3>1. <<nextRun, m>> \in published
      BY <1>5, <1>i DEF FlushSucceeds, FlushInv
    <3> QED
      BY <3>1 DEF Published
  <2>2. buffer = {} /\ published' = published /\ todo = {} /\ pc # "down"
    BY <1>5, <1>i DEF FlushSucceeds, ControlInv, storeVars
  <2>3. \A k : InMemory(k) => Published(k)'
    BY <1>k, <2>1, <2>2 DEF InMemory
  <2>4. \A m : Published(Key[m])' => Durable(m)'
    BY DEF Published, Durable
  <2>5. UNCHANGED <<origin, position, committed, seen, todo>>
    BY <1>5 DEF FlushSucceeds, auxVars
  <2> QED
    BY <1>i, <1>d, <1>k, <2>2, <2>3, <2>4, <2>5 DEF CoverInv
<1>6. CASE Commit
  <2>1. committed' = position /\ position' = position /\ position \in Int
    BY <1>6, <1>i, StreamAssumption DEF Commit, TypeOK
  <2>2. UNCHANGED <<origin, seen, todo, buffer, inflight>> /\ pc # "down"
    BY <1>6 DEF Commit, auxVars
  <2>3. \A k : InMemory(k) => InMemory(k)'
    BY <2>2 DEF InMemory
  <2> QED
    BY <1>i, <1>d, <1>k, <2>1, <2>2, <2>3 DEF CoverInv
<1>7. CASE FlushBuffer \/ FlushRaises
  <2>1. /\ buffer \union inflight \subseteq buffer' \union inflight'
        /\ UNCHANGED <<origin, position, committed, seen, todo>>
        /\ pc # "down"
    BY <1>7, <1>i DEF FlushBuffer, FlushRaises, auxVars, ControlInv
  <2> QED
    BY <1>i, <1>p, <2>1, CoverSame
<1>8. CASE Produce \/ PollEmpty \/ UNCHANGED vars \/ WriteSome \/ PublishSome
           \/ StoreFault
  <2>1. UNCHANGED <<origin, position, committed, seen, todo, buffer, inflight, pc>>
    BY <1>8 DEF Produce, PollEmpty, vars, WriteSome, PublishSome, StoreFault,
                consumerVars, auxVars
  <2> QED
    BY <1>i, <1>p, <2>1, CoverSame
<1>9. CASE Stop \/ FlushEmpty \/ StoreFlush \/ CommitFails
  <2>1. /\ UNCHANGED <<origin, position, committed, seen, todo, buffer, inflight>>
        /\ pc # "down"
    BY <1>9 DEF Stop, FlushEmpty, StoreFlush, CommitFails, auxVars
  <2> QED
    BY <1>i, <1>p, <2>1, CoverSame
<1> QED
  BY <1>1, <1>2, <1>3, <1>4, <1>5, <1>6, <1>7, <1>8, <1>9 DEF Next, Progress

\* There is no message between a start of the log and "no offset".
LEMMA EmptyRange ==
    ASSUME NEW i \in Nat, NEW j \in Int, j < 0, NEW m \in (i + 1)..j
    PROVE  FALSE
OBVIOUS

\* Offsets are committed only behind durable messages.
LEMMA CommittedStep ==
    IInv /\ [Next]_vars => CommittedIsDurable'
<1> SUFFICES ASSUME IInv, [Next]_vars PROVE CommittedIsDurable'
  OBVIOUS
<1>i. TypeOK /\ ControlInv /\ CoverInv /\ FreshInv /\ CommittedIsDurable
  BY DEF IInv
<1>d. \A m : Durable(m) => Durable(m)'
  BY <1>i, PublishedStep DEF Durable
<1>1. CASE Commit
  <2>1. committed' = position /\ origin' = origin /\ pc = "commit"
    BY <1>1 DEF Commit, auxVars
  <2>2. \A m \in (origin + 1)..position : Durable(m)
    BY <1>i, <2>1 DEF CoverInv, ControlInv, InMemory
  <2> QED
    BY <1>d, <2>1, <2>2 DEF CommittedIsDurable
<1>2. CASE Start
  <2>1. committed' = committed
    BY <1>2 DEF Start
  <2>2. CASE committed = NoOffset
    <3>1. origin' \in Nat /\ committed' \in Int /\ committed' < 0
      BY <1>2, <1>i, <2>1, <2>2, StreamAssumption DEF Start, StartOffset, TypeOK, NoOffset
    <3>2. \A m \in (origin' + 1)..committed' : Durable(m)'
      BY <3>1, EmptyRange
    <3> QED
      BY <3>2 DEF CommittedIsDurable
  <2>3. CASE committed # NoOffset
    BY <1>2, <1>i, <1>d, <2>1, <2>3 DEF Start, CommittedIsDurable
  <2> QED
    BY <2>2, <2>3
<1>3. CASE UNCHANGED <<origin, committed>>
  BY <1>3, <1>i, <1>d DEF CommittedIsDurable
<1> QED
  BY <1>1, <1>2, <1>3 DEF Next, Progress, Produce, Crash, PollBatch, PollEmpty,
     Stop, Handle, FlushEmpty, FlushBuffer, WriteSome, StoreFlush, PublishSome,
     StoreFault, FlushSucceeds, FlushRaises, FinalFlushRaises, CommitFails,
     Close, auxVars, vars

\* The initial state satisfies the inductive invariant.
LEMMA InitIInv == Init => IInv
<1> SUFFICES ASSUME Init PROVE IInv
  OBVIOUS
<1>1. TypeOK
  BY InitTypes
<1>2. ControlInv /\ CoverInv /\ FlushInv /\ FreshInv
  BY DEF Init, StoreInit, NewStore, ControlInv, CoverInv, FlushInv, FreshInv
<1>3. CommittedIsDurable
  BY DEF Init, CommittedIsDurable, NoOffset
<1> QED
  BY <1>1, <1>2, <1>3 DEF IInv

\* The invariant is inductive.
LEMMA NextIInv == IInv /\ [Next]_vars => IInv'
<1> SUFFICES ASSUME IInv, [Next]_vars PROVE IInv'
  OBVIOUS
<1>1. TypeOK /\ ControlInv /\ CoverInv /\ FlushInv /\ FreshInv
  BY DEF IInv
<1>2. TypeOK'
  BY <1>1, NextTypes
<1>3. ControlInv'
  BY <1>1, ControlStep
<1>4. FlushInv'
  BY <1>1, FlushStep
<1>5. FreshInv'
  BY <1>1, FreshStep
<1>6. CoverInv'
  BY CoverStep
<1>7. CommittedIsDurable'
  BY CommittedStep
<1> QED
  BY <1>2, <1>3, <1>4, <1>5, <1>6, <1>7 DEF IInv

\* The invariant holds in every reachable state, for every number of messages,
\* batch size, deduplication bound and number of faults.
THEOREM Inductive == Spec => []IInv
<1>1. Init => IInv
  BY InitIInv
<1>2. IInv /\ [Next]_vars => IInv'
  BY NextIInv
<1> QED
  BY <1>1, <1>2, PTL DEF Spec

\* No loss: whatever crashes, I/O errors and refused commits happen, every
\* message from where the group began up to the committed offset is durable.
THEOREM NoLoss == Spec => []CommittedIsDurable
<1>1. IInv => CommittedIsDurable
  BY DEF IInv
<1> QED
  BY <1>1, Inductive, PTL

\* Rows that readers can see are never taken away by a later flush.
THEOREM PublishedGrowsHolds == Spec => PublishedGrows
<1>1. IInv /\ [Next]_vars => [published \subseteq published']_vars
  BY PublishedStep DEF IInv
<1> QED
  BY <1>1, Inductive, PTL DEF Spec, PublishedGrows

\* Replays never move the committed offset back.
THEOREM CommitMonotoneHolds == Spec => CommitMonotone
<1>1. IInv /\ [Next]_vars => [committed' >= committed]_vars
  <2> SUFFICES ASSUME IInv, Next PROVE committed' >= committed
    OBVIOUS
  <2>0. committed \in Int /\ position \in Int
    BY StreamAssumption DEF IInv, TypeOK
  <2>1. CASE Commit
    BY <2>0, <2>1 DEF Commit, IInv, CoverInv
  <2>2. CASE committed' = committed
    BY <2>0, <2>2
  <2> QED
    BY <2>1, <2>2 DEF Next, Progress, Produce, Start, Crash, PollBatch,
       PollEmpty, Stop, Handle, FlushEmpty, FlushBuffer, WriteSome, StoreFlush,
       PublishSome, StoreFault, FlushSucceeds, FlushRaises, FinalFlushRaises,
       CommitFails, Close, vars
<1> QED
  BY <1>1, Inductive, PTL DEF Spec, CommitMonotone

-----------------------------------------------------------------------------
(* The counters *)

\* No step buffers a message that is still to be handled.
LEMMA BufferedOnceStep == IInv /\ BufferedOnce /\ [Next]_vars => BufferedOnce'
<1> SUFFICES ASSUME IInv, BufferedOnce, [Next]_vars PROVE BufferedOnce'
  OBVIOUS
<1>1. CASE Handle
  BY <1>1 DEF Handle, Reject, Duplicate, Accept, BufferedOnce
<1>2. CASE PollBatch
  BY <1>2 DEF PollBatch, BufferedOnce, IInv, ControlInv
<1>3. CASE FlushBuffer
  BY <1>3 DEF FlushBuffer, BufferedOnce
<1>4. CASE FlushRaises
  BY <1>4 DEF FlushRaises, BufferedOnce, IInv, ControlInv
<1>5. CASE Crash \/ FinalFlushRaises \/ Close
  BY <1>5 DEF Crash, FinalFlushRaises, Close, Down, BufferedOnce
<1>6. CASE UNCHANGED <<buffer, todo>>
  BY <1>6 DEF BufferedOnce
<1> QED
  BY <1>1, <1>2, <1>3, <1>4, <1>5, <1>6 DEF Next, Progress, Produce, Start, PollEmpty,
     Stop, FlushEmpty, WriteSome, StoreFlush, PublishSome, StoreFault, FlushSucceeds,
     Commit, CommitFails, consumerVars, vars

\* Adding a message that is not there yet adds one to the size of the buffer.
LEMMA AddMessage ==
    ASSUME NEW S \in SUBSET (1..N), NEW m, m \notin S
    PROVE  Cardinality(S \union {m}) = Cardinality(S) + 1
<1>1. IsFiniteSet(1..N)
  BY FS_Interval, StreamAssumption
<1>2. IsFiniteSet(S)
  BY <1>1, FS_Subset
<1> QED
  BY <1>2, FS_AddElement

\* Every step moves a message from one count to another.
LEMMA StatsStep == IInv /\ BufferedOnce /\ StatsAddUp /\ [Next]_vars => StatsAddUp'
<1> SUFFICES ASSUME IInv, BufferedOnce, StatsAddUp, [Next]_vars PROVE StatsAddUp'
  OBVIOUS
<1>0. /\ stats \in StreamStats /\ TypeOK /\ ControlInv
      /\ Cardinality(buffer) \in Nat /\ Cardinality(inflight) \in Nat
      /\ buffer \in SUBSET (1..N)
  BY MessageSetSize DEF IInv, TypeOK
<1>n. /\ stats.messages \in Nat /\ stats.rejected \in Nat
      /\ stats.duplicates \in Nat /\ stats.written \in Nat
  BY <1>0 DEF StreamStats
<1>e. Cardinality({}) = 0
  BY FS_EmptySet
<1>1. CASE Handle
  <2>1. PICK m \in todo : Reject(m) \/ Duplicate(m) \/ Accept(m)
    BY <1>1 DEF Handle
  <2>2. inflight' = inflight
    BY <1>1 DEF Handle
  <2>3. CASE Reject(m)
    <3>1. /\ buffer' = buffer /\ stats'.messages = stats.messages + 1
          /\ stats'.rejected = stats.rejected + 1
          /\ stats'.duplicates = stats.duplicates /\ stats'.written = stats.written
      BY <1>0, <2>3 DEF Reject, StreamStats
    <3> QED
      BY <1>0, <1>n, <2>2, <3>1 DEF StatsAddUp
  <2>4. CASE Duplicate(m)
    <3>1. /\ buffer' = buffer /\ stats'.messages = stats.messages + 1
          /\ stats'.duplicates = stats.duplicates + 1
          /\ stats'.rejected = stats.rejected /\ stats'.written = stats.written
      BY <1>0, <2>4 DEF Duplicate, StreamStats
    <3> QED
      BY <1>0, <1>n, <2>2, <3>1 DEF StatsAddUp
  <2>5. CASE Accept(m)
    <3>1. /\ buffer' = buffer \union {m} /\ stats'.messages = stats.messages + 1
          /\ stats'.rejected = stats.rejected
          /\ stats'.duplicates = stats.duplicates /\ stats'.written = stats.written
      BY <1>0, <2>5 DEF Accept, StreamStats
    <3>2. m \notin buffer
      BY <2>1 DEF BufferedOnce
    <3>3. Cardinality(buffer') = Cardinality(buffer) + 1
      BY <1>0, <3>1, <3>2, AddMessage
    <3> QED
      BY <1>0, <1>n, <2>2, <3>1, <3>3 DEF StatsAddUp
  <2> QED
    BY <2>1, <2>3, <2>4, <2>5
<1>2. CASE FlushBuffer
  <2>1. stats' = stats /\ inflight' = buffer /\ buffer' = {} /\ inflight = {}
    BY <1>0, <1>2 DEF FlushBuffer, ControlInv
  <2> QED
    BY <1>0, <1>n, <1>e, <2>1 DEF StatsAddUp
<1>3. CASE FlushSucceeds
  <2>1. /\ stats'.messages = stats.messages /\ stats'.rejected = stats.rejected
        /\ stats'.duplicates = stats.duplicates
        /\ stats'.written = stats.written + Cardinality(inflight)
        /\ inflight' = {} /\ buffer' = buffer
    BY <1>0, <1>3 DEF FlushSucceeds, StreamStats
  <2> QED
    BY <1>0, <1>n, <1>e, <2>1 DEF StatsAddUp
<1>4. CASE FlushRaises
  <2>1. stats' = stats /\ buffer = {} /\ inflight' = {} /\ buffer' = inflight
    BY <1>0, <1>4 DEF FlushRaises, ControlInv
  <2> QED
    BY <1>0, <1>n, <1>e, <2>1 DEF StatsAddUp
<1>5. CASE Crash \/ FinalFlushRaises \/ Close
  <2>1. stats' = NoStats /\ buffer' = {} /\ inflight' = {}
    BY <1>5 DEF Crash, FinalFlushRaises, Close, Down
  <2> QED
    BY <1>e, <2>1 DEF StatsAddUp, NoStats
<1>6. CASE UNCHANGED <<stats, buffer, inflight>>
  BY <1>6 DEF StatsAddUp
<1> QED
  BY <1>1, <1>2, <1>3, <1>4, <1>5, <1>6 DEF Next, Progress, Produce, Start, PollBatch,
     PollEmpty, Stop, FlushEmpty, WriteSome, StoreFlush, PublishSome, StoreFault,
     Commit, CommitFails, consumerVars, vars

\* Through crashes, failed flushes and repeated ones, every message a process has
\* handled is counted in exactly one place.
THEOREM StatsAddUpHolds == Spec => []StatsAddUp
<1>1. Init => BufferedOnce /\ StatsAddUp
  BY FS_EmptySet DEF Init, NoStats, BufferedOnce, StatsAddUp
<1>2. IInv /\ BufferedOnce /\ StatsAddUp /\ [Next]_vars => BufferedOnce' /\ StatsAddUp'
  BY BufferedOnceStep, StatsStep
<1> QED
  BY <1>1, <1>2, Inductive, PTL DEF Spec

-----------------------------------------------------------------------------
(* Refinement *)

\* Initial states of the loop are initial states of AtLeastOnce.
LEMMA RefineInit == Init => Delivery!Init
BY DEF Init, Delivery!Init, NoOffset, Delivery!NoOffset

\* Every step of the loop is a step of AtLeastOnce, or leaves it unchanged.
LEMMA RefineStep ==
    IInv /\ [Next]_vars
        => [Delivery!Next]_<<origin, committed, {m \in 1..N : Durable(m)}>>
<1> DEFINE settled == {m \in 1..N : Durable(m)}
<1> SUFFICES ASSUME IInv, [Next]_vars
             PROVE  [Delivery!Next]_<<origin, committed, settled>>
  OBVIOUS
<1>i. TypeOK /\ ControlInv /\ CoverInv /\ FreshInv
  BY DEF IInv
<1>p. published \subseteq published'
  BY <1>i, PublishedStep
<1>s. settled \subseteq settled' /\ settled' \in SUBSET (1..N)
  BY <1>p DEF Durable
<1>1. CASE Start
  <2>1. settled' = settled /\ committed' = committed
    BY <1>1 DEF Start, storeVars, Durable
  <2>2. CASE committed = NoOffset
    <3>1. origin' \in 0..N
      BY <1>1, <1>i, <2>2 DEF Start, StartOffset, TypeOK
    <3>2. Delivery!Subscribe
      BY <2>1, <2>2, <3>1 DEF Delivery!Subscribe, Delivery!NoOffset, NoOffset
    <3> QED
      BY <3>2 DEF Delivery!Next
  <2>3. CASE committed # NoOffset
    BY <1>1, <2>1, <2>3 DEF Start
  <2> QED
    BY <2>2, <2>3
<1>2. CASE Commit
  <2>1. /\ committed' = position /\ origin' = origin /\ published' = published
        /\ pc = "commit"
    BY <1>2 DEF Commit, auxVars, storeVars
  <2>2. settled' = settled
    BY <2>1 DEF Durable
  <2>3. position \in 0..N /\ origin \in 0..N /\ N \in Nat
    BY <1>i, StreamAssumption DEF TypeOK
  <2>4. \A m \in (origin + 1)..position : m \in 1..N /\ Durable(m)
    BY <1>i, <2>1, <2>3 DEF CoverInv, ControlInv, InMemory
  <2>5. committed' >= committed
    BY <1>i, <2>1, <2>3 DEF CoverInv, TypeOK
  <2>6. Delivery!Acknowledge
    BY <2>1, <2>2, <2>3, <2>4, <2>5 DEF Delivery!Acknowledge
  <2> QED
    BY <2>6 DEF Delivery!Next
<1>3. CASE UNCHANGED <<origin, committed>>
  <2>1. Delivery!Persist
    BY <1>3, <1>s DEF Delivery!Persist
  <2> QED
    BY <2>1 DEF Delivery!Next
<1> QED
  BY <1>1, <1>2, <1>3 DEF Next, Progress, Produce, Crash, PollBatch, PollEmpty,
     Stop, Handle, FlushEmpty, FlushBuffer, WriteSome, StoreFlush, PublishSome,
     StoreFault, FlushSucceeds, FlushRaises, FinalFlushRaises, CommitFails,
     Close, auxVars, vars

\* The consume loop implements at-least-once delivery.
THEOREM Refinement == Spec => Implements
<1>1. Init => Delivery!Init
  BY RefineInit
<1>2. IInv /\ [Next]_vars
          => [Delivery!Next]_<<origin, committed, {m \in 1..N : Durable(m)}>>
  BY RefineStep
<1> QED
  BY <1>1, <1>2, Inductive, PTL DEF Spec, Implements, Delivery!Spec
=============================================================================
