-------------------------- MODULE CompactionProofs --------------------------
(***************************************************************************)
(* Machine-checked proofs about Compaction: what compact jobs that come    *)
(* one after the other keep, for every set of writes, any number of jobs   *)
(* and any number of faults.                                               *)
(***************************************************************************)
EXTENDS Compaction, TLAPS

-----------------------------------------------------------------------------
(* Type correctness *)

\* The initial state is well typed.
LEMMA InitTypes == Init => TypeOK
  BY MaxFaultsAssumption DEF Init, TypeOK

\* Every step keeps the types, however many compact jobs there are.
LEMMA StepTypes == TypeOK /\ [Next]_vars => TypeOK'
<1> SUFFICES ASSUME TypeOK, [Next]_vars PROVE TypeOK'
  OBVIOUS
<1> USE NamesAssumption, MaxFaultsAssumption DEF TypeOK, FileNames, Mishaps
<1>1. ASSUME NEW r \in Runs, Publish(r) PROVE TypeOK'
  BY <1>1 DEF Publish, With
<1>2. ASSUME NEW c \in Compactors, ListFiles(c) PROVE TypeOK'
  BY <1>2 DEF ListFiles, Glob, Overlap
<1>3. ASSUME NEW c \in Compactors, ReadTable(c) PROVE TypeOK'
  <2>1. RowsIn(inputs[c]) \subseteq Runs
    BY <1>3 DEF ReadTable, RowsIn
  <2> QED
    BY <1>3, <2>1 DEF ReadTable
<1>4. ASSUME NEW c \in Compactors, WriteTable(c) PROVE TypeOK'
  BY <1>4 DEF WriteTable, With
<1>5. ASSUME NEW c \in Compactors, Unlink(c) PROVE TypeOK'
  BY <1>5 DEF Unlink
<1>6. ASSUME NEW c \in Compactors, Rename(c) PROVE TypeOK'
  BY <1>6 DEF Rename, Ends, Glob
<1>7. ASSUME NEW c \in Compactors, FileNotFound(c) PROVE TypeOK'
  BY <1>7 DEF FileNotFound, Ends
<1>8. ASSUME NEW c \in Compactors, Fault(c) PROVE TypeOK'
  <2>1. faults' \in 0..MaxFaults
    BY <1>8 DEF Fault
  <2>2. CASE UNCHANGED files
    BY <1>8, <2>1, <2>2 DEF Fault, Ends
  <2>3. CASE files' = With(Tmp, {})
    BY <1>8, <2>1, <2>3 DEF Fault, Ends, With
  <2> QED
    BY <1>8, <2>2, <2>3 DEF Fault
<1>9. CASE UNCHANGED vars
  BY <1>9 DEF vars
<1> QED
  BY <1>1, <1>2, <1>3, <1>4, <1>5, <1>6, <1>7, <1>8, <1>9 DEF Next, Step

\* Every variable of the compact job keeps its type, for any number of jobs.
THEOREM TypeCorrect == Spec => []TypeOK
  BY InitTypes, StepTypes, PTL DEF Spec

-----------------------------------------------------------------------------
(* No row is visible twice *)

\* The initial state satisfies the inductive invariant.
LEMMA InitInductive == Init => IInv
<1> SUFFICES ASSUME Init PROVE IInv
  OBVIOUS
<1>1. TypeOK
  BY InitTypes
<1>2. Glob = {}
  BY DEF Init, Glob
<1> QED
  BY <1>1, <1>2 DEF Init, IInv, Single, Disjoint, FilesInv, JobInv

\* A step of compact job c that does not make two jobs overlap: no other job is
\* at work, before the step or after it.
LEMMA StepAlone ==
    ASSUME IInv, "overlap" \notin mishaps', NEW c \in Compactors, Step(c)
    PROVE  /\ "overlap" \notin mishaps
           /\ \A d \in Compactors \ {c} : pc[d] = "idle" /\ pc'[d] = "idle"
<1>1. "overlap" \notin mishaps
  BY DEF Step, ListFiles, ReadTable, WriteTable, Unlink, Rename, FileNotFound,
         Fault
<1>2. CASE pc[c] = "idle"
  <2>1. ListFiles(c)
    BY <1>2 DEF Step, ReadTable, WriteTable, Unlink, Rename, FileNotFound, Fault
  <2> QED
    BY <1>1, <2>1 DEF ListFiles, Overlap, IInv, TypeOK
<1>3. CASE pc[c] # "idle"
  <2>1. \A d \in Compactors \ {c} : pc[d] = "idle"
    BY <1>1, <1>3 DEF IInv, Single
  <2>2. \A d \in Compactors \ {c} : pc'[d] = pc[d]
    BY DEF IInv, TypeOK, Step, ListFiles, ReadTable, WriteTable, Unlink, Rename,
           FileNotFound, Fault, Ends
  <2> QED
    BY <1>1, <2>1, <2>2
<1> QED
  BY <1>2, <1>3

\* A step that does not make two jobs overlap keeps the invariant.
LEMMA StepInductive ==
    ASSUME IInv, [Next]_vars
    PROVE  IInv'
<1>0. TypeOK /\ TypeOK'
  BY StepTypes DEF IInv
<1> DEFINE Solo == Single /\ Disjoint /\ FilesInv
                   /\ \A c \in Compactors : JobInv(c)
<1> SUFFICES ASSUME "overlap" \notin mishaps' PROVE Solo'
  BY <1>0 DEF IInv
<1> USE NamesAssumption DEF Disjoint, FilesInv, Glob
<1>1. ASSUME NEW r \in Runs, Publish(r) PROVE Solo'
  <2>0. Solo
    BY <1>1 DEF Publish, IInv
  <2>1. r \notin published /\ r # Tmp /\ r # Compacted /\ r \notin DOMAIN files
    BY <1>1, <2>0 DEF Publish
  <2>2. /\ DOMAIN files' = DOMAIN files \union {r}
        /\ \A f \in DOMAIN files : files'[f] = files[f]
        /\ files'[r] = {r}
        /\ published' = published \union {r}
    BY <1>1, <2>1 DEF Publish, With
  <2>3. Single' /\ Disjoint' /\ FilesInv'
    <3>1. pc' = pc
      BY <1>1 DEF Publish
    <3>2. \A f \in Glob : r \notin files[f]
      BY <2>0, <2>1
    <3>3. Single'
      BY <2>0, <3>1 DEF Single
    <3>4. Disjoint'
      BY <2>0, <2>1, <2>2, <3>2
    <3>5. FilesInv'
      BY <2>0, <2>1, <2>2
    <3> QED
      BY <3>3, <3>4, <3>5
  <2>4. ASSUME NEW c \in Compactors PROVE JobInv(c)'
    <3>1. /\ pc'[c] = pc[c]
          /\ inputs'[c] = inputs[c]
          /\ table'[c] = table[c]
      BY <1>1 DEF Publish
    <3>0. JobInv(c)
      BY <2>0
    <3>2. CASE pc[c] \in {"idle", "read"}
      BY <2>1, <2>2, <3>0, <3>1, <3>2 DEF JobInv
    <3>3. CASE pc[c] = "write"
      <4>1. \A row \in table[c] : Holds(inputs[c], row)'
        BY <2>2, <3>0, <3>1, <3>3 DEF JobInv, Holds
      <4> QED
        BY <2>1, <2>2, <3>0, <3>1, <3>3, <4>1 DEF JobInv
    <3>4. CASE pc[c] = "unlink"
      BY <2>1, <2>2, <3>0, <3>1, <3>4 DEF JobInv
    <3> QED
      BY <1>0, <3>2, <3>3, <3>4 DEF TypeOK
  <2> QED
    BY <2>3, <2>4
<1>2. ASSUME NEW c \in Compactors, Step(c) PROVE Solo'
  <2>0. /\ Single /\ Disjoint /\ FilesInv /\ JobInv(c)
        /\ \A d \in Compactors \ {c} : pc'[d] = "idle"
    BY <1>2, StepAlone DEF IInv
  <2>1. Single'
    BY <2>0 DEF Single
  <2>2. \A d \in Compactors \ {c} : JobInv(d)'
    BY <2>0 DEF JobInv
  <2> SUFFICES Disjoint' /\ FilesInv' /\ JobInv(c)'
    BY <2>1, <2>2
  <2>3. CASE ListFiles(c)
    BY <1>0, <2>0, <2>3 DEF ListFiles, TypeOK, JobInv
  <2>4. CASE ReadTable(c)
    <3>1. /\ pc'[c] = "write"
          /\ UNCHANGED <<files, inputs, published>>
          /\ table'[c] = RowsIn(inputs[c])
          /\ pc[c] = "read"
      BY <1>0, <2>4 DEF ReadTable, TypeOK
    <3>2. \A row \in table'[c] : Holds(inputs[c], row)'
      BY <3>1 DEF RowsIn, Holds
    <3>3. \A f \in inputs[c] : files[f] \subseteq table'[c]
      BY <3>1 DEF RowsIn
    <3> QED
      BY <2>0, <3>1, <3>2, <3>3 DEF JobInv
  <2>5. CASE WriteTable(c)
    <3>1. /\ pc[c] = "write" /\ pc'[c] = "unlink"
          /\ UNCHANGED <<inputs, table, published>>
          /\ DOMAIN files' = DOMAIN files \union {Tmp}
          /\ \A f \in Glob : files'[f] = files[f]
          /\ files'[Tmp] = table[c]
      BY <1>0, <2>5 DEF WriteTable, With, TypeOK
    <3>2. Glob' = Glob
      BY <3>1
    <3>3. Disjoint' /\ FilesInv'
      BY <2>0, <3>1, <3>2
    <3>4. table[c] \subseteq published
      BY <2>0, <3>1 DEF JobInv, Holds
    <3>5. \A f \in Glob \ inputs[c] : files[f] \intersect table[c] = {}
      BY <2>0, <3>1 DEF JobInv, Holds
    <3>6. JobInv(c)'
      BY <2>0, <3>1, <3>2, <3>4, <3>5 DEF JobInv
    <3> QED
      BY <3>3, <3>6
  <2>6. CASE Unlink(c)
    BY <1>0, <2>0, <2>6 DEF Unlink, IsNext, TypeOK, JobInv, Holds
  <2>7. CASE Rename(c)
    BY <1>0, <2>0, <2>7 DEF Rename, Ends, TypeOK, JobInv, Holds
  <2>8. CASE FileNotFound(c)
    BY <1>0, <2>0, <2>8 DEF FileNotFound, Ends, TypeOK, JobInv, Holds
  <2>9. CASE Fault(c)
    BY <1>0, <2>0, <2>9 DEF Fault, Ends, With, TypeOK, JobInv, Holds
  <2> QED
    BY <1>2, <2>3, <2>4, <2>5, <2>6, <2>7, <2>8, <2>9 DEF Step
<1>3. CASE UNCHANGED vars
  BY <1>3 DEF vars, IInv, Single, JobInv, Holds
<1> QED
  BY <1>1, <1>2, <1>3 DEF Next

\* Compact jobs that come one after the other keep what they rely on, whatever
\* fails and whenever.
THEOREM Inductive == Spec => []IInv
  BY InitInductive, StepInductive, PTL DEF Spec

\* A query never counts a row twice while compact jobs that come one after the
\* other merge the partition, fail, crash and are retried.
THEOREM NoRowTwiceHolds == Spec => []NoRowTwice
<1>1. IInv => NoRowTwice
  BY DEF IInv, NoRowTwice
<1> QED
  BY <1>1, Inductive, PTL

-----------------------------------------------------------------------------
(* No row is lost before a mishap *)

\* Until a mishap, every step keeps the rows in reach.
LEMMA StepRows ==
    ASSUME IInv, RowsInv, [Next]_vars
    PROVE  RowsInv'
<1> SUFFICES ASSUME mishaps' = {} PROVE RowsInv'
  BY DEF RowsInv
<1>0. TypeOK /\ TypeOK'
  BY StepTypes DEF IInv
<1> USE NamesAssumption DEF RowsInv, Holds, Glob
<1>1. ASSUME NEW r \in Runs, Publish(r) PROVE RowsInv'
  <2>0. mishaps = {}
    BY <1>1 DEF Publish
  <2>1. /\ DOMAIN files' = DOMAIN files \union {r}
        /\ \A f \in DOMAIN files : f # r => files'[f] = files[f]
        /\ files'[r] = {r}
        /\ r # Tmp
    BY <1>1 DEF Publish, With
  <2>2. r \notin DOMAIN files
    BY <1>1, <2>0 DEF Publish, IInv, FilesInv
  <2>3. published' = published \union {r} /\ pc' = pc /\ table' = table
    BY <1>1 DEF Publish
  <2> SUFFICES ASSUME NEW row \in published \union {r}
               PROVE  \/ Holds(Glob, row)'
                      \/ \E c \in Compactors : pc[c] = "unlink" /\ row \in table[c]
    BY <2>3
  <2>4. CASE row = r
    BY <2>1, <2>4
  <2>5. CASE row \in published
    <3>1. CASE Holds(Glob, row)
      BY <2>1, <2>2, <3>1
    <3>2. CASE ~Holds(Glob, row)
      BY <2>0, <2>5, <3>2
    <3> QED
      BY <3>1, <3>2
  <2> QED
    BY <2>4, <2>5
<1>2. ASSUME NEW c \in Compactors, Step(c) PROVE RowsInv'
  <2>0. /\ mishaps = {}
        /\ JobInv(c)
        /\ \A d \in Compactors \ {c} : pc[d] = "idle"
    <3>1. mishaps = {}
      BY <1>2 DEF Step, ListFiles, ReadTable, WriteTable, Unlink, Rename,
                  FileNotFound, Fault
    <3> QED
      BY <1>2, <3>1, StepAlone DEF IInv
  <2>1. CASE ListFiles(c)
    BY <1>0, <2>0, <2>1 DEF ListFiles, TypeOK
  <2>2. CASE ReadTable(c)
    BY <1>0, <2>0, <2>2 DEF ReadTable, TypeOK
  <2>3. CASE WriteTable(c)
    BY <1>0, <2>0, <2>3 DEF WriteTable, With, TypeOK
  <2>4. CASE Unlink(c)
    <3>1. PICK f \in DOMAIN files :
            /\ f \in inputs[c]
            /\ files' = [g \in DOMAIN files \ {f} |-> files[g]]
      BY <2>4 DEF Unlink, IsNext
    <3>2. pc[c] = "unlink" /\ UNCHANGED <<pc, table, published>>
      BY <2>4 DEF Unlink
    <3>3. files[f] \subseteq table[c]
      BY <2>0, <3>1, <3>2 DEF JobInv
    <3> QED
      BY <2>0, <3>1, <3>2, <3>3
  <2>5. CASE Rename(c)
    BY <1>0, <2>0, <2>5 DEF Rename, Ends, TypeOK, JobInv
  <2>6. CASE FileNotFound(c)
    BY <1>0, <2>0, <2>6 DEF FileNotFound, Ends, TypeOK, JobInv
  <2>7. CASE Fault(c)
    <3>1. pc[c] # "unlink" /\ published' = published
      BY <2>7 DEF Fault
    <3>2. \A row \in published : Holds(Glob, row)
      BY <2>0, <3>1
    <3>3. Glob' = Glob /\ \A f \in Glob : files'[f] = files[f]
      BY <2>7 DEF Fault, With
    <3> QED
      BY <3>1, <3>2, <3>3
  <2> QED
    BY <1>2, <2>1, <2>2, <2>3, <2>4, <2>5, <2>6, <2>7 DEF Step
<1>3. CASE UNCHANGED vars
  BY <1>3 DEF vars
<1> QED
  BY <1>1, <1>2, <1>3 DEF Next

\* Until a mishap, every row that was published stays in reach.
LEMMA RowsInductive == Spec => []RowsInv
<1>1. Init => RowsInv
  BY DEF Init, RowsInv
<1>2. IInv /\ RowsInv /\ [Next]_vars => RowsInv'
  BY StepRows
<1> QED
  BY <1>1, <1>2, Inductive, PTL DEF Spec

\* As long as compact jobs come one after the other and none fails while it
\* unlinks, no query issued between two jobs misses a row that was published.
THEOREM RowsKeptHolds == Spec => []RowsKept
<1>1. RowsInv => RowsKept
  BY DEF RowsInv, RowsKept, Visible, RowsIn, Holds
<1> QED
  BY <1>1, RowsInductive, PTL

\* Under the same conditions every published row is on disk at every moment,
\* in a visible file or in the hidden one.
THEOREM RowsOnDiskHolds == Spec => []RowsOnDisk
<1>1. IInv /\ RowsInv => RowsOnDisk
  BY DEF IInv, JobInv, RowsInv, RowsOnDisk, RowsIn, Holds, Glob
<1> QED
  BY <1>1, Inductive, RowsInductive, PTL
=============================================================================
