----------------------------- MODULE StoreClient -----------------------------
(***************************************************************************)
(* ParquetStore under an arbitrary caller: any sequence of write and flush *)
(* calls, I/O errors at every step that can raise, and crashes.  A run id  *)
(* may be new for every batch, which is what the platform's own callers    *)
(* do, or may be used again, which the store's interface allows.           *)
(***************************************************************************)
EXTENDS ParquetStore

CONSTANTS
    MaxWritten,   \* bound on records_written of one store instance
    MaxFaults     \* bound on I/O errors and crashes

ASSUME ClientAssumption ==
    /\ MaxWritten \in Nat
    /\ MaxFaults \in Nat

VARIABLES
    faults,       \* I/O errors and crashes so far
    wrote,        \* auxiliary: rows whose write returned, not flushed since
    acked         \* auxiliary: rows whose write and flush both returned,
                  \* under run ids that no later write has used again

auxVars == <<wrote, acked>>
vars == <<storeVars, faults, auxVars>>

Init ==
    /\ StoreInit
    /\ faults = 0
    /\ wrote = {}
    /\ acked = {}

Write(events, r) ==
    /\ recordsWritten + Cardinality(events) <= MaxWritten
    /\ WriteBatch(events, r)
    /\ acked' = {row \in acked : row[1] # r}
    /\ UNCHANGED <<faults, wrote>>

Append(p) == AppendPartition(p) /\ UNCHANGED <<faults, auxVars>>

WriteOK ==
    /\ WriteReturns
    /\ wrote' = wrote \union ({run} \X batch)
    /\ UNCHANGED <<faults, acked>>

Flush == FlushStart /\ UNCHANGED <<faults, auxVars>>

Publish(path) == PublishStep(path) /\ UNCHANGED <<faults, auxVars>>

FlushEnds ==
    /\ FlushReturns
    /\ acked' = IF errors THEN acked ELSE acked \union wrote
    /\ wrote' = {}
    /\ UNCHANGED faults

Fault ==
    /\ faults < MaxFaults
    /\ faults' = faults + 1
    /\ \/ /\ \E p \in Partitions : AppendFails(p)
          /\ UNCHANGED wrote
       \/ /\ \E path \in closing : PublishFails(path)
          /\ UNCHANGED wrote
       \/ /\ StoreCrash
          /\ wrote' = {}
    /\ UNCHANGED acked

Next ==
    \/ \E events \in SUBSET Records \ {{}}, r \in Runs : Write(events, r)
    \/ \E p \in Partitions : Append(p)
    \/ WriteOK
    \/ Flush
    \/ \E path \in closing : Publish(path)
    \/ FlushEnds
    \/ Fault

Spec == Init /\ [][Next]_vars

-----------------------------------------------------------------------------
(* Properties *)

\* When write() and the next flush() have returned, every row of that write is
\* visible to readers, and it stays visible until its run id is used again:
\* through failed appends that left their writer open, failed publications of
\* other files, and the orphaned temporary files of a crashed process.
AckedVisible == acked \subseteq published
=============================================================================
