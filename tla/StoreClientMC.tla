---------------------------- MODULE StoreClientMC ----------------------------
(* Small instances of StoreClient: three records in two partitions.        *)
EXTENDS StoreClient

MCPartitionOf == [m \in Records |-> IF m = 1 THEN "day1" ELSE "day2"]
=============================================================================
