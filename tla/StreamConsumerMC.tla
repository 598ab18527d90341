--------------------------- MODULE StreamConsumerMC ---------------------------
(* Small instances of StreamConsumer: a tombstone, a malformed message and  *)
(* two messages with the same content, over two partitions.                 *)
EXTENDS StreamConsumer

MCKind == [m \in 1..N |-> CASE m = 1 -> "bad" [] m = 2 -> "null" [] OTHER -> "ok"]
MCKey == [m \in 1..N |-> IF m \in {3, 5} THEN "a" ELSE "b"]
MCPartitionOf == [m \in 1..N |-> IF m = 3 THEN "day1" ELSE "day2"]
MCRecords == 1..N
MCRuns == Nat
=============================================================================
