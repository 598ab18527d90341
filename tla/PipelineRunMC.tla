--------------------------- MODULE PipelineRunMC ---------------------------
(* Small instances of PipelineRun: every source of N lines over two keys   *)
(* and two partitions.                                                     *)
EXTENDS PipelineRun

MCRecords == 1..N
MCRuns == 1..MaxRuns
MCPartitionOf == [l \in 1..N |-> IF l % 2 = 1 THEN "day1" ELSE "day2"]
=============================================================================
