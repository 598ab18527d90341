---------------------------- MODULE CompactionMC ----------------------------
(* The instances of Compaction that TLC checks: file names are the numbers *)
(* 0 to 5, with the hidden file and the merged one among them.             *)
EXTENDS Compaction
=============================================================================
