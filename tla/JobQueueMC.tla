----------------------------- MODULE JobQueueMC -----------------------------
(* Small instances of JobQueue: job 1 may be retried, the others may not.  *)
EXTENDS JobQueue

MCMaxRetries == [j \in Jobs |-> IF j = 1 THEN 1 ELSE 0]
=============================================================================
