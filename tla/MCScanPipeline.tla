--------------------------- MODULE MCScanPipeline ---------------------------
(* Safety of ScanPipeline.  The workers of a queue are interchangeable: a    *)
(* state names them only in the domains of fast and slow.                    *)
EXTENDS ScanPipeline, TLC

WorkerSymmetry == Permutations(FastWorker) \cup Permutations(SlowWorker)
=============================================================================
