----------------------------- MODULE MCWorkerJobs -----------------------------
(* Small instances of WorkerJobs: two jobs, one group to backfill. *)
EXTENDS WorkerJobs, TLC

CONSTANTS j1, j2

TwoJobs == {j1, j2}
AllKinds == {"scan", "scanGroup", "backfill", "backfillGroup", "postprocess"}
JobSymmetry == Permutations(Jobs)
===============================================================================
