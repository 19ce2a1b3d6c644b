---------------------------- MODULE MCReliableQueue ----------------------------
(* Small instances of ReliableQueue.                                       *)
EXTENDS ReliableQueue, TLC

CONSTANTS j1, j2, w1, w2, op, e1

OneJob == {j1}
TwoJobs == {j1, j2}
OneWorker == {w1}
TwoWorkers == {w1, w2}
OneOperator == {op}
OneError == {e1}
WorkerSymmetry == Permutations(TwoWorkers)
QueueSymmetry == Permutations(TwoJobs) \union Permutations(TwoWorkers)
JobSymmetry == Permutations(TwoJobs)
AnyIncident == {"crash", "stop", "redis"}

================================================================================
