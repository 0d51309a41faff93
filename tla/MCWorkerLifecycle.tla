------------------------ MODULE MCWorkerLifecycle ------------------------
(* Small instances of WorkerLifecycle for TLC. *)
EXTENDS WorkerLifecycle, TLC

CONSTANTS b1, b2, b3, none

BufferPerms == Permutations(Buffer)
=============================================================================
