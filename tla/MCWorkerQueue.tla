--------------------------- MODULE MCWorkerQueue ---------------------------
(***************************************************************************)
(* Small instances of WorkerQueue.                                         *)
(***************************************************************************)
EXTENDS WorkerQueue

MCDelays == {0, 1, 2}
MCNoDelay == {0}
=============================================================================
