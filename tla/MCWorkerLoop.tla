---------------------------- MODULE MCWorkerLoop ----------------------------
(***************************************************************************)
(* Small instances of WorkerLoop.  The loop stops for good after a signal, *)
(* so the configurations switch deadlock off.                              *)
(***************************************************************************)
EXTENDS WorkerLoop

=============================================================================
