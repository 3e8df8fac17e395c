---------------------------- MODULE MCWorkerSlots ----------------------------
(* WorkerSlots for TLC. *)
EXTENDS WorkerSlots
=============================================================================
