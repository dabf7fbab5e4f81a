---------------------------- MODULE MCHarnessWorker ----------------------------
(***************************************************************************)
(* Instances of HarnessWorker for TLC: two jobs, so that the hand-over     *)
(* from one claim to the next happens, and one operator request at a time. *)
(***************************************************************************)
EXTENDS WorkerContract

CONSTANTS j1, j2, o1
================================================================================
