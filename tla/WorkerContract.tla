----------------------------- MODULE WorkerContract -----------------------------
(***************************************************************************)
(* HarnessWorker implements JobContract: the refinement mapping.  A job is *)
(* settled when its file asks for no more attention; what was offered is   *)
(* the one body Tropibot received.                                         *)
(***************************************************************************)
EXTENDS HarnessWorker

Started == {j \in Jobs : runs[j] > 0}
Offered == [j \in Jobs |-> IF sent[j] = {} THEN NoOutcome ELSE CHOOSE b \in sent[j] : TRUE]
Settled == {j \in Jobs : disk[j].status # "absent" /\ ~RequiresWorkerAttention(disk[j])}

Contract == INSTANCE JobContract
    WITH Outcomes <- Bodies, status <- coord, started <- Started, offered <- Offered,
         settled <- Settled

(***************************************************************************)
(* Every step of the harness, its failed saves, restarts and repeated      *)
(* deliveries included, is a step the contract allows or changes nothing   *)
(* in it: a workflow is started once and never after its outcome was       *)
(* offered, one body is offered, and a job let go of stays let go of.      *)
(***************************************************************************)
ImplementsContract == Contract!Spec
================================================================================
