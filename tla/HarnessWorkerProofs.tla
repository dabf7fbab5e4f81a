-------------------------- MODULE HarnessWorkerProofs --------------------------
(***************************************************************************)
(* Proofs about HarnessWorker, for any jobs, operators, faults and bound   *)
(* on restarts.                                                            *)
(***************************************************************************)
EXTENDS HarnessWorker, TLAPS

--------------------------------------------------------------------------------
(* Records: what the edits of RunRecord return                              *)

\* The empty outcome and record, and a fresh claim, are in their types.
LEMMA ConstantRecordsType ==
    /\ NoRecord \in RunRecords
    /\ Claimed \in RunRecords
    /\ Claimed.pending = NoOutcome /\ Claimed.token
BY DEF NoRecord, Claimed, RunRecords, NoOutcome, Statuses, Plans, Cleanups, Dispositions, Holds

\* Writing one field of a record with a value of its range keeps the type.
LEMMA FieldEditType ==
    ASSUME NEW r \in RunRecords
    PROVE  /\ \A s \in Statuses : [r EXCEPT !.status = s] \in RunRecords
           /\ \A p \in Plans : [r EXCEPT !.plan = p] \in RunRecords
           /\ \A c \in Cleanups : [r EXCEPT !.cleanup = c] \in RunRecords
           /\ [r EXCEPT !.cleanupRequired = TRUE] \in RunRecords
           /\ \A h \in Holds : [r EXCEPT !.hold = h] \in RunRecords
           /\ \A b \in Bodies \cup {NoOutcome} : [r EXCEPT !.pending = b] \in RunRecords
BY DEF RunRecords

\* What prepare_completion serialises is a completion body.
LEMMA CompletionBodyType ==
    ASSUME NEW r \in RunRecords, CanPrepareCompletion(r)
    PROVE  CompletionBody(r) \in Bodies
BY DEF RunRecords, CanPrepareCompletion, CompletionBody, Bodies

\* The compound edits keep the type.
LEMMA CompoundEditType ==
    ASSUME NEW r \in RunRecords
    PROVE  /\ \A f \in BOOLEAN : WithResult(r, f) \in RunRecords
           /\ \A c \in ErrorCodes : WithWorkerError(r, c) \in RunRecords
           /\ WithAcknowledgement(r) \in RunRecords
           /\ WithReleasedClaim(r) \in RunRecords
<1>1. ASSUME NEW f \in BOOLEAN PROVE WithResult(r, f) \in RunRecords
  BY DEF WithResult, RunRecords, Results, Statuses
<1>2. ASSUME NEW c \in ErrorCodes PROVE WithWorkerError(r, c) \in RunRecords
  <2>1. WorkerErrorCleanup(r) \in Cleanups
    BY DEF WorkerErrorCleanup, RunRecords, Cleanups
  <2> QED
    BY <2>1 DEF WithWorkerError, RunRecords, WorkerErrors, Statuses
<1>3. WithAcknowledgement(r) \in RunRecords
  BY DEF WithAcknowledgement, RunRecords, Dispositions, Holds
<1>4. WithReleasedClaim(r) \in RunRecords
  BY DEF WithReleasedClaim, RunRecords, Holds
<1> QED
  BY <1>1, <1>2, <1>3, <1>4

\* So do the edits of the operator.
LEMMA RecoveryEditType ==
    ASSUME NEW r \in RunRecords, NEW a \in RecoveryActions
    PROVE  RecoveryEdit(a, r) \in RunRecords
<1>1. [r EXCEPT !.cleanup = "passed", !.hold = "none"] \in RunRecords
  BY DEF RunRecords, Cleanups, Holds
<1>2. [r EXCEPT !.cleanup = "passed"] \in RunRecords
  BY DEF RunRecords, Cleanups
<1>3. [r EXCEPT !.hold = "none"] \in RunRecords
  BY DEF RunRecords, Holds
<1>4. [r EXCEPT !.hold = "none", !.pending = NoOutcome, !.token = FALSE,
                !.disposition = "operator_accepted"] \in RunRecords
  BY DEF RunRecords, Holds, Dispositions
<1> QED
  BY <1>1, <1>2, <1>3, <1>4 DEF RecoveryEdit, RecoveryActions
--------------------------------------------------------------------------------
(* Type correctness                                                         *)

\* The save of the record in hand keeps the files in their type.
LEMMA SaveType ==
    ASSUME disk \in [Jobs -> RunRecords], job \in Jobs, NEW rec \in RunRecords
    PROVE  /\ Saved(rec) => disk' \in [Jobs -> RunRecords]
           /\ SaveFails(rec) => disk' \in [Jobs -> RunRecords]
BY DEF Saved, SaveFails

\* Where a worker step needs a job, there is one.
JobInHand == pc \in ControllerPcs \cup SettlePcs => job \in Jobs

\* A worker error is only written for a cause that has a code.
CauseKnown ==
    pc = "worker_error" =>
        run.why \in {"exec_error", "interrupted", "unsupported_job", "unexpected_error"}

\* What is sent was prepared.
BodyInHand == pc = "send" => mem.pending \in Bodies

Typed == TypeOK /\ JobInHand /\ CauseKnown /\ BodyInHand

\* The initial state is well typed.
LEMMA InitTyped == ASSUME Init PROVE Typed
<1>1. pc \in ControllerPcs \cup SettlePcs \cup IdlePcs /\ JobInHand
      /\ CauseKnown /\ BodyInHand
  BY DEF Init, JobInHand, CauseKnown, BodyInHand, ControllerPcs, SettlePcs, IdlePcs
<1>2. /\ job \in Jobs \cup {NoJob} /\ mem \in RunRecords /\ notify \in BOOLEAN
      /\ disk \in [Jobs -> RunRecords]
      /\ accepted \in [Jobs -> Bodies \cup {NoOutcome}]
  BY ConstantRecordsType DEF Init
<1>3. run \in RunLocals
  BY DEF Init, NoRun, Whys, RunLocals
<1>4. progress \in ProgressFlags
  BY DEF Init, NoProgress, ProgressFlags
<1>5. op \in [Operators -> Requests]
  BY ConstantRecordsType DEF Init, NoRequest, Requests
<1>6. /\ node \in [Jobs -> {"untouched", "modified", "restored"}]
      /\ coord \in [Jobs -> {"queued", "claimed", "completed", "released"}]
      /\ sent \in [Jobs -> SUBSET Bodies]
  BY DEF Init
<1>7. runs \in [Jobs -> Nat] /\ restarts \in 0 .. MaxRestarts
  BY ConstantsAssumption DEF Init
<1> QED
  BY <1>1, <1>2, <1>3, <1>4, <1>5, <1>6, <1>7 DEF Typed, TypeOK

\* reconcile_target reports a cleanup status and changes the target only.
LEMMA ReconcileType ==
    ASSUME TypeOK, job \in Jobs, NEW next, Reconcile(next)
    PROVE  /\ mem' \in RunRecords /\ pc' = next
           /\ node' \in [Jobs -> {"untouched", "modified", "restored"}]
<1>1. \A c \in Cleanups : [mem EXCEPT !.cleanup = c] \in RunRecords
  BY FieldEditType DEF TypeOK
<1> QED
  BY <1>1 DEF Reconcile, TypeOK, Cleanups

\* Every step keeps the types.
LEMMA ControllerTyped == ASSUME Typed, Controller PROVE Typed'
<1> USE DEF Typed, TypeOK, JobInHand, CauseKnown, BodyInHand, Step, ControllerPcs, SettlePcs, IdlePcs, RunLocals, ProgressFlags
<1>1. CASE StartExecution
  <2> DEFINE rec == [disk[job] EXCEPT !.status = "running"]
  <2>1. rec \in RunRecords
    BY <1>1, FieldEditType DEF StartExecution, Statuses
  <2>2. disk' \in [Jobs -> RunRecords] /\ mem' \in RunRecords
    BY <1>1, <2>1, SaveType DEF StartExecution
  <2>3. runs' \in [Jobs -> Nat]
    BY <1>1 DEF StartExecution
  <2>4. run' \in RunLocals
    BY <1>1 DEF StartExecution
  <2> QED
    BY <1>1, <2>2, <2>3, <2>4 DEF StartExecution, Execution
<1>2. CASE Preflight
  <2> DEFINE rec == [mem EXCEPT !.plan = RightPlan(job)]
  <2>1. rec \in RunRecords
    BY FieldEditType DEF RightPlan, Plans
  <2>2. disk' \in [Jobs -> RunRecords] /\ mem' \in RunRecords
    BY <1>2, <2>1, SaveType DEF Preflight
  <2> QED
    BY <1>2, <2>2 DEF Preflight, Execution, WorkflowFails
<1>3. CASE PrepareBaseline
  BY <1>3, SaveType, FieldEditType DEF PrepareBaseline, AuthorizeCleanup, WorkflowFails, world
<1>4. CASE InstallBaseline
  BY <1>4 DEF InstallBaseline, Mutate, WorkflowFails
<1>5. CASE PrepareCandidate
  BY <1>5, SaveType, FieldEditType DEF PrepareCandidate, AuthorizeCleanup, WorkflowFails, world
<1>6. CASE UpdateCandidate
  BY <1>6 DEF UpdateCandidate, Mutate, WorkflowFails
<1>7. CASE GatherEvidence
  BY <1>7 DEF GatherEvidence, WorkflowFails, world
<1>8. CASE BeginCleanup
  BY <1>8, SaveType, FieldEditType DEF BeginCleanup, Cleanups, world
<1>9. CASE ControllerReconcile
  BY <1>9, ReconcileType DEF ControllerReconcile
<1>10. CASE SaveCleanup
  BY <1>10, SaveType DEF SaveCleanup, ExecutionSave, Execution
<1>11. CASE FinishExecution
  BY <1>11, SaveType, CompoundEditType DEF FinishExecution, ExecutionSave, Execution
<1> QED
  BY <1>1, <1>2, <1>3, <1>4, <1>5, <1>6, <1>7, <1>8, <1>9, <1>10, <1>11 DEF Controller

\* Settling a claim keeps the types.
LEMMA SettlementTyped == ASSUME Typed, Settlement PROVE Typed'
<1> USE DEF Typed, TypeOK, JobInHand, CauseKnown, BodyInHand, Step, ControllerPcs, SettlePcs, IdlePcs, RunLocals, ProgressFlags
<1>1. CASE CreateRecord
  BY <1>1, SaveType DEF CreateRecord, Save, world
<1>2. CASE CheckSupported
  BY <1>2 DEF CheckSupported, Because, Whys, world
<1>3. CASE ReloadRecord
  BY <1>3 DEF ReloadRecord, Because, Whys, world
<1>4. CASE Settle
  BY <1>4 DEF Settle, Because, Whys, world
<1>5. CASE RecoverTarget
  BY <1>5, SaveType DEF RecoverTarget, Save, world
<1>6. CASE RecoverReconcile
  BY <1>6, ReconcileType DEF RecoverReconcile
<1>7. CASE RecoverSave
  BY <1>7, SaveType DEF RecoverSave, Save, world
<1>8. CASE Recovered
  BY <1>8 DEF Recovered, world
<1>9. CASE SetWorkerError
  <2>1. WorkerErrorCode \in ErrorCodes
    BY <1>9 DEF SetWorkerError, WorkerErrorCode, ErrorCodes
  <2>2. WithWorkerError(mem, WorkerErrorCode) \in RunRecords
    BY <2>1, CompoundEditType
  <2> QED
    BY <1>9, <2>2, SaveType DEF SetWorkerError, SaveMem, Save, world
<1>10. CASE ReleaseClaim
  <2>1. WithReleasedClaim(mem) \in RunRecords
    BY CompoundEditType
  <2> QED
    BY <1>10, <2>1, SaveType DEF ReleaseClaim, SaveMem, Save, world
<1>11. CASE MarkHold
  <2> DEFINE rec == [mem EXCEPT !.hold = IF run.why = "completion_conflict"
                                        THEN "completion_conflict" ELSE "cleanup"]
  <2>1. rec \in RunRecords
    BY FieldEditType DEF Holds
  <2> QED
    BY <1>11, <2>1, SaveType DEF MarkHold, SaveMem, Save, world
<1> QED
  BY <1>1, <1>2, <1>3, <1>4, <1>5, <1>6, <1>7, <1>8, <1>9, <1>10, <1>11 DEF Settlement

\* A body kept as pending is a body.
LEMMA PendingBody ==
    ASSUME NEW r \in RunRecords
    PROVE  r.pending # NoOutcome => r.pending \in Bodies
BY DEF RunRecords

\* So does the delivery of a completion.
LEMMA DeliveryTyped == ASSUME Typed, Delivery PROVE Typed'
<1> USE DEF Typed, TypeOK, JobInHand, CauseKnown, BodyInHand, Step, ControllerPcs, SettlePcs, IdlePcs, RunLocals, ProgressFlags
<1>1. CASE PrepareCompletion
  <2> DEFINE rec == [mem EXCEPT !.pending = CompletionBody(mem)]
  <2>1. CASE CanPrepareCompletion(mem) /\ SaveMem(rec, "send", "hold_check")
    <3>1. CompletionBody(mem) \in Bodies
      BY <2>1, CompletionBodyType
    <3>2. rec \in RunRecords /\ rec.pending \in Bodies
      BY <3>1, FieldEditType DEF RunRecords
    <3> QED
      BY <1>1, <2>1, <3>2, SaveType DEF PrepareCompletion, SaveMem, Save, world
  <2>2. CASE /\ UNCHANGED <<mem, disk>>
             /\ \/ pc' = "send" /\ mem.pending # NoOutcome
                \/ pc' \in {"return_ok", "hold_check"}
    BY <1>1, <2>2, PendingBody DEF PrepareCompletion, world
  <2> QED
    BY <1>1, <2>1, <2>2 DEF PrepareCompletion
<1>2. CASE SendAcknowledged
  BY <1>2 DEF SendAcknowledged, Recorded, Duplicate, Received
<1>3. CASE SendAnswerLost
  BY <1>3 DEF SendAnswerLost, Recorded, Received, local
<1>4. CASE SendConflict
  BY <1>4 DEF SendConflict, Received, Because, Whys
<1>5. CASE SendRejected
  BY <1>5 DEF SendRejected, world
<1>6. CASE PersistAcknowledgement
  <2>1. WithAcknowledgement(mem) \in RunRecords
    BY CompoundEditType
  <2> QED
    BY <1>6, <2>1, SaveType DEF PersistAcknowledgement, SaveMem, Save, world
<1> QED
  BY <1>1, <1>2, <1>3, <1>4, <1>5, <1>6 DEF Delivery

\* Fresh locals, flags and requests are in their types.
LEMMA LocalsType ==
    /\ NoRun \in RunLocals /\ NoProgress \in ProgressFlags /\ NoRequest \in Requests
    /\ \A w \in Whys : [NoRun EXCEPT !.why = w] \in RunLocals
    /\ \A b \in BOOLEAN : [NoProgress EXCEPT !.cleanup = b] \in ProgressFlags
    /\ \A p \in ProgressFlags : /\ [p EXCEPT !.lost = TRUE] \in ProgressFlags
                                /\ [p EXCEPT !.cancel = TRUE] \in ProgressFlags
    /\ \A j \in Jobs : [NoRequest EXCEPT !.action = "ready", !.job = j] \in Requests
BY ConstantRecordsType DEF NoRun, NoProgress, NoRequest, RunLocals, ProgressFlags, Requests, Whys

\* The run loop keeps the types.
LEMMA RunLoopTyped == ASSUME Typed, RunLoop PROVE Typed'
<1> USE DEF Typed, TypeOK, JobInHand, CauseKnown, BodyInHand, Step, ControllerPcs, SettlePcs, IdlePcs
<1>1. CASE \E j \in Jobs : ClaimJob(j)
  BY <1>1, ConstantRecordsType DEF ClaimJob
<1>2. CASE \E j \in Jobs : ClaimAnswerLost(j)
  BY <1>2 DEF ClaimAnswerLost, local
<1>3. CASE ClaimUnresolved
  BY <1>3 DEF ClaimUnresolved, world
<1>4. CASE ClaimRejected
  BY <1>4 DEF ClaimRejected, world
<1>5. CASE ReturnOk
  BY <1>5, ConstantRecordsType, LocalsType DEF ReturnOk, ForgetJob, world
<1>6. CASE Recover
  <2>1. ASSUME NEW j \in Jobs, RecoverWith(j), UNCHANGED <<notify, op, disk, world, restarts>>
        PROVE  Typed'
    <3>1. [disk[j] EXCEPT !.status = "interrupted"] \in RunRecords
      BY FieldEditType DEF Statuses
    <3>2. disk[j].cleanupRequired \in BOOLEAN
      BY DEF RunRecords
    <3>3. mem' \in RunRecords
      BY <2>1, <3>1, ConstantRecordsType DEF RecoverWith
    <3>4. progress' \in ProgressFlags
      BY <2>1, <3>2, LocalsType DEF RecoverWith
    <3>5. run' \in RunLocals
      BY <2>1, LocalsType DEF RecoverWith, Whys
    <3>6. pc' \in {"hold_check", "deliver", "recover_target"} /\ job' \in Jobs
      BY <2>1 DEF RecoverWith
    <3> QED
      BY <2>1, <3>3, <3>4, <3>5, <3>6 DEF world
  <2>2. CASE UNCHANGED <<job, mem, run, progress>> /\ pc' \in {"claim", "hold_check"}
    BY <1>6, <2>2 DEF Recover, world
  <2> QED
    BY <1>6, <2>1, <2>2 DEF Recover, Unresolved
<1>7. CASE CheckForHold
  BY <1>7, ConstantRecordsType, LocalsType DEF CheckForHold, ForgetJob, world
<1>8. CASE WakeUp
  BY <1>8 DEF WakeUp, world
<1> QED
  BY <1>1, <1>2, <1>3, <1>4, <1>5, <1>6, <1>7, <1>8 DEF RunLoop

\* So do the other actors.
LEMMA OthersTyped == ASSUME Typed,
                               \/ Heartbeat \/ Operator \/ Restart
                               \/ \E j \in Jobs : CoordinatorReleases(j) \/ CoordinatorReinstates(j)
                      PROVE Typed'
<1> USE DEF Typed, TypeOK, JobInHand, CauseKnown, BodyInHand, Step, ControllerPcs, SettlePcs, IdlePcs
<1>1. CASE Heartbeat
  BY <1>1, LocalsType DEF Heartbeat, HeartbeatClaimLost, HeartbeatCancel, world
<1>2. CASE \E o \in Operators, a \in RecoveryActions, j \in Jobs : RecoveryRequest(o, a, j)
  BY <1>2 DEF RecoveryRequest, Requests, local
<1>3. CASE \E o \in Operators : RecoverySave(o)
  <2> PICK o \in Operators : RecoverySave(o)
    BY <1>3
  <2> DEFINE rec == RecoveryEdit(op[o].action, op[o].snap)
  <2>1. rec \in RunRecords
    BY RecoveryEditType DEF RecoverySave, Requests
  <2>2. disk' \in [Jobs -> RunRecords] /\ notify' \in BOOLEAN
    BY <2>1 DEF RecoverySave, Requests
  <2>3. op' \in [Operators -> Requests]
    BY LocalsType DEF RecoverySave
  <2> QED
    BY <2>2, <2>3 DEF RecoverySave, local, world
<1>4. CASE \E o \in Operators, j \in Jobs : ReadyRequest(o, j)
  BY <1>4, LocalsType DEF ReadyRequest, local, world
<1>5. CASE \E o \in Operators : ReadyCall(o)
  BY <1>5, LocalsType DEF ReadyCall, local
<1>6. CASE Restart
  <2>1. restarts' \in 0 .. MaxRestarts
    BY <1>6, ConstantsAssumption DEF Restart
  <2>2. op' \in [Operators -> Requests]
    BY <1>6, LocalsType DEF Restart
  <2> QED
    BY <1>6, <2>1, <2>2, ConstantRecordsType, LocalsType DEF Restart, ForgetJob, world
<1>7. CASE \E j \in Jobs : CoordinatorReleases(j)
  BY <1>7 DEF CoordinatorReleases, local
<1>8. CASE \E j \in Jobs : CoordinatorReinstates(j)
  BY <1>8 DEF CoordinatorReinstates, local
<1> QED
  BY <1>1, <1>2, <1>3, <1>4, <1>5, <1>6, <1>7, <1>8 DEF Operator

(***************************************************************************)
(* Type correctness: in every behaviour the variables stay in their types, *)
(* a worker step that needs a job has one, a reported cause has a code and *)
(* a sent body was prepared.                                               *)
(***************************************************************************)
THEOREM TypeCorrect == Spec => []Typed
<1>1. Init => Typed
  BY InitTyped
<1>2. Typed /\ [Next]_vars => Typed'
  <2>1. CASE UNCHANGED vars
    BY <2>1 DEF Typed, TypeOK, JobInHand, CauseKnown, BodyInHand, vars, local, world
  <2> QED
    BY <2>1, ControllerTyped, SettlementTyped, DeliveryTyped, RunLoopTyped, OthersTyped
       DEF Next, Worker
<1> QED
  BY <1>1, <1>2, PTL DEF Spec

(***************************************************************************)
(* TypeOK alone.                                                           *)
(***************************************************************************)
THEOREM TypesHold == Spec => []TypeOK
BY TypeCorrect, PTL DEF Typed

--------------------------------------------------------------------------------
(***************************************************************************)
(* Why cleanup is on disk before the target changes.  The property alone   *)
(* is not inductive: a save of the record in hand or of an operator's      *)
(* snapshot could take the mark away again.  The invariant says that every *)
(* copy of a record that may still be written agrees with the file, and    *)
(* that no operator holds a copy while the controller is changing it.      *)
(***************************************************************************)
Worked == ControllerPcs \cup SettlePcs
InHand == Worked \ {"executed"}                 \* mem will be used or written
Settling == SettlePcs \ {"create", "executed"}
Undisturbed == ControllerPcs \cup {"create", "unsupported"}
Recovery(o) == op[o].action \in RecoveryActions

PlanRight(r, j) == r.cleanupRequired => r.plan = RightPlan(j)
SamePlan(r, s) == r.cleanupRequired = s.cleanupRequired /\ r.plan = s.plan

\* The files: a required cleanup has the right plan, a changed target has a
\* required cleanup, and a job not yet handed out has no file.
FilesMarked ==
    \A j \in Jobs :
        /\ PlanRight(disk[j], j)
        /\ disk[j].status = "absent" => disk[j] = NoRecord
        /\ node[j] # "untouched" => disk[j].cleanupRequired
        /\ coord[j] = "queued" => disk[j] = NoRecord

\* The snapshot of a recovery request agrees with the file it will replace.
RequestsCurrent ==
    \A o \in Operators : Recovery(o) =>
        /\ op[o].job \in Jobs
        /\ SamePlan(op[o].snap, disk[op[o].job])
        /\ op[o].snap.status # "absent"
        /\ disk[op[o].job].status # "absent"

\* The record in hand carries the mark of a changed target.
HandMarked ==
    pc \in InHand =>
        /\ PlanRight(mem, job)
        /\ mem.status # "absent"
        /\ node[job] # "untouched" => mem.cleanupRequired

\* The job in hand was handed out, and from create() on it has a file.
HandOnDisk ==
    pc \in Worked =>
        /\ coord[job] # "queued"
        /\ pc # "create" => disk[job].status # "absent"
        /\ pc = "create" => mem = Claimed /\ disk[job] = NoRecord

\* While a claim is settled, memory and file agree on the cleanup.
SettlingSame == pc \in Settling => SamePlan(mem, disk[job])

\* A job under execution has no hold, hence no recovery request.
ExecutionUndisturbed ==
    pc \in Undisturbed =>
        /\ disk[job].hold = "none" /\ mem.hold = "none"
        /\ \A o \in Operators : Recovery(o) => op[o].job # job

\* Before a mutation the mark is in memory and on disk.
Armed ==
    /\ pc \in {"baseline_mutate", "candidate_mutate", "reconcile", "recover_reconcile"}
            => mem.cleanupRequired /\ disk[job].cleanupRequired
    /\ pc \in {"baseline", "candidate", "evidence"} /\ run.authorized
            => mem.cleanupRequired /\ disk[job].cleanupRequired
    /\ pc \in {"baseline_mutate", "candidate_mutate"} => run.authorized
    /\ pc = "cleanup" /\ run.authorized => mem.cleanupRequired
    /\ pc \in {"recover", "claim", "op_wait", "coord_wait", "create", "unsupported",
              "start", "preflight"} => ~run.authorized
    /\ pc \in {"baseline", "baseline_mutate", "candidate"} => mem.plan = RightPlan(job)

MarkInv ==
    /\ FilesMarked /\ RequestsCurrent /\ HandMarked /\ HandOnDisk
    /\ SettlingSame /\ ExecutionUndisturbed /\ Armed

\* The worker writes the file of its job, or fails to: files and requests
\* stay marked when the record is, and no request holds a copy that differs.
LEMMA FileWrite ==
    ASSUME Typed, FilesMarked, RequestsCurrent, job \in Jobs, NEW rec \in RunRecords,
           PlanRight(rec, job), rec.status # "absent", coord[job] # "queued",
           node[job] # "untouched" => rec.cleanupRequired,
           \/ SamePlan(rec, disk[job])
           \/ \A o \in Operators : Recovery(o) => op[o].job # job,
           Saved(rec) \/ UNCHANGED disk,
           UNCHANGED <<node, coord, op>>
    PROVE  /\ FilesMarked' /\ RequestsCurrent'
           /\ disk'[job] \in {rec, disk[job]}
<1>1. CASE UNCHANGED disk
  BY <1>1 DEF FilesMarked, RequestsCurrent, Recovery, PlanRight, RightPlan, SamePlan
<1>2. CASE Saved(rec)
  <2>1. disk' = [disk EXCEPT ![job] = rec] /\ disk \in [Jobs -> RunRecords]
    BY <1>2 DEF Saved, Typed, TypeOK
  <2>2. \A j \in Jobs : disk'[j] = IF j = job THEN rec ELSE disk[j]
    BY <2>1
  <2>3. FilesMarked'
    BY <2>2 DEF FilesMarked, PlanRight, RightPlan
  <2>4. RequestsCurrent'
    BY <2>2 DEF RequestsCurrent, Recovery, SamePlan
  <2> QED
    BY <2>2, <2>3, <2>4
<1> QED
  BY <1>1, <1>2

\* Nothing the files and requests depend on changes.
LEMMA FilesUntouched ==
    ASSUME FilesMarked, RequestsCurrent, UNCHANGED <<disk, node, coord, op>>
    PROVE  FilesMarked' /\ RequestsCurrent'
BY DEF FilesMarked, RequestsCurrent, Recovery, PlanRight, RightPlan, SamePlan

\* The target changes while its mark is on disk.
LEMMA TargetChanges ==
    ASSUME Typed, FilesMarked, RequestsCurrent, job \in Jobs, disk[job].cleanupRequired, NEW n,
           node' = [node EXCEPT ![job] = n], UNCHANGED <<disk, coord, op>>
    PROVE  FilesMarked' /\ RequestsCurrent'
BY DEF FilesMarked, RequestsCurrent, Recovery, PlanRight, RightPlan, SamePlan, Typed, TypeOK

\* The single-field edits leave the mark alone, or set it.
LEMMA EditFacts ==
    ASSUME NEW r \in RunRecords
    PROVE  /\ \A f \in BOOLEAN : LET w == WithResult(r, f) IN
                 SamePlan(w, r) /\ w.status # "absent" /\ w.hold = r.hold
           /\ \A c \in ErrorCodes : LET w == WithWorkerError(r, c) IN
                 SamePlan(w, r) /\ w.status # "absent"
           /\ LET w == WithAcknowledgement(r) IN SamePlan(w, r) /\ w.status = r.status
           /\ LET w == WithReleasedClaim(r) IN SamePlan(w, r) /\ w.status = r.status
           /\ \A a \in RecoveryActions : LET w == RecoveryEdit(a, r) IN
                 SamePlan(w, r) /\ w.status = r.status
<1>1. \A f \in BOOLEAN : LET w == WithResult(r, f) IN
          SamePlan(w, r) /\ w.status # "absent" /\ w.hold = r.hold
  BY DEF RunRecords, SamePlan, WithResult
<1>2. \A c \in ErrorCodes : LET w == WithWorkerError(r, c) IN
          SamePlan(w, r) /\ w.status # "absent"
  BY DEF RunRecords, SamePlan, WithWorkerError
<1>3. LET w == WithAcknowledgement(r) IN SamePlan(w, r) /\ w.status = r.status
  BY DEF RunRecords, SamePlan, WithAcknowledgement
<1>4. LET w == WithReleasedClaim(r) IN SamePlan(w, r) /\ w.status = r.status
  BY DEF RunRecords, SamePlan, WithReleasedClaim
<1>5. \A a \in RecoveryActions : LET w == RecoveryEdit(a, r) IN
          SamePlan(w, r) /\ w.status = r.status
  BY DEF RunRecords, SamePlan, RecoveryEdit, RecoveryActions
<1> QED
  BY <1>1, <1>2, <1>3, <1>4, <1>5

\* What the invariant says of the record in hand, apart from the files.
HandInv == HandMarked /\ HandOnDisk /\ SettlingSame /\ ExecutionUndisturbed /\ Armed

\* The controller keeps the mark.
LEMMA ControllerMarked == ASSUME Typed, MarkInv, Controller PROVE MarkInv'
<1> SUFFICES (FilesMarked /\ RequestsCurrent)' /\ HandInv'
  BY DEF MarkInv, HandInv
<1> USE DEF Step, Worked, InHand, Settling, Undisturbed, ControllerPcs, SettlePcs
<1>0. pc \in ControllerPcs /\ job \in Jobs /\ mem \in RunRecords /\ disk[job] \in RunRecords
  BY DEF Controller, StartExecution, Preflight, PrepareBaseline, InstallBaseline, Mutate,
         PrepareCandidate, UpdateCandidate, GatherEvidence, BeginCleanup,
         ControllerReconcile, SaveCleanup, FinishExecution, Typed, TypeOK, JobInHand
<1>a. FilesMarked /\ RequestsCurrent /\ HandInv
  BY DEF MarkInv, HandInv
<1>q. \A o \in Operators : Recovery(o) => op[o].job # job
  BY <1>0, <1>a DEF HandInv, ExecutionUndisturbed
<1>h. /\ coord[job] # "queued" /\ disk[job].status # "absent"
      /\ disk[job].hold = "none" /\ mem.hold = "none"
      /\ PlanRight(disk[job], job)
      /\ node[job] # "untouched" => disk[job].cleanupRequired
  BY <1>0, <1>a DEF HandInv, HandOnDisk, ExecutionUndisturbed, FilesMarked
<1>m. /\ PlanRight(mem, job) /\ mem.status # "absent"
      /\ node[job] # "untouched" => mem.cleanupRequired
  BY <1>0, <1>a DEF HandInv, HandMarked
<1>1. CASE StartExecution
  <2> DEFINE rec == [disk[job] EXCEPT !.status = "running"]
  <2>1. /\ rec \in RunRecords /\ rec.status # "absent" /\ SamePlan(rec, disk[job])
        /\ rec.hold = disk[job].hold
    BY <1>0 DEF RunRecords, Statuses, SamePlan
  <2>2. (Saved(rec) \/ UNCHANGED disk) /\ UNCHANGED <<node, coord, op, job>>
    BY <1>1 DEF StartExecution, SaveFails, Execution
  <2>3. PlanRight(rec, job) /\ (node[job] # "untouched" => rec.cleanupRequired)
    BY <2>1, <1>h DEF PlanRight, SamePlan
  <2>4. (FilesMarked /\ RequestsCurrent)' /\ disk'[job] \in {rec, disk[job]}
    BY <1>0, <1>a, <1>q, <1>h, <1>m, <2>1, <2>2, <2>3, FileWrite
  <2>5. \/ pc' = "executed"
        \/ pc' = "preflight" /\ mem' = rec /\ ~run'.authorized
    BY <1>1, <1>a DEF StartExecution, HandInv, Armed
  <2> QED
    BY <1>0, <1>a, <1>q, <1>h, <1>m, <2>1, <2>2, <2>3, <2>4, <2>5 DEF HandInv, HandMarked, HandOnDisk, SettlingSame, ExecutionUndisturbed, Armed, Recovery
<1>2. CASE Preflight
  <2> DEFINE rec == [mem EXCEPT !.plan = RightPlan(job)]
  <2>1. /\ rec \in RunRecords /\ rec.status = mem.status /\ rec.hold = mem.hold
        /\ rec.plan = RightPlan(job) /\ rec.cleanupRequired = mem.cleanupRequired
    BY <1>0 DEF RunRecords, Plans, RightPlan
  <2>2. (Saved(rec) \/ UNCHANGED disk) /\ UNCHANGED <<node, coord, op, job>>
    BY <1>2 DEF Preflight, SaveFails, Execution, WorkflowFails
  <2>3. PlanRight(rec, job)
    BY <2>1 DEF PlanRight
  <2>4. (FilesMarked /\ RequestsCurrent)' /\ disk'[job] \in {rec, disk[job]}
    BY <1>0, <1>a, <1>q, <1>h, <1>m, <2>1, <2>2, <2>3, FileWrite
  <2>5. ~run'.authorized
    BY <1>2, <1>a DEF Preflight, WorkflowFails, Typed, TypeOK, RunLocals, HandInv, Armed
  <2>6. mem' \in {rec, mem} /\ (pc' = "cleanup" \/ (pc' = "baseline" /\ mem' = rec))
    BY <1>2 DEF Preflight, WorkflowFails
  <2> QED
    BY <1>0, <1>a, <1>q, <1>h, <1>m, <2>1, <2>2, <2>3, <2>4, <2>5, <2>6 DEF HandInv, HandMarked, HandOnDisk, SettlingSame, ExecutionUndisturbed, Armed, Recovery
<1>3. CASE PrepareBaseline
  <2> DEFINE rec == [mem EXCEPT !.cleanupRequired = TRUE]
  <2>1. /\ rec \in RunRecords /\ rec.status = mem.status /\ rec.hold = mem.hold
        /\ rec.plan = mem.plan /\ rec.cleanupRequired
    BY <1>0 DEF RunRecords
  <2>2. mem.plan = RightPlan(job) /\ PlanRight(rec, job)
    BY <1>3, <1>a, <2>1 DEF PrepareBaseline, HandInv, Armed, PlanRight
  <2>3. UNCHANGED <<node, coord, op, job>>
    BY <1>3 DEF PrepareBaseline, world
  <2>4. run.authorized => mem.cleanupRequired /\ disk[job].cleanupRequired
    BY <1>3, <1>a DEF PrepareBaseline, HandInv, Armed
  <2>5. CASE AuthorizeCleanup("baseline_mutate") /\ ~run.authorized
    <3>1. Saved(rec) \/ UNCHANGED disk
      BY <2>5 DEF AuthorizeCleanup, SaveFails
    <3>2. (FilesMarked /\ RequestsCurrent)' /\ disk'[job] \in {rec, disk[job]}
      BY <1>0, <1>a, <1>q, <1>h, <1>m, <2>1, <2>2, <2>3, <3>1, FileWrite
    <3>3. mem' = rec /\ (pc' = "cleanup" \/ (pc' = "baseline_mutate" /\ disk'[job] = rec
                                               /\ run'.authorized))
      <4>1. disk \in [Jobs -> RunRecords] /\ run \in RunLocals
        BY DEF Typed, TypeOK
      <4> QED
        BY <1>0, <2>5, <4>1 DEF AuthorizeCleanup, Saved, RunLocals
    <3> QED
      BY <1>0, <1>a, <1>q, <1>h, <1>m, <2>1, <2>2, <2>3, <3>2, <3>3 DEF HandInv, HandMarked, HandOnDisk, SettlingSame, ExecutionUndisturbed, Armed, Recovery
  <2>6. CASE /\ UNCHANGED <<mem, disk>> /\ run'.authorized = run.authorized
             /\ \/ pc' = "cleanup"
                \/ pc' = "baseline_mutate" /\ run.authorized
                \/ pc' = "candidate" /\ UNCHANGED run
    <3>1. (FilesMarked /\ RequestsCurrent)'
      BY <1>a, <2>3, <2>6, FilesUntouched
    <3> QED
      BY <1>0, <1>a, <1>q, <1>h, <1>m, <2>2, <2>3, <2>4, <2>6, <3>1 DEF HandInv, HandMarked, HandOnDisk, SettlingSame, ExecutionUndisturbed, Armed, Recovery
  <2> QED
    BY <1>3, <2>5, <2>6 DEF PrepareBaseline, AuthorizeCleanup, WorkflowFails, Typed, TypeOK, RunLocals
<1>4. CASE InstallBaseline
  <2>1. /\ pc = "baseline_mutate" /\ UNCHANGED <<disk, coord, op, job, mem>>
        /\ node' = [node EXCEPT ![job] = "modified"]
        /\ pc' \in {"candidate", "cleanup"}
    BY <1>4 DEF InstallBaseline, Mutate, WorkflowFails
  <2>2. mem.cleanupRequired /\ disk[job].cleanupRequired /\ run.authorized
    BY <1>a, <2>1 DEF HandInv, Armed
  <2>3. run'.authorized = run.authorized
    BY <1>4 DEF InstallBaseline, Mutate, WorkflowFails, Typed, TypeOK, RunLocals
  <2>4. (FilesMarked /\ RequestsCurrent)'
    BY <1>0, <1>a, <2>1, <2>2, TargetChanges
  <2>5. mem.plan = RightPlan(job)
    BY <1>m, <2>2 DEF PlanRight
  <2> QED
    BY <1>0, <1>a, <1>q, <1>h, <1>m, <2>1, <2>2, <2>3, <2>4, <2>5 DEF HandInv, HandMarked, HandOnDisk, SettlingSame, ExecutionUndisturbed, Armed, Recovery
<1>5. CASE PrepareCandidate
  <2> DEFINE rec == [mem EXCEPT !.cleanupRequired = TRUE]
  <2>1. /\ rec \in RunRecords /\ rec.status = mem.status /\ rec.hold = mem.hold
        /\ rec.plan = mem.plan /\ rec.cleanupRequired
    BY <1>0 DEF RunRecords
  <2>2. mem.plan = RightPlan(job) /\ PlanRight(rec, job)
    BY <1>5, <1>a, <2>1 DEF PrepareCandidate, HandInv, Armed, PlanRight
  <2>3. UNCHANGED <<node, coord, op, job>>
    BY <1>5 DEF PrepareCandidate, world
  <2>4. run.authorized => mem.cleanupRequired /\ disk[job].cleanupRequired
    BY <1>5, <1>a DEF PrepareCandidate, HandInv, Armed
  <2>5. CASE AuthorizeCleanup("candidate_mutate") /\ ~run.authorized
    <3>1. Saved(rec) \/ UNCHANGED disk
      BY <2>5 DEF AuthorizeCleanup, SaveFails
    <3>2. (FilesMarked /\ RequestsCurrent)' /\ disk'[job] \in {rec, disk[job]}
      BY <1>0, <1>a, <1>q, <1>h, <1>m, <2>1, <2>2, <2>3, <3>1, FileWrite
    <3>3. mem' = rec /\ (pc' = "cleanup" \/ (pc' = "candidate_mutate" /\ disk'[job] = rec
                                               /\ run'.authorized))
      <4>1. disk \in [Jobs -> RunRecords] /\ run \in RunLocals
        BY DEF Typed, TypeOK
      <4> QED
        BY <1>0, <2>5, <4>1 DEF AuthorizeCleanup, Saved, RunLocals
    <3> QED
      BY <1>0, <1>a, <1>q, <1>h, <1>m, <2>1, <2>2, <2>3, <3>2, <3>3 DEF HandInv, HandMarked, HandOnDisk, SettlingSame, ExecutionUndisturbed, Armed, Recovery
  <2>6. CASE /\ UNCHANGED <<mem, disk>> /\ run'.authorized = run.authorized
             /\ \/ pc' = "cleanup"
                \/ pc' = "candidate_mutate" /\ run.authorized
                \/ pc' = "candidate" /\ UNCHANGED run
    <3>1. (FilesMarked /\ RequestsCurrent)'
      BY <1>a, <2>3, <2>6, FilesUntouched
    <3> QED
      BY <1>0, <1>a, <1>q, <1>h, <1>m, <2>2, <2>3, <2>4, <2>6, <3>1 DEF HandInv, HandMarked, HandOnDisk, SettlingSame, ExecutionUndisturbed, Armed, Recovery
  <2> QED
    BY <1>5, <2>5, <2>6 DEF PrepareCandidate, AuthorizeCleanup, WorkflowFails, Typed, TypeOK, RunLocals
<1>6. CASE UpdateCandidate
  <2>1. /\ pc = "candidate_mutate" /\ UNCHANGED <<disk, coord, op, job, mem>>
        /\ node' = [node EXCEPT ![job] = "modified"]
        /\ pc' \in {"evidence", "cleanup"}
    BY <1>6 DEF UpdateCandidate, Mutate, WorkflowFails
  <2>2. mem.cleanupRequired /\ disk[job].cleanupRequired /\ run.authorized
    BY <1>a, <2>1 DEF HandInv, Armed
  <2>3. run'.authorized = run.authorized
    BY <1>6 DEF UpdateCandidate, Mutate, WorkflowFails, Typed, TypeOK, RunLocals
  <2>4. (FilesMarked /\ RequestsCurrent)'
    BY <1>0, <1>a, <2>1, <2>2, TargetChanges
  <2>5. mem.plan = RightPlan(job)
    BY <1>m, <2>2 DEF PlanRight
  <2> QED
    BY <1>0, <1>a, <1>q, <1>h, <1>m, <2>1, <2>2, <2>3, <2>4, <2>5 DEF HandInv, HandMarked, HandOnDisk, SettlingSame, ExecutionUndisturbed, Armed, Recovery
<1>7. CASE GatherEvidence
  <2>1. UNCHANGED <<node, coord, op, job, mem, disk>> /\ pc' = "cleanup"
    BY <1>7 DEF GatherEvidence, WorkflowFails, world
  <2>2. run'.authorized = run.authorized
    BY <1>7 DEF GatherEvidence, WorkflowFails, Typed, TypeOK, RunLocals
  <2>3. run.authorized => mem.cleanupRequired
    BY <1>7, <1>a DEF GatherEvidence, HandInv, Armed
  <2>4. (FilesMarked /\ RequestsCurrent)'
    BY <1>a, <2>1, FilesUntouched
  <2> QED
    BY <1>0, <1>a, <1>q, <1>h, <1>m, <2>1, <2>2, <2>3, <2>4 DEF HandInv, HandMarked, HandOnDisk, SettlingSame, ExecutionUndisturbed, Armed, Recovery
<1>8. CASE BeginCleanup
  <2>1. (Saved(mem) \/ UNCHANGED disk) /\ UNCHANGED <<node, coord, op, job>>
    BY <1>8 DEF BeginCleanup, SaveFails, world
  <2>2. (FilesMarked /\ RequestsCurrent)' /\ disk'[job] \in {mem, disk[job]}
    BY <1>0, <1>a, <1>q, <1>h, <1>m, <2>1, FileWrite
  <2>3. \/ pc' = "executed"
        \/ /\ pc' = "reconcile" /\ run.authorized
           /\ mem' = mem /\ disk' = [disk EXCEPT ![job] = mem]
        \/ pc' = "finish" /\ mem' = [mem EXCEPT !.cleanup = "skipped"]
    BY <1>8 DEF BeginCleanup, Saved
  <2>4. run.authorized => mem.cleanupRequired
    BY <1>8, <1>a DEF BeginCleanup, HandInv, Armed
  <2>5. LET rec == [mem EXCEPT !.cleanup = "skipped"] IN
            SamePlan(rec, mem) /\ rec.status = mem.status /\ rec.hold = mem.hold
    BY <1>0 DEF RunRecords, SamePlan
  <2>6. CASE pc' = "executed"
    BY <1>0, <1>a, <1>q, <1>h, <1>m, <2>1, <2>2, <2>6 DEF HandInv, HandMarked, HandOnDisk, SettlingSame, ExecutionUndisturbed, Armed, Recovery
  <2>7. CASE /\ pc' = "reconcile" /\ run.authorized
             /\ mem' = mem /\ disk' = [disk EXCEPT ![job] = mem]
    <3>1. disk'[job] = mem
      BY <1>0, <2>7 DEF Typed, TypeOK
    <3> QED
      BY <1>0, <1>a, <1>q, <1>h, <1>m, <2>1, <2>2, <2>4, <2>7, <3>1 DEF HandInv, HandMarked, HandOnDisk, SettlingSame, ExecutionUndisturbed, Armed, Recovery
  <2>8. CASE pc' = "finish" /\ mem' = [mem EXCEPT !.cleanup = "skipped"]
    BY <1>0, <1>a, <1>q, <1>h, <1>m, <2>1, <2>2, <2>5, <2>8 DEF HandInv, HandMarked, HandOnDisk, SettlingSame, ExecutionUndisturbed, Armed, Recovery, SamePlan, PlanRight
  <2> QED
    BY <2>3, <2>6, <2>7, <2>8
<1>9. CASE ControllerReconcile
  <2>1. /\ pc = "reconcile" /\ pc' = "save_cleanup" /\ UNCHANGED <<disk, coord, op, job, run>>
        /\ \E n \in {"restored", "modified"}, c \in {"passed", "failed"} :
              node' = [node EXCEPT ![job] = n] /\ mem' = [mem EXCEPT !.cleanup = c]
    BY <1>9 DEF ControllerReconcile, Reconcile
  <2>2. mem.cleanupRequired /\ disk[job].cleanupRequired
    BY <1>a, <2>1 DEF HandInv, Armed
  <2>3. SamePlan(mem', mem) /\ mem'.status = mem.status /\ mem'.hold = mem.hold
    BY <1>0, <2>1 DEF RunRecords, SamePlan
  <2>4. (FilesMarked /\ RequestsCurrent)'
    BY <1>0, <1>a, <2>1, <2>2, TargetChanges
  <2> QED
    BY <1>0, <1>a, <1>q, <1>h, <1>m, <2>1, <2>2, <2>3, <2>4 DEF HandInv, HandMarked, HandOnDisk, SettlingSame, ExecutionUndisturbed, Armed, Recovery, SamePlan, PlanRight
<1>10. CASE SaveCleanup
  <2>1. (Saved(mem) \/ UNCHANGED disk) /\ UNCHANGED <<node, coord, op, job, mem>>
    BY <1>10 DEF SaveCleanup, ExecutionSave, SaveFails, Execution
  <2>2. (FilesMarked /\ RequestsCurrent)' /\ disk'[job] \in {mem, disk[job]}
    BY <1>0, <1>a, <1>q, <1>h, <1>m, <2>1, FileWrite
  <2>3. pc' \in {"finish", "executed"}
    BY <1>10 DEF SaveCleanup, ExecutionSave
  <2> QED
    BY <1>0, <1>a, <1>q, <1>h, <1>m, <2>1, <2>2, <2>3 DEF HandInv, HandMarked, HandOnDisk, SettlingSame, ExecutionUndisturbed, Armed, Recovery
<1>11. CASE FinishExecution
  <2> DEFINE rec == WithResult(mem, run.failed)
  <2>1. /\ rec \in RunRecords /\ SamePlan(rec, mem)
        /\ rec.status # "absent" /\ rec.hold = mem.hold
    BY <1>0, CompoundEditType, EditFacts DEF Typed, TypeOK, RunLocals
  <2>2. (Saved(rec) \/ UNCHANGED disk) /\ UNCHANGED <<node, coord, op, job>>
    BY <1>11 DEF FinishExecution, ExecutionSave, SaveFails, Execution
  <2>3. PlanRight(rec, job) /\ (node[job] # "untouched" => rec.cleanupRequired)
    BY <1>m, <2>1 DEF PlanRight, SamePlan
  <2>4. (FilesMarked /\ RequestsCurrent)' /\ disk'[job] \in {rec, disk[job]}
    BY <1>0, <1>a, <1>q, <1>h, <1>m, <2>1, <2>2, <2>3, FileWrite
  <2>5. pc' = "executed"
    BY <1>11 DEF FinishExecution, ExecutionSave
  <2> QED
    BY <1>0, <1>a, <1>q, <1>h, <1>m, <2>1, <2>2, <2>3, <2>4, <2>5 DEF HandInv, HandMarked, HandOnDisk, SettlingSame, ExecutionUndisturbed, Armed, Recovery
<1> QED
  BY <1>1, <1>2, <1>3, <1>4, <1>5, <1>6, <1>7, <1>8, <1>9, <1>10, <1>11 DEF Controller

\* A step that settles or delivers, writing at most the record in hand.
LEMMA SettleStep ==
    ASSUME Typed, MarkInv, pc \in Settling, NEW rec \in RunRecords,
           SamePlan(rec, mem), rec.status # "absent", mem' = rec,
           Saved(rec) \/ UNCHANGED disk,
           UNCHANGED <<node, coord, op, job>>,
           pc' \in (Settling \ {"unsupported", "recover_reconcile"})
                       \cup {"return_ok", "hold_check"}
    PROVE  MarkInv'
<1> USE DEF Worked, InHand, Settling, Undisturbed, ControllerPcs, SettlePcs
<1>1. job \in Jobs
  BY DEF Typed, JobInHand
<1>2. /\ PlanRight(mem, job) /\ SamePlan(mem, disk[job])
      /\ node[job] # "untouched" => mem.cleanupRequired
      /\ coord[job] # "queued" /\ disk[job].status # "absent"
  BY DEF MarkInv, HandMarked, HandOnDisk, SettlingSame
<1>3. /\ PlanRight(rec, job) /\ SamePlan(rec, disk[job])
      /\ node[job] # "untouched" => rec.cleanupRequired
  BY <1>2 DEF PlanRight, SamePlan
<1>4. (FilesMarked /\ RequestsCurrent)' /\ disk'[job] \in {rec, disk[job]}
  BY <1>1, <1>2, <1>3, FileWrite DEF MarkInv
<1>5. SamePlan(rec, disk'[job])
  BY <1>3, <1>4 DEF SamePlan
<1> QED
  BY <1>1, <1>2, <1>3, <1>4, <1>5 DEF MarkInv, HandMarked, HandOnDisk, SettlingSame,
     ExecutionUndisturbed, Armed, PlanRight, RightPlan, SamePlan

\* A record agrees with itself.
LEMMA SamePlanReflexive == ASSUME NEW r PROVE SamePlan(r, r)
BY DEF SamePlan

\* The hand-over of a job between settling and its neighbours.
LEMMA SettlementMarked == ASSUME Typed, MarkInv, Settlement PROVE MarkInv'
<1> USE DEF Step, Worked, InHand, Settling, Undisturbed, ControllerPcs, SettlePcs
<1>0. pc \in SettlePcs /\ job \in Jobs /\ mem \in RunRecords /\ disk[job] \in RunRecords
  BY DEF Settlement, CreateRecord, CheckSupported, ReloadRecord, Settle, RecoverTarget,
         RecoverReconcile, RecoverSave, Recovered, SetWorkerError, ReleaseClaim, MarkHold,
         Typed, TypeOK, JobInHand
<1>a. FilesMarked /\ RequestsCurrent /\ HandInv
  BY DEF MarkInv, HandInv
<1>b. FilesMarked' /\ RequestsCurrent' /\ HandInv' => MarkInv'
  BY DEF MarkInv, HandInv
<1>m. pc # "executed" => mem.status # "absent"
  BY <1>0, <1>a DEF HandInv, HandMarked
<1>s. SamePlan(mem, mem)
  BY SamePlanReflexive
<1>1. CASE CreateRecord
  <2>1. /\ pc = "create" /\ mem = Claimed /\ disk[job] = NoRecord /\ coord[job] # "queued"
    BY <1>1, <1>a DEF CreateRecord, HandInv, HandOnDisk
  <2>2. \A o \in Operators : Recovery(o) => op[o].job # job
    BY <2>1, <1>a DEF HandInv, ExecutionUndisturbed
  <2>3. /\ Saved(mem) \/ UNCHANGED disk
        /\ UNCHANGED <<node, coord, op, job, mem, run>>
        /\ pc' = "hold_check" \/ (pc' = "unsupported" /\ disk' = [disk EXCEPT ![job] = mem])
    BY <1>1 DEF CreateRecord, Save, Saved, SaveFails, world
  <2>4. /\ PlanRight(mem, job) /\ mem.status # "absent" /\ mem.hold = "none"
        /\ node[job] # "untouched" => mem.cleanupRequired
    BY <2>1, <1>0, <1>a DEF HandInv, HandMarked, HandOnDisk, ExecutionUndisturbed
  <2>5. (FilesMarked /\ RequestsCurrent)' /\ disk'[job] \in {mem, disk[job]}
    BY <1>0, <1>a, <2>1, <2>2, <2>3, <2>4, FileWrite
  <2>6. ~run.authorized
    BY <2>1, <1>a DEF HandInv, Armed
  <2>7. pc' = "unsupported" => disk'[job] = mem
    BY <1>0, <2>3 DEF Typed, TypeOK
  <2> QED
    BY <1>0, <1>b, <1>s, <2>1, <2>2, <2>3, <2>4, <2>5, <2>6, <2>7 DEF HandInv, HandMarked, HandOnDisk, SettlingSame, ExecutionUndisturbed, Armed, Recovery, SamePlan
<1>2. CASE CheckSupported
  <2>1. pc = "unsupported" /\ UNCHANGED <<mem, disk, node, coord, op, job>>
    BY <1>2 DEF CheckSupported, world
  <2>2. CASE pc' = "worker_error"
    BY <1>0, <1>m, <1>s, <2>1, <2>2, SettleStep
  <2>3. CASE pc' = "start" /\ UNCHANGED run
    <3>1. FilesMarked' /\ RequestsCurrent'
      BY <1>a, <2>1, FilesUntouched
    <3>2. HandInv'
      BY <1>0, <1>a, <2>1, <2>3 DEF HandInv, HandMarked, HandOnDisk, SettlingSame, ExecutionUndisturbed, Armed, Recovery, PlanRight, RightPlan
    <3> QED
      BY <1>b, <3>1, <3>2
  <2> QED
    BY <1>2, <2>2, <2>3 DEF CheckSupported
<1>3. CASE ReloadRecord
  <2>1. pc = "executed" /\ UNCHANGED <<disk, node, coord, op, job>>
    BY <1>3 DEF ReloadRecord, world
  <2>2. pc' = "hold_check" \/ (mem' = disk[job] /\ pc' \in {"recover_target", "settle"})
    BY <1>3 DEF ReloadRecord
  <2>3. FilesMarked' /\ RequestsCurrent'
    BY <1>a, <2>1, FilesUntouched
  <2>4. HandInv'
    BY <1>0, <1>a, <2>1, <2>2 DEF HandInv, HandMarked, HandOnDisk, SettlingSame, ExecutionUndisturbed, Armed, Recovery, FilesMarked, SamePlan, PlanRight, RightPlan
  <2> QED
    BY <1>b, <2>3, <2>4
<1>4. CASE Settle
  <2>1. /\ Saved(mem) \/ UNCHANGED disk
        /\ mem' = mem /\ UNCHANGED <<node, coord, op, job>>
    BY <1>4 DEF Settle, world
  <2>2. /\ pc \in Settling
        /\ pc' \in (Settling \ {"unsupported", "recover_reconcile"}) \cup {"return_ok", "hold_check"}
    BY <1>4 DEF Settle
  <2> QED
    BY <1>0, <1>m, <1>s, <2>1, <2>2, SettleStep
<1>5. CASE RecoverTarget
  <2>1. /\ Saved(mem) \/ UNCHANGED disk
        /\ mem' = mem /\ UNCHANGED <<node, coord, op, job>>
    BY <1>5 DEF RecoverTarget, Save, SaveFails, world
  <2>2. CASE pc' \in {"recovered", "mark_hold"}
    BY <1>5, <1>0, <1>m, <1>s, <2>1, <2>2, SettleStep DEF RecoverTarget
  <2>3. CASE pc' = "recover_reconcile" /\ mem.cleanupRequired /\ UNCHANGED disk
    <3>1. FilesMarked' /\ RequestsCurrent'
      BY <1>a, <2>1, <2>3, FilesUntouched
    <3>2. HandInv'
      BY <1>5, <1>0, <1>a, <2>1, <2>3 DEF RecoverTarget, HandInv, HandMarked, HandOnDisk, SettlingSame, ExecutionUndisturbed, Armed, Recovery, PlanRight, RightPlan, SamePlan
    <3> QED
      BY <1>b, <3>1, <3>2
  <2> QED
    BY <1>5, <2>2, <2>3 DEF RecoverTarget, Save, CleanupSettled
<1>6. CASE RecoverReconcile
  <2>1. /\ pc = "recover_reconcile" /\ pc' = "recover_save"
        /\ UNCHANGED <<disk, coord, op, job>>
        /\ \E n \in {"restored", "modified"}, c \in {"passed", "failed"} :
              node' = [node EXCEPT ![job] = n] /\ mem' = [mem EXCEPT !.cleanup = c]
    BY <1>6 DEF RecoverReconcile, Reconcile
  <2>2. mem.cleanupRequired /\ disk[job].cleanupRequired
    BY <1>a, <2>1 DEF HandInv, Armed
  <2>3. SamePlan(mem', mem) /\ mem'.status = mem.status
    BY <1>0, <2>1 DEF RunRecords, SamePlan
  <2>4. FilesMarked' /\ RequestsCurrent'
    BY <1>0, <1>a, <2>1, <2>2, TargetChanges
  <2>5. HandInv'
    BY <1>0, <1>a, <1>m, <2>1, <2>2, <2>3 DEF HandInv, HandMarked, HandOnDisk, SettlingSame, ExecutionUndisturbed, Armed, Recovery, PlanRight, RightPlan, SamePlan
  <2> QED
    BY <1>b, <2>4, <2>5
<1>7. CASE RecoverSave
  <2>1. /\ Saved(mem) \/ UNCHANGED disk
        /\ mem' = mem /\ UNCHANGED <<node, coord, op, job>>
    BY <1>7 DEF RecoverSave, Save, SaveFails, world
  <2>2. /\ pc \in Settling
        /\ pc' \in (Settling \ {"unsupported", "recover_reconcile"}) \cup {"return_ok", "hold_check"}
    BY <1>7 DEF RecoverSave, Save, SaveFails
  <2> QED
    BY <1>0, <1>m, <1>s, <2>1, <2>2, SettleStep
<1>8. CASE Recovered
  <2>1. /\ Saved(mem) \/ UNCHANGED disk
        /\ mem' = mem /\ UNCHANGED <<node, coord, op, job>>
    BY <1>8 DEF Recovered, world
  <2>2. /\ pc \in Settling
        /\ pc' \in (Settling \ {"unsupported", "recover_reconcile"}) \cup {"return_ok", "hold_check"}
    BY <1>8 DEF Recovered
  <2> QED
    BY <1>0, <1>m, <1>s, <2>1, <2>2, SettleStep
<1>9. CASE SetWorkerError
  <2> DEFINE rec == WithWorkerError(mem, WorkerErrorCode)
  <2>1. rec \in RunRecords /\ SamePlan(rec, mem) /\ rec.status # "absent"
    <3>1. WorkerErrorCode \in ErrorCodes
      BY <1>9 DEF SetWorkerError, WorkerErrorCode, ErrorCodes, Typed, CauseKnown
    <3> QED
      BY <1>0, <3>1, CompoundEditType, EditFacts
  <2>2. (Saved(rec) \/ UNCHANGED disk) /\ mem' = rec /\ UNCHANGED <<node, coord, op, job>>
    BY <1>9 DEF SetWorkerError, SaveMem, Save, SaveFails, world
  <2>3. /\ pc \in Settling
        /\ pc' \in (Settling \ {"unsupported", "recover_reconcile"}) \cup {"return_ok", "hold_check"}
    BY <1>9 DEF SetWorkerError, SaveMem, Save
  <2> QED
    BY <2>1, <2>2, <2>3, SettleStep
<1>10. CASE ReleaseClaim
  <2> DEFINE rec == WithReleasedClaim(mem)
  <2>1. rec \in RunRecords /\ SamePlan(rec, mem) /\ rec.status # "absent"
    BY <1>10, <1>0, <1>m, CompoundEditType, EditFacts DEF ReleaseClaim
  <2>2. (Saved(rec) \/ UNCHANGED disk) /\ mem' = rec /\ UNCHANGED <<node, coord, op, job>>
    BY <1>10 DEF ReleaseClaim, SaveMem, Save, SaveFails, world
  <2>3. /\ pc \in Settling
        /\ pc' \in (Settling \ {"unsupported", "recover_reconcile"}) \cup {"return_ok", "hold_check"}
    BY <1>10 DEF ReleaseClaim, SaveMem, Save
  <2> QED
    BY <2>1, <2>2, <2>3, SettleStep
<1>11. CASE MarkHold
  <2> DEFINE rec == [mem EXCEPT !.hold = IF run.why = "completion_conflict"
                                        THEN "completion_conflict" ELSE "cleanup"]
  <2>1. rec \in RunRecords /\ SamePlan(rec, mem) /\ rec.status # "absent"
    BY <1>11, <1>0, <1>m DEF MarkHold, RunRecords, Holds, SamePlan
  <2>2. (Saved(rec) \/ UNCHANGED disk) /\ mem' = rec /\ UNCHANGED <<node, coord, op, job>>
    BY <1>11 DEF MarkHold, SaveMem, Save, SaveFails, world
  <2>3. /\ pc \in Settling
        /\ pc' \in (Settling \ {"unsupported", "recover_reconcile"}) \cup {"return_ok", "hold_check"}
    BY <1>11 DEF MarkHold, SaveMem, Save
  <2> QED
    BY <2>1, <2>2, <2>3, SettleStep
<1> QED
  BY <1>1, <1>2, <1>3, <1>4, <1>5, <1>6, <1>7, <1>8, <1>9, <1>10, <1>11 DEF Settlement

\* Delivery changes no target and no plan.
LEMMA DeliveryMarked == ASSUME Typed, MarkInv, Delivery PROVE MarkInv'
<1> USE DEF Step, Worked, InHand, Settling, Undisturbed, ControllerPcs, SettlePcs
<1>0. pc \in Settling /\ job \in Jobs /\ mem \in RunRecords
  BY DEF Delivery, PrepareCompletion, SendAcknowledged, SendAnswerLost, SendConflict,
         SendRejected, PersistAcknowledgement, Typed, TypeOK, JobInHand
<1>a. FilesMarked /\ RequestsCurrent /\ HandInv
  BY DEF MarkInv, HandInv
<1>b. FilesMarked' /\ RequestsCurrent' /\ HandInv' => MarkInv'
  BY DEF MarkInv, HandInv
<1>m. mem.status # "absent"
  BY <1>0, <1>a DEF HandInv, HandMarked
<1>s. SamePlan(mem, mem)
  BY SamePlanReflexive
<1>1. CASE PrepareCompletion
  <2> DEFINE rec == [mem EXCEPT !.pending = CompletionBody(mem)]
  <2>1. UNCHANGED <<node, coord, op, job>>
    BY <1>1 DEF PrepareCompletion, world
  <2>2. CASE UNCHANGED <<mem, disk>> /\ pc' \in {"return_ok", "send", "hold_check"}
    BY <1>0, <1>m, <1>s, <2>1, <2>2, SettleStep
  <2>3. CASE CanPrepareCompletion(mem) /\ SaveMem(rec, "send", "hold_check")
    <3>1. rec \in RunRecords
      BY <1>0, <2>3, CompletionBodyType, FieldEditType
    <3>2. SamePlan(rec, mem) /\ rec.status # "absent"
      BY <1>0, <1>m DEF RunRecords, SamePlan
    <3>3. /\ Saved(rec) \/ UNCHANGED disk
          /\ mem' = rec /\ pc' \in {"send", "hold_check"}
      BY <2>3 DEF SaveMem, Save, SaveFails
    <3> QED
      BY <1>0, <2>1, <3>1, <3>2, <3>3, SettleStep
  <2> QED
    BY <1>1, <2>2, <2>3 DEF PrepareCompletion
<1>2. CASE SendAcknowledged
  <2>1. /\ UNCHANGED <<job, mem, op, disk, node>>
        /\ pc' \in {"ack", "send"}
        /\ UNCHANGED coord \/ coord' = [coord EXCEPT ![job] = "completed"]
    BY <1>2 DEF SendAcknowledged, Recorded, Duplicate, local
  <2>2. coord \in [Jobs -> {"queued", "claimed", "completed", "released"}]
    BY DEF Typed, TypeOK
  <2>3. \A j \in Jobs : coord'[j] = "queued" => coord[j] = "queued"
    BY <2>1, <2>2
  <2>4. FilesMarked' /\ RequestsCurrent'
    BY <1>a, <2>1, <2>3 DEF FilesMarked, RequestsCurrent, Recovery, PlanRight, RightPlan, SamePlan
  <2>5. HandInv'
    BY <1>0, <1>a, <2>1, <2>3 DEF HandInv, HandMarked, HandOnDisk, SettlingSame, ExecutionUndisturbed, Armed, Recovery, PlanRight, RightPlan, SamePlan
  <2> QED
    BY <1>b, <2>4, <2>5
<1>3. CASE SendAnswerLost
  <2>1. /\ UNCHANGED <<job, mem, op, disk, node>>
        /\ pc' \in {"ack", "send"}
        /\ UNCHANGED coord \/ coord' = [coord EXCEPT ![job] = "completed"]
    BY <1>3 DEF SendAnswerLost, Recorded, Duplicate, local
  <2>2. coord \in [Jobs -> {"queued", "claimed", "completed", "released"}]
    BY DEF Typed, TypeOK
  <2>3. \A j \in Jobs : coord'[j] = "queued" => coord[j] = "queued"
    BY <2>1, <2>2
  <2>4. FilesMarked' /\ RequestsCurrent'
    BY <1>a, <2>1, <2>3 DEF FilesMarked, RequestsCurrent, Recovery, PlanRight, RightPlan, SamePlan
  <2>5. HandInv'
    BY <1>0, <1>a, <2>1, <2>3 DEF HandInv, HandMarked, HandOnDisk, SettlingSame, ExecutionUndisturbed, Armed, Recovery, PlanRight, RightPlan, SamePlan
  <2> QED
    BY <1>b, <2>4, <2>5
<1>4. CASE SendConflict
  <2>1. /\ UNCHANGED <<mem, disk, node, coord, op, job>>
        /\ pc' \in {"mark_hold", "hold_check"}
    BY <1>4 DEF SendConflict, world
  <2> QED
    BY <1>0, <1>m, <1>s, <2>1, SettleStep
<1>5. CASE SendRejected
  <2>1. /\ UNCHANGED <<mem, disk, node, coord, op, job>>
        /\ pc' \in {"mark_hold", "hold_check"}
    BY <1>5 DEF SendRejected, world
  <2> QED
    BY <1>0, <1>m, <1>s, <2>1, SettleStep
<1>6. CASE PersistAcknowledgement
  <2> DEFINE rec == WithAcknowledgement(mem)
  <2>1. rec \in RunRecords /\ SamePlan(rec, mem) /\ rec.status # "absent"
    BY <1>0, <1>m, CompoundEditType, EditFacts
  <2>2. (Saved(rec) \/ UNCHANGED disk) /\ mem' = rec /\ UNCHANGED <<node, coord, op, job>>
    BY <1>6 DEF PersistAcknowledgement, SaveMem, Save, SaveFails, world
  <2>3. /\ pc \in Settling
        /\ pc' \in (Settling \ {"unsupported", "recover_reconcile"}) \cup {"return_ok", "hold_check"}
    BY <1>6 DEF PersistAcknowledgement, SaveMem, Save
  <2> QED
    BY <2>1, <2>2, <2>3, SettleStep
<1> QED
  BY <1>1, <1>2, <1>3, <1>4, <1>5, <1>6 DEF Delivery

\* Nothing is in hand and nothing is armed between jobs.
LEMMA NothingInHand ==
    ASSUME FilesMarked', RequestsCurrent', pc' \notin Worked, ~run'.authorized
    PROVE  MarkInv'
BY DEF MarkInv, HandMarked, HandOnDisk, SettlingSame, ExecutionUndisturbed, Armed,
       Worked, InHand, Settling, Undisturbed, ControllerPcs, SettlePcs

\* Before the first step every target is untouched.
LEMMA InitMarked == ASSUME Init PROVE MarkInv
BY DEF Init, MarkInv, FilesMarked, RequestsCurrent, HandMarked, HandOnDisk, SettlingSame,
       ExecutionUndisturbed, Armed, Worked, InHand, Settling, Undisturbed, ControllerPcs,
       SettlePcs, Recovery, PlanRight, NoRecord, NoRun, NoRequest, RecoveryActions

\* The run loop picks up a record that is marked, or a job nobody touched.
LEMMA RunLoopMarked == ASSUME Typed, MarkInv, RunLoop PROVE MarkInv'
<1> USE DEF Step, Worked, InHand, Settling, Undisturbed, ControllerPcs, SettlePcs
<1>a. FilesMarked /\ RequestsCurrent /\ HandInv
  BY DEF MarkInv, HandInv
<1>b. FilesMarked' /\ RequestsCurrent' /\ HandInv' => MarkInv'
  BY DEF MarkInv, HandInv
<1>c. coord \in [Jobs -> {"queued", "claimed", "completed", "released"}]
  BY DEF Typed, TypeOK
<1>1. ASSUME NEW j \in Jobs, ClaimJob(j) PROVE MarkInv'
  <2>1. /\ pc = "claim" /\ pc' = "create" /\ coord[j] = "queued"
        /\ coord' = [coord EXCEPT ![j] = "claimed"] /\ job' = j /\ mem' = Claimed
        /\ UNCHANGED <<disk, node, op, run>>
    BY <1>1 DEF ClaimJob
  <2>2. disk[j] = NoRecord /\ disk[j].status = "absent" /\ node[j] = "untouched"
    <3>1. NoRecord.status = "absent" /\ NoRecord.cleanupRequired = FALSE
      BY DEF NoRecord
    <3>2. disk[j] = NoRecord /\ (node[j] # "untouched" => disk[j].cleanupRequired)
      BY <1>a, <2>1 DEF FilesMarked
    <3> QED
      BY <3>1, <3>2
  <2>3. \A k \in Jobs : coord'[k] = "queued" => coord[k] = "queued"
    BY <1>c, <2>1
  <2>4. FilesMarked' /\ RequestsCurrent'
    BY <1>a, <2>1, <2>3 DEF FilesMarked, RequestsCurrent, Recovery, PlanRight, RightPlan, SamePlan
  <2>5. \A o \in Operators : Recovery(o) => op[o].job # j
    BY <1>a, <2>2 DEF RequestsCurrent
  <2>6. /\ Claimed.status = "queued" /\ Claimed.hold = "none" /\ NoRecord.hold = "none"
        /\ Claimed.cleanupRequired = FALSE
    BY DEF Claimed, NoRecord
  <2>7. coord'[j] = "claimed" /\ ~run.authorized
    BY <1>a, <1>c, <2>1 DEF HandInv, Armed
  <2>8. HandInv'
    BY <2>1, <2>2, <2>5, <2>6, <2>7 DEF HandInv, HandMarked, HandOnDisk, SettlingSame,
       ExecutionUndisturbed, Armed, Recovery, PlanRight
  <2> QED
    BY <1>b, <2>4, <2>8
<1>2. ASSUME NEW j \in Jobs, ClaimAnswerLost(j) PROVE MarkInv'
  <2>1. /\ pc = "claim" /\ coord' = [coord EXCEPT ![j] = "claimed"]
        /\ UNCHANGED <<pc, disk, node, op, run>>
    BY <1>2 DEF ClaimAnswerLost, local
  <2>2. \A k \in Jobs : coord'[k] = "queued" => coord[k] = "queued"
    BY <1>c, <2>1
  <2>3. FilesMarked' /\ RequestsCurrent'
    BY <1>a, <2>1, <2>2 DEF FilesMarked, RequestsCurrent, Recovery, PlanRight, RightPlan, SamePlan
  <2> QED
    BY <1>a, <2>1, <2>3, NothingInHand DEF HandInv, Armed
<1>3. CASE ClaimUnresolved \/ ClaimRejected \/ WakeUp
  <2>1. /\ pc \in {"claim", "op_wait", "coord_wait"}
        /\ pc' \in {"coord_wait", "exited", "recover"}
        /\ UNCHANGED <<disk, node, coord, op, run>>
    BY <1>3 DEF ClaimUnresolved, ClaimRejected, WakeUp, world
  <2>2. FilesMarked' /\ RequestsCurrent'
    BY <1>a, <2>1, FilesUntouched
  <2> QED
    BY <1>a, <2>1, <2>2, NothingInHand DEF HandInv, Armed
<1>4. CASE ReturnOk \/ CheckForHold
  <2>1. /\ pc' \in {"claim", "op_wait", "exited"} /\ ~run'.authorized
        /\ UNCHANGED <<disk, node, coord, op>>
    BY <1>4 DEF ReturnOk, CheckForHold, ForgetJob, NoRun, world
  <2>2. FilesMarked' /\ RequestsCurrent'
    BY <1>a, <2>1, FilesUntouched
  <2> QED
    BY <2>1, <2>2, NothingInHand
<1>5. CASE Recover
  <2>1. pc = "recover" /\ ~run.authorized /\ UNCHANGED <<disk, node, coord, op>>
    BY <1>5, <1>a DEF Recover, HandInv, Armed, world
  <2>2. FilesMarked' /\ RequestsCurrent'
    BY <1>a, <2>1, FilesUntouched
  <2>3. CASE UNCHANGED run /\ pc' \in {"claim", "hold_check"}
    BY <2>1, <2>2, <2>3, NothingInHand
  <2>4. ASSUME NEW j \in Unresolved, RecoverWith(j) PROVE MarkInv'
    <3>1. j \in Jobs /\ disk[j] # NoRecord
      BY <2>4 DEF Unresolved, RequiresWorkerAttention, NoRecord
    <3>2. /\ disk[j].status # "absent" /\ coord[j] # "queued" /\ PlanRight(disk[j], j)
          /\ node[j] # "untouched" => disk[j].cleanupRequired
      BY <1>a, <3>1 DEF FilesMarked
    <3>3. CASE pc' = "hold_check" /\ run' = NoRun
      BY <2>2, <3>3, NothingInHand DEF NoRun
    <3>4. CASE /\ job' = j /\ pc' \in {"deliver", "recover_target"}
               /\ mem' \in {disk[j], [disk[j] EXCEPT !.status = "interrupted"]}
      <4>1. disk[j] \in RunRecords
        BY <3>1 DEF Typed, TypeOK
      <4>2. SamePlan(mem', disk[j]) /\ mem'.status # "absent"
        BY <3>2, <3>4, <4>1 DEF RunRecords, SamePlan
      <4>3. HandInv'
        BY <2>1, <3>1, <3>2, <3>4, <4>2 DEF HandInv, HandMarked, HandOnDisk, SettlingSame,
           ExecutionUndisturbed, Armed, PlanRight, RightPlan, SamePlan
      <4> QED
        BY <1>b, <2>2, <4>3
    <3> QED
      BY <2>4, <3>3, <3>4 DEF RecoverWith
  <2> QED
    BY <1>5, <2>3, <2>4 DEF Recover
<1> QED
  BY <1>1, <1>2, <1>3, <1>4, <1>5 DEF RunLoop

\* The record a recovery request writes differs from the file in nothing the
\* mark depends on, and nobody but the settling worker has a copy in hand.
LEMMA RecoverySaveMarked ==
    ASSUME Typed, MarkInv, NEW o \in Operators, RecoverySave(o)
    PROVE  MarkInv'
<1> DEFINE j == op[o].job
           rec == RecoveryEdit(op[o].action, op[o].snap)
<1> USE DEF Worked, InHand, Settling, Undisturbed, ControllerPcs, SettlePcs
<1>1. /\ FilesMarked /\ RequestsCurrent /\ HandInv
      /\ op \in [Operators -> Requests] /\ disk \in [Jobs -> RunRecords]
  BY DEF MarkInv, HandInv, Typed, TypeOK
<1>2. /\ op[o].action \in RecoveryActions /\ op[o].snap \in RunRecords /\ j \in Jobs
      /\ SamePlan(op[o].snap, disk[j]) /\ op[o].snap.status # "absent"
      /\ disk[j].status # "absent"
  BY <1>1 DEF RecoverySave, RequestsCurrent, Recovery, Requests
<1>3. /\ rec \in RunRecords /\ SamePlan(rec, disk[j]) /\ rec.status # "absent"
  <2>1. SamePlan(rec, op[o].snap) /\ rec.status = op[o].snap.status
    BY <1>2, EditFacts
  <2> QED
    BY <1>2, <2>1, RecoveryEditType DEF SamePlan
<1>4. /\ disk' = disk \/ disk' = [disk EXCEPT ![j] = rec]
      /\ op' = [op EXCEPT ![o] = NoRequest]
      /\ UNCHANGED <<pc, job, mem, run, node, coord>>
  BY DEF RecoverySave, local, world
<1>5. \A k \in Jobs : /\ SamePlan(disk'[k], disk[k])
                      /\ disk'[k] = disk[k] \/ (k = j /\ disk'[k].status # "absent")
  BY <1>1, <1>2, <1>3, <1>4 DEF SamePlan
<1>6. \A p \in Operators : Recovery(p)' => p # o /\ Recovery(p) /\ op'[p] = op[p]
  <2>1. NoRequest.action \notin RecoveryActions
    BY DEF NoRequest, RecoveryActions
  <2> QED
    BY <1>1, <1>4, <2>1 DEF Recovery
<1>7. FilesMarked'
  <2>1. disk[j] # NoRecord /\ coord[j] # "queued"
    BY <1>1, <1>2 DEF FilesMarked, NoRecord
  <2> QED
    BY <1>1, <1>2, <1>4, <1>5, <2>1 DEF FilesMarked, SamePlan, PlanRight, RightPlan
<1>8. RequestsCurrent'
  BY <1>1, <1>2, <1>4, <1>5, <1>6 DEF RequestsCurrent, SamePlan
<1>9. pc \in Worked => job \in Jobs
  BY DEF Typed, JobInHand
<1>10. HandMarked'
  BY <1>1, <1>4 DEF HandInv, HandMarked, PlanRight, RightPlan
<1>11. ExecutionUndisturbed' /\ (pc \in Undisturbed => disk'[job] = disk[job])
  <2>1. pc \in Undisturbed => j # job
    BY <1>1, <1>2 DEF HandInv, ExecutionUndisturbed, Recovery
  <2>2. pc \in Undisturbed => disk'[job] = disk[job]
    BY <1>5, <1>9, <2>1
  <2> QED
    BY <1>1, <1>4, <1>6, <2>2 DEF HandInv, ExecutionUndisturbed
<1>12. HandOnDisk' /\ SettlingSame'
  BY <1>1, <1>4, <1>5, <1>9, <1>11 DEF HandInv, HandOnDisk, SettlingSame, SamePlan
<1>13. Armed'
  BY <1>1, <1>4, <1>5, <1>9 DEF HandInv, Armed, SamePlan, RightPlan
<1> QED
  BY <1>7, <1>8, <1>10, <1>11, <1>12, <1>13 DEF MarkInv

\* Heartbeats, requests, the coordinator and a restart keep the mark.
LEMMA OthersMarked ==
    ASSUME Typed, MarkInv,
           \/ Heartbeat \/ Operator \/ Restart
           \/ \E j \in Jobs : CoordinatorReleases(j) \/ CoordinatorReinstates(j)
    PROVE  MarkInv'
<1> USE DEF Worked, InHand, Settling, Undisturbed, ControllerPcs, SettlePcs
<1>a. /\ FilesMarked /\ RequestsCurrent /\ HandInv
      /\ op \in [Operators -> Requests] /\ disk \in [Jobs -> RunRecords]
      /\ coord \in [Jobs -> {"queued", "claimed", "completed", "released"}]
      /\ node \in [Jobs -> {"untouched", "modified", "restored"}]
  BY DEF MarkInv, HandInv, Typed, TypeOK
<1>b. FilesMarked' /\ RequestsCurrent' /\ HandInv' => MarkInv'
  BY DEF MarkInv, HandInv
<1>j. pc \in Worked => job \in Jobs
  BY DEF Typed, JobInHand
<1>1. CASE Heartbeat
  <2>1. UNCHANGED <<pc, job, mem, run, disk, node, coord, op>>
    BY <1>1 DEF Heartbeat, HeartbeatClaimLost, HeartbeatCancel, world
  <2>2. FilesMarked' /\ RequestsCurrent'
    BY <1>a, <2>1, FilesUntouched
  <2>3. HandInv'
    BY <1>a, <2>1 DEF HandInv, HandMarked, HandOnDisk, SettlingSame, ExecutionUndisturbed,
       Armed, Recovery, PlanRight, RightPlan, SamePlan
  <2> QED
    BY <1>b, <2>2, <2>3
<1>2. ASSUME NEW o \in Operators, NEW a \in RecoveryActions, NEW j \in Jobs,
             RecoveryRequest(o, a, j)
      PROVE  MarkInv'
  <2>1. /\ op' = [op EXCEPT ![o] = [action |-> a, job |-> j, snap |-> disk[j]]]
        /\ disk[j].status # "absent" /\ disk[j].hold # "none"
        /\ UNCHANGED <<pc, job, mem, run, disk, coord>>
        /\ node' = node \/ (disk[j].cleanupRequired /\ node' = [node EXCEPT ![j] = "restored"])
    BY <1>2 DEF RecoveryRequest, RecoveryAllowed, RecoveryActions, local
  <2>2. \A k \in Jobs : node'[k] # "untouched" => node[k] # "untouched" \/ disk[k].cleanupRequired
    BY <1>a, <2>1
  <2>3. FilesMarked'
    BY <1>a, <2>1, <2>2 DEF FilesMarked, PlanRight, RightPlan
  <2>4. RequestsCurrent'
    BY <1>a, <2>1 DEF RequestsCurrent, Recovery, SamePlan
  <2>5. pc \in Undisturbed => j # job
    BY <1>a, <2>1 DEF HandInv, ExecutionUndisturbed
  <2>6. ExecutionUndisturbed'
    BY <1>a, <2>1, <2>5 DEF HandInv, ExecutionUndisturbed, Recovery
  <2>7. HandMarked'
    BY <1>a, <1>j, <2>1, <2>5 DEF HandInv, HandMarked, SettlingSame, SamePlan, PlanRight, RightPlan
  <2>8. HandOnDisk' /\ SettlingSame' /\ Armed'
    BY <1>a, <2>1 DEF HandInv, HandOnDisk, SettlingSame, SamePlan, Armed, RightPlan
  <2> QED
    BY <2>3, <2>4, <2>6, <2>7, <2>8 DEF MarkInv
<1>3. ASSUME NEW o \in Operators, RecoverySave(o) PROVE MarkInv'
  BY <1>3, RecoverySaveMarked
<1>4. ASSUME NEW o \in Operators, NEW j \in Jobs, ReadyRequest(o, j) PROVE MarkInv'
  <2>1. /\ op' = [op EXCEPT ![o] = [NoRequest EXCEPT !.action = "ready", !.job = j]]
        /\ UNCHANGED <<pc, job, mem, run, disk, coord, node>>
    BY <1>4 DEF ReadyRequest, local, world
  <2>2. \A p \in Operators : Recovery(p)' => Recovery(p) /\ op'[p] = op[p]
    BY <1>a, <2>1 DEF Recovery, NoRequest, RecoveryActions
  <2>3. FilesMarked' /\ RequestsCurrent'
    <3>1. FilesMarked'
      BY <1>a, <2>1 DEF FilesMarked, PlanRight, RightPlan
    <3>2. RequestsCurrent'
      BY <1>a, <2>1, <2>2 DEF RequestsCurrent
    <3> QED
      BY <3>1, <3>2
  <2>4. HandInv'
    BY <1>a, <2>1, <2>2 DEF HandInv, HandMarked, HandOnDisk, SettlingSame,
       ExecutionUndisturbed, Armed, PlanRight, RightPlan, SamePlan
  <2> QED
    BY <1>b, <2>3, <2>4
<1>5. ASSUME NEW o \in Operators, ReadyCall(o) PROVE MarkInv'
  <2>1. /\ op' = [op EXCEPT ![o] = NoRequest]
        /\ UNCHANGED <<pc, job, mem, run, disk, node>>
        /\ coord' = coord \/ coord' = [coord EXCEPT ![op[o].job] = "released"]
    BY <1>5 DEF ReadyCall, local
  <2>2. \A p \in Operators : Recovery(p)' => Recovery(p) /\ op'[p] = op[p]
    BY <1>a, <2>1 DEF Recovery, NoRequest, RecoveryActions
  <2>3. \A k \in Jobs : coord'[k] = "queued" => coord[k] = "queued"
    BY <1>a, <2>1
  <2>4. FilesMarked' /\ RequestsCurrent'
    <3>1. FilesMarked'
      BY <1>a, <2>1, <2>3 DEF FilesMarked, PlanRight, RightPlan
    <3>2. RequestsCurrent'
      BY <1>a, <2>1, <2>2 DEF RequestsCurrent
    <3> QED
      BY <3>1, <3>2
  <2>5. HandInv'
    BY <1>a, <1>j, <2>1, <2>2, <2>3 DEF HandInv, HandMarked, HandOnDisk, SettlingSame,
       ExecutionUndisturbed, Armed, PlanRight, RightPlan, SamePlan
  <2> QED
    BY <1>b, <2>4, <2>5
<1>6. CASE Restart
  <2>1. /\ pc' = "recover" /\ run' = NoRun /\ op' = [o \in Operators |-> NoRequest]
        /\ UNCHANGED <<disk, node, coord>>
    BY <1>6 DEF Restart, ForgetJob, world
  <2>2. \A o \in Operators : ~Recovery(o)'
    BY <2>1 DEF Recovery, NoRequest, RecoveryActions
  <2>3. FilesMarked' /\ RequestsCurrent'
    BY <1>a, <2>1, <2>2 DEF FilesMarked, RequestsCurrent, PlanRight, RightPlan
  <2> QED
    BY <2>1, <2>3, NothingInHand DEF NoRun
<1>7. ASSUME NEW j \in Jobs, CoordinatorReleases(j) \/ CoordinatorReinstates(j) PROVE MarkInv'
  <2>1. /\ UNCHANGED <<pc, job, mem, run, disk, node, op>>
        /\ \E c \in {"released", "claimed"} : coord' = [coord EXCEPT ![j] = c]
    BY <1>7 DEF CoordinatorReleases, CoordinatorReinstates, local
  <2>2. \A k \in Jobs : coord'[k] = "queued" => coord[k] = "queued"
    BY <1>a, <2>1
  <2>3. FilesMarked' /\ RequestsCurrent'
    BY <1>a, <2>1, <2>2 DEF FilesMarked, RequestsCurrent, Recovery, PlanRight, RightPlan, SamePlan
  <2>4. HandInv'
    BY <1>a, <1>j, <2>1, <2>2 DEF HandInv, HandMarked, HandOnDisk, SettlingSame,
       ExecutionUndisturbed, Armed, Recovery, PlanRight, RightPlan, SamePlan
  <2> QED
    BY <1>b, <2>3, <2>4
<1> QED
  BY <1>1, <1>2, <1>3, <1>4, <1>5, <1>6, <1>7 DEF Operator

(***************************************************************************)
(* Every copy of a record that may still be written carries the mark of a  *)
(* changed target.                                                         *)
(***************************************************************************)
THEOREM CleanupMarkInvariant == Spec => [](Typed /\ MarkInv)
<1>1. Init => Typed /\ MarkInv
  BY InitTyped, InitMarked
<1>2. Typed /\ MarkInv /\ [Next]_vars => (Typed /\ MarkInv)'
  <2>1. CASE UNCHANGED vars
    BY <2>1 DEF Typed, TypeOK, JobInHand, CauseKnown, BodyInHand, MarkInv, FilesMarked,
       RequestsCurrent, HandMarked, HandOnDisk, SettlingSame, ExecutionUndisturbed, Armed,
       Recovery, PlanRight, RightPlan, SamePlan, vars, local, world
  <2>2. Typed /\ Next => Typed'
    BY ControllerTyped, SettlementTyped, DeliveryTyped, RunLoopTyped, OthersTyped
       DEF Next, Worker
  <2>3. Typed /\ MarkInv /\ Next => MarkInv'
    BY ControllerMarked, SettlementMarked, DeliveryMarked, RunLoopMarked, OthersMarked
       DEF Next, Worker
  <2> QED
    BY <2>1, <2>2, <2>3
<1> QED
  BY <1>1, <1>2, PTL DEF Spec

(***************************************************************************)
(* A target that may have been changed has a required cleanup with the     *)
(* right plan in its file: for any jobs, operators, faults and restarts.   *)
(***************************************************************************)
THEOREM CleanupBeforeMutation == Spec => []CleanupPersistedBeforeMutation
<1>1. MarkInv => CleanupPersistedBeforeMutation
  BY DEF MarkInv, FilesMarked, PlanRight, CleanupPersistedBeforeMutation
<1> QED
  BY <1>1, CleanupMarkInvariant, PTL

================================================================================
