---------------------------- MODULE CompletionProofs ----------------------------
(***************************************************************************)
(* What recovery relies on when it reads a record back: a passed cleanup   *)
(* is kept, and the completion of a job is decided once.  For every set of *)
(* jobs and operators, every choice of faults and any number of restarts.  *)
(***************************************************************************)
EXTENDS HarnessWorkerProofs

--------------------------------------------------------------------------------
(* A passed cleanup is kept                                                 *)

CleanOnRecord(r) == r.cleanup = "passed" /\ r.cleanupRequired

\* No operator can write the file of j, or start to.
Free(j) ==
    /\ disk[j].hold = "none"
    /\ \A o \in Operators : Recovery(o) => op[o].job # j

Recovering == {"recover_target", "recover_reconcile", "recover_save", "recovered",
               "worker_error"}

\* What the endpoints checked of the record they read.
RequestsJustified ==
    \A o \in Operators : Recovery(o) =>
        /\ op[o].snap.hold # "none"
        /\ op[o].action \in {"continueAfterCleanup", "confirmCleanup"}
                => op[o].snap.cleanupRequired
        /\ op[o].action = "retryCompletion" => op[o].snap.pending # NoOutcome

\* Where another operator was faster and left a claim to recover, the cleanup
\* is confirmed.
Overtaken ==
    \A o \in Operators : Recovery(o) =>
        LET r == disk[op[o].job]
        IN  (r.hold = "none" /\ r.pending = NoOutcome /\ r.token) => CleanOnRecord(r)

\* A recovery that operators can still overtake has nothing to reconcile.
CleanSecond == run.why = "interrupted" /\ CleanOnRecord(mem)

RecoveredAlone ==
    /\ pc \in {"executed", "settle", "recover_reconcile", "recover_save"} => Free(job)
    /\ pc \in Recovering => Free(job) \/ CleanSecond
    /\ pc \in Recovering \cup {"settle"} => mem.hold = "none"

\* The cleanup status in memory and on disk up to the next reconciliation.
CleanupsKept ==
    /\ pc \in {"create", "unsupported"} => mem.cleanup = "pending"
    /\ pc = "unsupported" => disk[job].cleanup = "pending"
    /\ pc \in ControllerPcs \ {"save_cleanup", "finish"} =>
            disk[job].cleanup # "passed" /\ mem.cleanup # "passed"
    /\ pc = "settle" => mem.cleanup = disk[job].cleanup
    /\ pc = "recover_target" => mem.cleanup = disk[job].cleanup \/ CleanSecond
    /\ pc = "recover_reconcile" => disk[job].cleanup # "passed"

CleanupInv == RequestsJustified /\ Overtaken /\ RecoveredAlone /\ CleanupsKept

\* A step of the controller writes the file of its job only, without a hold.
LEMMA ControllerFrame ==
    ASSUME Typed, MarkInv, (MarkInv)', Controller
    PROVE  /\ pc \in ControllerPcs /\ job \in Jobs /\ pc' \in ControllerPcs \cup {"executed"}
           /\ mem \in RunRecords /\ disk \in [Jobs -> RunRecords] /\ run \in RunLocals
           /\ UNCHANGED <<job, op, sent, coord>>
           /\ \A j \in Jobs \ {job} : disk'[j] = disk[j]
           /\ disk[job].hold = "none" /\ mem.hold = "none" /\ disk'[job].hold = "none"
           /\ \A o \in Operators : Recovery(o) => op[o].job # job
<1> USE DEF Step, ControllerPcs
<1>1. /\ pc \in ControllerPcs /\ job \in Jobs /\ mem \in RunRecords
      /\ disk \in [Jobs -> RunRecords] /\ run \in RunLocals
  BY DEF Controller, StartExecution, Preflight, PrepareBaseline, InstallBaseline, Mutate,
         PrepareCandidate, UpdateCandidate, GatherEvidence, BeginCleanup,
         ControllerReconcile, SaveCleanup, FinishExecution, Typed, TypeOK, JobInHand
<1>2. /\ UNCHANGED <<job, op, sent, coord>>
      /\ pc' \in ControllerPcs \cup {"executed"}
  BY DEF Controller, StartExecution, Preflight, PrepareBaseline, InstallBaseline, Mutate,
         PrepareCandidate, UpdateCandidate, GatherEvidence, BeginCleanup, WorkflowFails,
         AuthorizeCleanup, ControllerReconcile, Reconcile, SaveCleanup, FinishExecution,
         Execution, ExecutionSave, world
<1>3. /\ disk[job].hold = "none" /\ mem.hold = "none"
      /\ \A o \in Operators : Recovery(o) => op[o].job # job
  BY <1>1 DEF MarkInv, ExecutionUndisturbed, Undisturbed
<1>4. /\ \A j \in Jobs \ {job} : disk'[j] = disk[j]
      /\ disk'[job].hold = "none"
  <2> DEFINE started == [disk[job] EXCEPT !.status = "running"]
             planned == [mem EXCEPT !.plan = RightPlan(job)]
             marked == [mem EXCEPT !.cleanupRequired = TRUE]
  <2>1. /\ started.hold = "none" /\ planned.hold = "none" /\ marked.hold = "none"
        /\ WithResult(mem, run.failed).hold = "none"
    BY <1>1, <1>3 DEF RunRecords, WithResult
  <2>2. \/ UNCHANGED disk \/ Saved(started) \/ Saved(planned) \/ Saved(marked) \/ Saved(mem)
        \/ Saved(WithResult(mem, run.failed))
    BY DEF Controller, StartExecution, Preflight, PrepareBaseline, InstallBaseline, Mutate,
         PrepareCandidate, UpdateCandidate, GatherEvidence, BeginCleanup,
         AuthorizeCleanup, ControllerReconcile, SaveCleanup, FinishExecution,
         ExecutionSave, SaveFails, world
  <2> QED
    BY <1>1, <1>3, <2>1, <2>2 DEF Saved
<1> QED
  BY <1>1, <1>2, <1>3, <1>4

\* The controller reports a passed cleanup only after its reconciliation.
LEMMA ControllerKeeps ==
    ASSUME Typed, MarkInv, (MarkInv)', CleanupInv, Controller
    PROVE  (CleanupInv)'
<1> USE DEF Step, ControllerPcs
<1>0. /\ pc \in ControllerPcs /\ job \in Jobs /\ pc' \in ControllerPcs \cup {"executed"}
      /\ mem \in RunRecords /\ disk \in [Jobs -> RunRecords] /\ run \in RunLocals
      /\ UNCHANGED <<job, op>>
      /\ \A j \in Jobs \ {job} : disk'[j] = disk[j]
      /\ disk'[job].hold = "none"
      /\ \A o \in Operators : Recovery(o) => op[o].job # job
  BY ControllerFrame
<1>1. (RequestsJustified /\ Overtaken)'
  <2>1. \A o \in Operators : Recovery(o) => op[o].job \in Jobs \ {job}
    BY <1>0 DEF MarkInv, RequestsCurrent
  <2> QED
    BY <1>0, <2>1 DEF CleanupInv, RequestsJustified, Overtaken, Recovery
<1>2. RecoveredAlone'
  BY <1>0 DEF RecoveredAlone, Recovering, Free, Recovery
<1>3. ASSUME pc' \in ControllerPcs \ {"save_cleanup", "finish"}
      PROVE  disk'[job].cleanup # "passed" /\ mem'.cleanup # "passed"
  <2>1. CASE pc \in ControllerPcs \ {"save_cleanup", "finish"}
    <3>1. disk[job].cleanup # "passed" /\ mem.cleanup # "passed"
      BY <2>1 DEF CleanupInv, CleanupsKept
    <3> DEFINE started == [disk[job] EXCEPT !.status = "running"]
               planned == [mem EXCEPT !.plan = RightPlan(job)]
               marked == [mem EXCEPT !.cleanupRequired = TRUE]
    <3>2. /\ started.cleanup = disk[job].cleanup /\ planned.cleanup = mem.cleanup
          /\ marked.cleanup = mem.cleanup
      BY <1>0 DEF RunRecords
    <3>3. /\ \/ UNCHANGED disk \/ Saved(started) \/ Saved(planned) \/ Saved(marked) \/ Saved(mem)
          /\ mem' \in {mem, started, planned, marked}
      BY <1>3, <2>1 DEF Controller, StartExecution, Preflight, PrepareBaseline, InstallBaseline, Mutate,
         PrepareCandidate, UpdateCandidate, GatherEvidence, BeginCleanup,
         AuthorizeCleanup, ControllerReconcile, Reconcile, SaveCleanup, FinishExecution,
         ExecutionSave, SaveFails, world
    <3> QED
      BY <1>0, <3>1, <3>2, <3>3 DEF Saved
  <2>2. CASE pc \in {"save_cleanup", "finish"}
    BY <1>3, <2>2 DEF Controller, StartExecution, Preflight, PrepareBaseline, InstallBaseline, Mutate,
         PrepareCandidate, UpdateCandidate, GatherEvidence, BeginCleanup,
         ControllerReconcile, SaveCleanup, FinishExecution, ExecutionSave
  <2> QED
    BY <1>0, <2>1, <2>2
<1> QED
  BY <1>0, <1>1, <1>2, <1>3 DEF CleanupInv, CleanupsKept

\* A write of the file of the job in hand that no request can overtake.
LEMMA WriteKeeps ==
    ASSUME RequestsJustified, Overtaken, job \in Jobs, disk \in [Jobs -> RunRecords],
           NEW rec, disk' \in {disk, [disk EXCEPT ![job] = rec]}, UNCHANGED op,
           \/ rec.hold # "none" \/ rec.pending # NoOutcome \/ ~rec.token \/ CleanOnRecord(rec)
           \/ \A o \in Operators : Recovery(o) => op[o].job # job
    PROVE  (RequestsJustified /\ Overtaken)'
<1>1. \/ disk' = disk
      \/ /\ disk'[job] = rec
         /\ \A j : j # job => disk'[j] = disk[j]
  <2>1. CASE disk' = [disk EXCEPT ![job] = rec]
    <3>1. DOMAIN disk = Jobs /\ disk' = [j \in Jobs |-> IF j = job THEN rec ELSE disk[j]]
      BY <2>1
    <3> QED
      BY <2>1, <3>1
  <2> QED
    BY <2>1
<1> QED
  BY <1>1 DEF RequestsJustified, Overtaken, Recovery, CleanOnRecord

\* Settling and delivering: only a recovery nobody can overtake reconciles.
LEMMA SettlementKeeps ==
    ASSUME Typed, MarkInv, (MarkInv)', CleanupInv, Settlement \/ Delivery
    PROVE  (CleanupInv)'
<1> USE DEF Step, ControllerPcs, SettlePcs, Recovering
<1>0. /\ pc \in SettlePcs /\ job \in Jobs /\ mem \in RunRecords /\ disk[job] \in RunRecords
      /\ disk \in [Jobs -> RunRecords] /\ UNCHANGED <<job, op>>
      /\ RequestsJustified /\ Overtaken /\ RecoveredAlone /\ CleanupsKept
  BY DEF Settlement, CreateRecord, CheckSupported, ReloadRecord, Settle, RecoverTarget,
         RecoverReconcile, RecoverSave, Recovered, SetWorkerError, ReleaseClaim, MarkHold,
         Delivery, PrepareCompletion, SendAcknowledged, SendAnswerLost, SendConflict,
         SendRejected, PersistAcknowledgement, Typed, TypeOK, JobInHand, local, CleanupInv
<1>1. CASE CreateRecord
  <2>1. /\ pc = "create" /\ UNCHANGED mem
        /\ \/ pc' = "unsupported" /\ disk' = [disk EXCEPT ![job] = mem]
           \/ pc' = "hold_check" /\ disk' \in {disk, [disk EXCEPT ![job] = mem]}
    BY <1>1 DEF CreateRecord, Save, SaveFails, Saved
  <2>2. \A o \in Operators : Recovery(o) => op[o].job # job
    BY <2>1 DEF MarkInv, ExecutionUndisturbed, Undisturbed
  <2>3. (RequestsJustified /\ Overtaken)'
    BY <1>0, <2>1, <2>2, WriteKeeps
  <2> QED
    BY <1>0, <2>1, <2>3 DEF CleanupInv, RecoveredAlone, CleanupsKept
<1>2. CASE CheckSupported
  <2>1. pc = "unsupported" /\ pc' \in {"start", "worker_error"} /\ UNCHANGED <<mem, disk>>
    BY <1>2 DEF CheckSupported, world
  <2>2. Free(job) /\ mem.hold = "none"
    BY <2>1 DEF MarkInv, ExecutionUndisturbed, Undisturbed, Free
  <2> QED
    BY <1>0, <2>1, <2>2 DEF CleanupInv, RequestsJustified, Overtaken, RecoveredAlone,
       CleanupsKept, Free, Recovery
<1>3. CASE ReloadRecord
  <2>1. /\ pc = "executed" /\ UNCHANGED disk
        /\ \/ pc' = "hold_check"
           \/ pc' \in {"settle", "recover_target"} /\ mem' = disk[job]
    BY <1>3 DEF ReloadRecord
  <2> QED
    BY <1>0, <2>1 DEF CleanupInv, RequestsJustified, Overtaken, RecoveredAlone,
       CleanupsKept, Free, Recovery
<1>4. CASE Settle
  <2>1. /\ pc = "settle" /\ UNCHANGED <<disk, mem>>
        /\ pc' \in {"recover_target", "mark_hold", "deliver"}
    BY <1>4 DEF Settle
  <2> QED
    BY <1>0, <2>1 DEF CleanupInv, RequestsJustified, Overtaken, RecoveredAlone,
       CleanupsKept, Free, Recovery
<1>5. CASE RecoverTarget
  <2>0. pc = "recover_target" /\ UNCHANGED <<mem, run>>
    BY <1>5 DEF RecoverTarget
  <2>1. CASE pc' = "recover_reconcile"
    <3>1. UNCHANGED disk /\ ~CleanupSettled(mem)
      BY <1>5, <2>1 DEF RecoverTarget, Save
    <3>2. ~CleanSecond /\ mem.cleanup # "passed"
      BY <3>1 DEF CleanSecond, CleanOnRecord, CleanupSettled
    <3> QED
      BY <1>0, <2>0, <2>1, <3>1, <3>2 DEF CleanupInv, RequestsJustified, Overtaken,
         RecoveredAlone, CleanupsKept, Free, Recovery
  <2>2. CASE pc' \in {"recovered", "mark_hold"} /\ disk' \in {disk, [disk EXCEPT ![job] = mem]}
    <3>1. (RequestsJustified /\ Overtaken)'
      BY <1>0, <2>0, <2>2, WriteKeeps DEF RecoveredAlone, CleanSecond, Free
    <3> QED
      BY <1>0, <2>0, <2>2, <3>1 DEF CleanupInv, RecoveredAlone, CleanupsKept, CleanSecond,
         Free, Recovery
  <2> QED
    BY <1>5, <2>1, <2>2 DEF RecoverTarget, Save, SaveFails, Saved
<1>6. CASE RecoverReconcile
  <2>1. /\ pc = "recover_reconcile" /\ pc' = "recover_save" /\ UNCHANGED disk
        /\ \E c \in Cleanups : mem' = [mem EXCEPT !.cleanup = c]
    BY <1>6 DEF RecoverReconcile, Reconcile, Cleanups
  <2>2. mem'.hold = mem.hold
    BY <1>0, <2>1 DEF RunRecords
  <2> QED
    BY <1>0, <2>1, <2>2 DEF CleanupInv, RequestsJustified, Overtaken, RecoveredAlone,
       CleanupsKept, Free, Recovery
<1>7. CASE RecoverSave
  <2>1. /\ pc = "recover_save" /\ UNCHANGED <<mem, run>>
        /\ pc' \in {"recovered", "mark_hold"} /\ disk' \in {disk, [disk EXCEPT ![job] = mem]}
    BY <1>7 DEF RecoverSave, Save, SaveFails, Saved
  <2>2. (RequestsJustified /\ Overtaken)'
    BY <1>0, <2>1, WriteKeeps DEF RecoveredAlone, Free
  <2> QED
    BY <1>0, <2>1, <2>2 DEF CleanupInv, RecoveredAlone, CleanupsKept, Free, Recovery
<1>8. CASE Recovered
  <2>1. /\ pc = "recovered" /\ UNCHANGED <<mem, run, disk>>
        /\ pc' \in {"worker_error", "release", "mark_hold"}
    BY <1>8 DEF Recovered
  <2> QED
    BY <1>0, <2>1 DEF CleanupInv, RequestsJustified, Overtaken, RecoveredAlone,
       CleanupsKept, CleanSecond, Free, Recovery
<1>9. CASE SetWorkerError
  <2>1. /\ pc = "worker_error" /\ UNCHANGED run /\ mem' = WithWorkerError(mem, WorkerErrorCode)
        /\ \/ pc' = "settle" /\ run.why = "exec_error" /\ disk' = [disk EXCEPT ![job] = mem']
           \/ pc' \in {"deliver", "hold_check"} /\ disk' \in {disk, [disk EXCEPT ![job] = mem']}
    BY <1>9 DEF SetWorkerError, SaveMem, Save, SaveFails, Saved
  <2>2. /\ mem'.hold = mem.hold /\ mem'.cleanupRequired = mem.cleanupRequired
        /\ mem.cleanup = "passed" => mem'.cleanup = "passed"
    BY <1>0, <2>1 DEF WithWorkerError, WorkerErrorCleanup, RunRecords
  <2>3. (RequestsJustified /\ Overtaken)'
    BY <1>0, <2>1, <2>2, WriteKeeps DEF RecoveredAlone, CleanSecond, CleanOnRecord, Free
  <2> QED
    BY <1>0, <2>1, <2>2, <2>3 DEF CleanupInv, RecoveredAlone, CleanupsKept, CleanSecond,
       Free, Recovery
<1>10. CASE ReleaseClaim \/ MarkHold \/ PrepareCompletion \/ PersistAcknowledgement
  <2>1. pc' \in {"return_ok", "hold_check", "send"}
    BY <1>10 DEF ReleaseClaim, MarkHold, PrepareCompletion, PersistAcknowledgement, SaveMem, Save
  <2>2. \/ UNCHANGED disk
        \/ disk' = [disk EXCEPT ![job] = mem']
    BY <1>10 DEF ReleaseClaim, MarkHold, PrepareCompletion, PersistAcknowledgement, SaveMem, Save,
       SaveFails, Saved
  <2>3. UNCHANGED <<mem, disk>> \/ mem'.hold # "none" \/ mem'.pending # NoOutcome \/ ~mem'.token
    <3>1. CASE ReleaseClaim
      BY <1>0, <3>1 DEF ReleaseClaim, SaveMem, WithReleasedClaim, RunRecords
    <3>2. CASE MarkHold
      BY <1>0, <3>2 DEF MarkHold, SaveMem, RunRecords
    <3>3. CASE PrepareCompletion
      <4>1. CanPrepareCompletion(mem) => CompletionBody(mem) # NoOutcome
        BY DEF CanPrepareCompletion, CompletionBody
      <4> QED
        BY <1>0, <3>3, <4>1 DEF PrepareCompletion, SaveMem, RunRecords
    <3>4. CASE PersistAcknowledgement
      BY <1>0, <3>4 DEF PersistAcknowledgement, SaveMem, WithAcknowledgement, RunRecords
    <3> QED
      BY <1>10, <3>1, <3>2, <3>3, <3>4
  <2>4. (RequestsJustified /\ Overtaken)'
    <3>1. CASE disk' = disk
      BY <1>0, <3>1 DEF RequestsJustified, Overtaken, Recovery
    <3>2. CASE disk' # disk
      BY <1>0, <2>2, <2>3, <3>2, WriteKeeps
    <3> QED
      BY <3>1, <3>2
  <2> QED
    BY <2>1, <2>4 DEF CleanupInv, RecoveredAlone, CleanupsKept
<1>11. CASE SendAcknowledged \/ SendAnswerLost \/ SendConflict \/ SendRejected
  <2>1. pc' \in {"ack", "send", "mark_hold", "hold_check"} /\ UNCHANGED disk
    BY <1>11 DEF SendAcknowledged, SendAnswerLost, SendConflict, SendRejected, local
  <2> QED
    BY <1>0, <2>1 DEF CleanupInv, RequestsJustified, Overtaken, RecoveredAlone,
       CleanupsKept, Recovery
<1> QED
  BY <1>1, <1>2, <1>3, <1>4, <1>5, <1>6, <1>7, <1>8, <1>9, <1>10, <1>11
     DEF Settlement, Delivery

\* Recovery starts from the file; the other steps of the loop have no record.
LEMMA RunLoopKeeps ==
    ASSUME Typed, MarkInv, CleanupInv, RunLoop
    PROVE  (CleanupInv)'
<1> USE DEF Step, ControllerPcs, SettlePcs, Recovering
<1>0. /\ disk \in [Jobs -> RunRecords]
      /\ RequestsJustified /\ Overtaken /\ RecoveredAlone /\ CleanupsKept
  BY DEF Typed, TypeOK, CleanupInv
<1>1. UNCHANGED <<op, disk>>
  BY DEF RunLoop, ClaimJob, ClaimAnswerLost, ClaimUnresolved, ClaimRejected, ReturnOk, Recover,
     CheckForHold, WakeUp
<1>2. (RequestsJustified /\ Overtaken)'
  BY <1>0, <1>1 DEF RequestsJustified, Overtaken, Recovery
<1>3. CASE \E j \in Jobs : ClaimJob(j)
  <2>1. pc' = "create" /\ mem' = Claimed
    BY <1>3 DEF ClaimJob
  <2>2. mem'.cleanup = "pending"
    BY <2>1 DEF Claimed, NoRecord
  <2> QED
    BY <1>2, <2>1, <2>2 DEF CleanupInv, RecoveredAlone, CleanupsKept
<1>4. ASSUME NEW j \in Unresolved, RecoverWith(j)
      PROVE  (CleanupInv)'
  <2>1. CASE pc' \in {"hold_check", "deliver"}
    BY <1>2, <2>1 DEF CleanupInv, RecoveredAlone, CleanupsKept
  <2>2. CASE pc' = "recover_target"
    <3>1. /\ job' = j /\ mem' = [disk[j] EXCEPT !.status = "interrupted"]
          /\ run' = [NoRun EXCEPT !.why = "interrupted"]
          /\ ~HasCompletion(disk[j])
          /\ ~(disk[j].pending = NoOutcome /\ disk[j].hold # "none")
      BY <1>4, <2>2 DEF RecoverWith
    <3>2. j \in Jobs /\ RequiresWorkerAttention(disk[j])
      BY <1>4 DEF Unresolved
    <3>3. disk[j].pending = NoOutcome /\ disk[j].hold = "none" /\ disk[j].token
      BY <3>1, <3>2 DEF HasCompletion, RequiresWorkerAttention
    <3>4. /\ mem'.hold = "none" /\ mem'.cleanup = disk[j].cleanup
          /\ mem'.cleanupRequired = disk[j].cleanupRequired
      BY <1>0, <3>1, <3>2, <3>3 DEF RunRecords
    <3>5. run'.why = "interrupted"
      BY <3>1 DEF NoRun
    <3>6. Free(j) \/ CleanOnRecord(disk[j])
      BY <1>0, <3>2, <3>3 DEF Overtaken, Free
    <3>7. (Free(job) \/ CleanSecond)'
      BY <1>1, <3>1, <3>4, <3>5, <3>6 DEF Free, CleanSecond, CleanOnRecord, Recovery
    <3> QED
      BY <1>1, <1>2, <2>2, <3>1, <3>4, <3>7 DEF CleanupInv, RecoveredAlone, CleanupsKept
  <2> QED
    BY <1>4, <2>1, <2>2 DEF RecoverWith
<1>5. CASE pc' \in {"claim", "coord_wait", "exited", "hold_check", "op_wait", "recover"}
  BY <1>2, <1>5 DEF CleanupInv, RecoveredAlone, CleanupsKept
<1>6. CASE \E j \in Jobs : ClaimAnswerLost(j)
  BY <1>2, <1>0, <1>6 DEF ClaimAnswerLost, local, CleanupInv, RecoveredAlone, CleanupsKept,
     CleanSecond, Free, Recovery
<1> QED
  BY <1>3, <1>4, <1>5, <1>6 DEF RunLoop, ClaimUnresolved, ClaimRejected, ReturnOk, Recover,
     CheckForHold, WakeUp

\* An operator confirms a cleanup, keeps the hold or the bytes, or gives the
\* claim up; the file of a job in hand is written by the worker alone.
LEMMA OthersKeep ==
    ASSUME Typed, MarkInv, CleanupInv,
           \/ Heartbeat \/ Operator \/ Restart
           \/ \E j \in Jobs : CoordinatorReleases(j) \/ CoordinatorReinstates(j)
    PROVE  (CleanupInv)'
<1> USE DEF ControllerPcs, SettlePcs, Recovering
<1>0. /\ disk \in [Jobs -> RunRecords] /\ op \in [Operators -> Requests]
      /\ RequestsJustified /\ Overtaken /\ RecoveredAlone /\ CleanupsKept
      /\ pc \in ControllerPcs \cup SettlePcs => job \in Jobs
  BY DEF Typed, TypeOK, JobInHand, CleanupInv
<1>a. ASSUME UNCHANGED <<pc, job, mem, run, disk>>,
             \A p \in Operators : Recovery(p)' => Recovery(p) /\ op'[p] = op[p]
      PROVE  (CleanupInv)'
  BY <1>0, <1>a DEF CleanupInv, RequestsJustified, Overtaken, RecoveredAlone, CleanupsKept,
     CleanSecond, Free
<1>1. CASE Heartbeat
  <2>1. UNCHANGED <<pc, job, mem, run, disk, op>>
    BY <1>1 DEF Heartbeat, HeartbeatClaimLost, HeartbeatCancel
  <2> QED
    BY <1>a, <2>1 DEF Recovery
<1>2. ASSUME NEW o \in Operators, NEW a \in RecoveryActions, NEW j \in Jobs,
             RecoveryRequest(o, a, j)
      PROVE  (CleanupInv)'
  <2>1. /\ op' = [op EXCEPT ![o] = [action |-> a, job |-> j, snap |-> disk[j]]]
        /\ disk[j].hold # "none"
        /\ a \in {"continueAfterCleanup", "confirmCleanup"} => disk[j].cleanupRequired
        /\ a = "retryCompletion" => disk[j].pending # NoOutcome
        /\ UNCHANGED <<pc, job, mem, run, disk>>
    BY <1>2 DEF RecoveryRequest, RecoveryAllowed, RecoveryActions, local
  <2>2. \A p \in Operators :
            \/ p = o /\ op'[p] = [action |-> a, job |-> j, snap |-> disk[j]]
            \/ p # o /\ op'[p] = op[p]
    BY <1>0, <2>1
  <2>3. RequestsJustified'
    BY <1>0, <2>1, <2>2 DEF RequestsJustified, Recovery
  <2>4. Overtaken'
    BY <1>0, <2>1, <2>2 DEF Overtaken, Recovery
  <2>5. Free(job) => Free(job)'
    BY <2>1, <2>2 DEF Free, Recovery
  <2> QED
    BY <1>0, <2>1, <2>3, <2>4, <2>5 DEF CleanupInv, RecoveredAlone, CleanupsKept, CleanSecond
<1>3. ASSUME NEW o \in Operators, RecoverySave(o) PROVE (CleanupInv)'
  <2> DEFINE k == op[o].job
             rec == RecoveryEdit(op[o].action, op[o].snap)
  <2>1. /\ op' = [op EXCEPT ![o] = NoRequest] /\ Recovery(o)
        /\ disk' \in {disk, [disk EXCEPT ![k] = rec]}
        /\ UNCHANGED <<pc, job, mem, run>>
    BY <1>3 DEF RecoverySave, Recovery, local
  <2>2. \A p \in Operators : Recovery(p)' => Recovery(p) /\ op'[p] = op[p]
    BY <1>0, <2>1 DEF Recovery, NoRequest, RecoveryActions
  <2>3. \/ disk' = disk
        \/ disk'[k] = rec /\ \A j \in Jobs \ {k} : disk'[j] = disk[j]
    <3>1. k \in Jobs
      BY <2>1 DEF MarkInv, RequestsCurrent
    <3> QED
      BY <1>0, <2>1, <3>1
  <2>4. \/ rec.hold # "none" \/ rec.pending # NoOutcome \/ ~rec.token \/ CleanOnRecord(rec)
    <3>1. op[o].snap \in RunRecords
      BY <1>0 DEF Requests
    <3>2. /\ op[o].snap.hold # "none"
          /\ op[o].action \in {"continueAfterCleanup", "confirmCleanup"} => op[o].snap.cleanupRequired
          /\ op[o].action = "retryCompletion" => op[o].snap.pending # NoOutcome
      BY <1>0, <2>1 DEF RequestsJustified
    <3> QED
      BY <2>1, <3>1, <3>2 DEF RecoveryEdit, Recovery, RecoveryActions, CleanOnRecord, RunRecords
  <2>5. (RequestsJustified /\ Overtaken)'
    <3>1. \A p \in Operators : Recovery(p) => op[p].job \in Jobs
      BY DEF MarkInv, RequestsCurrent
    <3> QED
      BY <1>0, <2>2, <2>3, <2>4, <3>1 DEF RequestsJustified, Overtaken
  <2>6. k = job => pc \notin ControllerPcs \cup {"create", "unsupported"} /\ ~Free(job)
    BY <2>1 DEF MarkInv, ExecutionUndisturbed, Undisturbed, Free
  <2>7. (Free(job) /\ job \in Jobs) => Free(job)' /\ disk'[job] = disk[job]
    BY <2>1, <2>2, <2>3 DEF Free
  <2>8. RecoveredAlone'
    BY <1>0, <2>1, <2>7 DEF RecoveredAlone, CleanSecond
  <2>9. CleanupsKept'
    BY <1>0, <2>1, <2>3, <2>6, <2>7 DEF RecoveredAlone, CleanupsKept, CleanSecond
  <2> QED
    BY <2>5, <2>8, <2>9 DEF CleanupInv
<1>4. ASSUME NEW o \in Operators, NEW j \in Jobs, ReadyRequest(o, j)
      PROVE  (CleanupInv)'
  <2>1. /\ op' = [op EXCEPT ![o] = [NoRequest EXCEPT !.action = "ready", !.job = j]]
        /\ UNCHANGED <<pc, job, mem, run, disk>>
    BY <1>4 DEF ReadyRequest, local
  <2>2. \A p \in Operators : Recovery(p)' => Recovery(p) /\ op'[p] = op[p]
    BY <1>0, <2>1 DEF Recovery, NoRequest, RecoveryActions
  <2> QED
    BY <1>a, <2>1, <2>2
<1>5. ASSUME NEW o \in Operators, ReadyCall(o) PROVE (CleanupInv)'
  <2>1. op' = [op EXCEPT ![o] = NoRequest] /\ UNCHANGED <<pc, job, mem, run, disk>>
    BY <1>5 DEF ReadyCall, local
  <2>2. \A p \in Operators : Recovery(p)' => Recovery(p) /\ op'[p] = op[p]
    BY <1>0, <2>1 DEF Recovery, NoRequest, RecoveryActions
  <2> QED
    BY <1>a, <2>1, <2>2
<1>6. CASE Restart
  <2>1. pc' = "recover" /\ op' = [o \in Operators |-> NoRequest]
    BY <1>6 DEF Restart
  <2>2. \A o \in Operators : ~Recovery(o)'
    BY <2>1 DEF Recovery, NoRequest, RecoveryActions
  <2> QED
    BY <2>1, <2>2 DEF CleanupInv, RequestsJustified, Overtaken, RecoveredAlone, CleanupsKept
<1>7. ASSUME NEW j \in Jobs, CoordinatorReleases(j) \/ CoordinatorReinstates(j)
      PROVE  (CleanupInv)'
  <2>1. UNCHANGED <<pc, job, mem, run, disk, op>>
    BY <1>7 DEF CoordinatorReleases, CoordinatorReinstates, local
  <2> QED
    BY <1>a, <2>1 DEF Recovery
<1> QED
  BY <1>1, <1>2, <1>3, <1>4, <1>5, <1>6, <1>7 DEF Operator

\* Both invariants together.
THEOREM CleanupInvariant == Spec => [](Typed /\ MarkInv /\ CleanupInv)
<1>1. Init => CleanupInv
  <2> SUFFICES ASSUME Init PROVE CleanupInv
    OBVIOUS
  <2>1. pc = "recover" /\ \A o \in Operators : ~Recovery(o)
    BY DEF Init, Recovery, NoRequest, RecoveryActions
  <2> QED
    BY <2>1 DEF CleanupInv, RequestsJustified, Overtaken, RecoveredAlone, CleanupsKept,
       ControllerPcs, SettlePcs, Recovering
<1>2. Typed /\ MarkInv /\ (MarkInv)' /\ CleanupInv /\ [Next]_vars => (CleanupInv)'
  <2>1. CASE UNCHANGED vars
    BY <2>1 DEF CleanupInv, RequestsJustified, Overtaken, RecoveredAlone, CleanupsKept,
       CleanSecond, Free, Recovery, vars, local
  <2> QED
    BY <2>1, ControllerKeeps, SettlementKeeps, RunLoopKeeps, OthersKeep DEF Next, Worker
<1> QED
  BY <1>1, <1>2, CleanupMarkInvariant, PTL DEF Spec

(***************************************************************************)
(* Whatever fails, however often the process restarts and however          *)
(* operators race each other and the worker: the worker never stands       *)
(* before a mutation of a target whose cleanup has passed on disk.         *)
(***************************************************************************)
THEOREM PassedCleanupStays == Spec => []NoMutationAfterPassedCleanup
<1>1. CleanupInv => NoMutationAfterPassedCleanup
  BY DEF CleanupInv, CleanupsKept, NoMutationAfterPassedCleanup, ControllerPcs
<1> QED
  BY <1>1, CleanupInvariant, PTL

--------------------------------------------------------------------------------
(***************************************************************************)
(* The completion of a job is decided once.  A body is decided when some   *)
(* copy of the record has it pending, or the coordinator has received it.  *)
(* No copy forgets it unnoticed: a copy read before the decision, when it  *)
(* is written back later, leads to the same body again, because it has the *)
(* same result, or because its job was interrupted and its cleanup is      *)
(* confirmed by that write.                                                *)
(***************************************************************************)
InFlight(o, j) == Recovery(o) /\ op[o].job = j
Held(j) == pc \in InHand /\ job = j

Decided(j, b) ==
    /\ b \in Bodies
    /\ \/ b \in sent[j]
       \/ disk[j].pending = b
       \/ Held(j) /\ mem.pending = b
       \/ \E o \in Operators : InFlight(o, j) /\ op[o].snap.pending = b

InterruptedClean == [kind |-> "worker_error", code |-> "interrupted", cleanup |-> "passed"]

\* No other completion than b is prepared from r as it is.
ByResult(r, b) == r.result # NoOutcome /\ (r.error # NoOutcome \/ b = r.result)
Repeats(r, b) ==
    \/ r.pending # NoOutcome
    \/ ByResult(r, b)
    \/ (r.result = NoOutcome /\ b = InterruptedClean /\ CleanOnRecord(r))

\* The same of a record an operator is about to confirm the cleanup of.
RepeatsConfirmed(r, b) ==
    \/ r.pending # NoOutcome
    \/ ByResult(r, b)
    \/ r.result = NoOutcome /\ b = InterruptedClean /\ r.cleanupRequired

Closed(r) == ~r.token /\ r.hold = "none"

DecidedOnce == \A j \in Jobs : \A b, c \in Bodies : Decided(j, b) /\ Decided(j, c) => b = c

DecisionKept ==
    \A j \in Jobs, b \in Bodies : Decided(j, b) =>
        /\ (Closed(disk[j]) \/ Repeats(disk[j], b))
        /\ Held(j) => Repeats(mem, b)
        /\ \A o \in Operators : InFlight(o, j) => RepeatsConfirmed(op[o].snap, b)

\* Nothing is decided for j, and no operator can reach its file.
Undecided(j) == Free(j) /\ sent[j] = {} /\ disk[j].pending = NoOutcome

FirstLife == ControllerPcs \cup {"create", "unsupported", "settle"}

UndecidedUntilDelivery ==
    /\ \A j \in Jobs : coord[j] = "queued" => sent[j] = {}
    /\ pc \in FirstLife \cup {"executed", "recover_reconcile", "recover_save"} => Undecided(job)
    /\ pc \in Recovering => Undecided(job) \/ CleanSecond
    /\ pc \in FirstLife \cup Recovering => mem.pending = NoOutcome
    /\ (pc \in Recovering /\ run.why = "interrupted") => mem.result = NoOutcome

\* What prepare_completion is about to serialise.
DeliveryAgrees ==
    (pc = "deliver" /\ mem.pending = NoOutcome) =>
        \/ Undecided(job)
        \/ mem.result # NoOutcome
        \/ (mem.error = InterruptedClean /\ mem.cleanupRequired)

\* A result is written with the completed status, and all copies have it.
Finished(r) == r.result # NoOutcome => r.status = "completed"

ResultsAgree ==
    /\ \A j \in Jobs : Finished(disk[j])
    /\ pc \in InHand => Finished(mem)
    /\ pc \in Settling => mem.result = disk[job].result
    /\ \A o \in Operators : Recovery(o) =>
            Finished(op[o].snap) /\ op[o].snap.result = disk[op[o].job].result

DecisionInv ==
    /\ DecidedOnce /\ DecisionKept /\ UndecidedUntilDelivery /\ DeliveryAgrees /\ ResultsAgree

\* Where no new body shows up, there is still at most one.
LEMMA NothingNew ==
    ASSUME DecidedOnce, \A j \in Jobs, b \in Bodies : Decided(j, b)' => Decided(j, b)
    PROVE  DecidedOnce'
BY DEF DecidedOnce

\* Nothing is decided for a job in hand without pending bytes.
LEMMA NoneDecided ==
    ASSUME Undecided(job), mem.pending = NoOutcome
    PROVE  \A b \in Bodies : ~Decided(job, b)
BY DEF Undecided, Free, Decided, InFlight, Bodies, Results, WorkerErrors, NoOutcome

\* The worker writes the record in hand, or not, and its bytes are the ones
\* it had before, or dropped.
LEMMA WriteDecides ==
    ASSUME DecidedOnce, DecisionKept, job \in Jobs, disk \in [Jobs -> RunRecords],
           pc \in InHand, UNCHANGED <<job, op, sent>>,
           mem'.pending \in {mem.pending, NoOutcome},
           \/ disk' = disk
           \/ /\ disk' = [disk EXCEPT ![job] = mem']
              /\ \A b \in Bodies : Decided(job, b) => Closed(mem') \/ Repeats(mem', b),
           pc' \in InHand => \A b \in Bodies : Decided(job, b) => Repeats(mem', b)
    PROVE  (DecidedOnce /\ DecisionKept)'
<1>1. /\ \A j \in Jobs \ {job} : disk'[j] = disk[j]
      /\ disk'[job] \in {disk[job], mem'}
      /\ disk' = disk \/ disk'[job] = mem'
  OBVIOUS
<1>2. NoOutcome \notin Bodies
  BY DEF Bodies, Results, WorkerErrors, NoOutcome
<1>3. \A j \in Jobs, b \in Bodies : Decided(j, b)' => Decided(j, b)
  BY <1>1, <1>2 DEF Decided, Held, InFlight, Recovery
<1>4. DecisionKept'
  <2> SUFFICES ASSUME NEW j \in Jobs, NEW b \in Bodies, Decided(j, b)
               PROVE  /\ (Closed(disk'[j]) \/ Repeats(disk'[j], b))
                      /\ Held(j)' => Repeats(mem', b)
                      /\ \A o \in Operators : InFlight(o, j)' => RepeatsConfirmed(op'[o].snap, b)
    BY <1>3 DEF DecisionKept, Closed
  <2>1. /\ Closed(disk[j]) \/ Repeats(disk[j], b)
        /\ Held(j) => Repeats(mem, b)
        /\ \A o \in Operators : InFlight(o, j) => RepeatsConfirmed(op[o].snap, b)
    BY DEF DecisionKept
  <2>2. Closed(disk'[j]) \/ Repeats(disk'[j], b)
    BY <1>1, <2>1
  <2>3. Held(j)' => Repeats(mem', b)
    BY DEF Held
  <2> QED
    BY <2>1, <2>2, <2>3 DEF InFlight, Recovery
<1> QED
  BY <1>3, <1>4, NothingNew

\* The controller decides nothing: it works on a job in its first life.
LEMMA ControllerDecides ==
    ASSUME Typed, MarkInv, (MarkInv)', DecisionInv, Controller
    PROVE  (DecisionInv)'
<1> USE DEF Step, ControllerPcs
<1>0. /\ pc \in ControllerPcs /\ job \in Jobs /\ pc' \in ControllerPcs \cup {"executed"}
      /\ mem \in RunRecords /\ disk \in [Jobs -> RunRecords] /\ run \in RunLocals
      /\ UNCHANGED <<job, op, sent, coord>>
      /\ \A j \in Jobs \ {job} : disk'[j] = disk[j]
      /\ disk'[job].hold = "none"
      /\ \A o \in Operators : Recovery(o) => op[o].job # job
  BY ControllerFrame
<1>1. Undecided(job) /\ mem.pending = NoOutcome /\ Finished(mem) /\ Finished(disk[job])
  BY <1>0 DEF DecisionInv, UndecidedUntilDelivery, FirstLife, ResultsAgree, InHand, Worked
<1>2. /\ disk'[job].pending = NoOutcome /\ Finished(disk'[job])
      /\ pc' # "executed" => mem'.pending = NoOutcome /\ Finished(mem')
  <2> DEFINE started == [disk[job] EXCEPT !.status = "running"]
             planned == [mem EXCEPT !.plan = RightPlan(job)]
             marked == [mem EXCEPT !.cleanupRequired = TRUE]
             Fine(r) == r.pending = NoOutcome /\ Finished(r)
  <2>1. disk[job].pending = NoOutcome /\ disk[job] \in RunRecords
    BY <1>0, <1>1 DEF Undecided
  <2>2. /\ Fine(mem) /\ Fine(planned) /\ Fine(marked) /\ Fine(WithResult(mem, run.failed))
        /\ \A c \in Cleanups : Fine([mem EXCEPT !.cleanup = c])
        /\ disk[job].status = "queued" => Fine(started)
    BY <1>0, <1>1, <2>1 DEF RunRecords, WithResult, Finished
  <2>3. /\ \/ UNCHANGED disk \/ Saved(planned) \/ Saved(marked) \/ Saved(mem)
           \/ Saved(WithResult(mem, run.failed))
           \/ disk[job].status = "queued" /\ Saved(started)
        /\ \/ pc' = "executed"
           \/ mem' \in {mem, planned, marked, WithResult(mem, run.failed)}
           \/ \E c \in Cleanups : mem' = [mem EXCEPT !.cleanup = c]
           \/ disk[job].status = "queued" /\ mem' = started
    BY DEF Controller, StartExecution, Preflight, PrepareBaseline, InstallBaseline, Mutate,
         PrepareCandidate, UpdateCandidate, GatherEvidence, BeginCleanup,
         AuthorizeCleanup, ControllerReconcile, Reconcile, SaveCleanup, FinishExecution,
         ExecutionSave, SaveFails, world, Cleanups
  <2> HIDE DEF started, planned, marked, Fine
  <2>4. Fine(disk'[job])
    BY <1>0, <1>1, <2>1, <2>2, <2>3 DEF Saved, Fine
  <2>5. pc' # "executed" => Fine(mem')
    BY <2>2, <2>3
  <2> QED
    BY <2>4, <2>5 DEF Fine
<1>3. Undecided(job)'
  BY <1>0, <1>1, <1>2 DEF Undecided, Free, Recovery
<1>4. (UndecidedUntilDelivery /\ DeliveryAgrees)'
  BY <1>0, <1>2, <1>3 DEF DecisionInv, UndecidedUntilDelivery, DeliveryAgrees, FirstLife,
     Recovering
<1>5. ResultsAgree'
  <2>1. \A o \in Operators : Recovery(o) => op[o].job \in Jobs \ {job}
    BY <1>0 DEF MarkInv, RequestsCurrent
  <2> QED
    BY <1>0, <1>2, <2>1 DEF DecisionInv, ResultsAgree, InHand, Worked, Settling, SettlePcs, Recovery
<1>6. \A b \in Bodies : ~Decided(job, b)'
  BY <1>0, <1>2, <1>3 DEF Undecided, Free, Decided, InFlight, Held, InHand, Worked, Bodies,
     Results, WorkerErrors, NoOutcome
<1>7. \A j \in Jobs \ {job}, b \in Bodies : Decided(j, b)' => Decided(j, b)
  BY <1>0 DEF Decided, Held, InFlight, Recovery
<1>8. (DecidedOnce /\ DecisionKept)'
  BY <1>0, <1>6, <1>7 DEF DecisionInv, DecidedOnce, DecisionKept, Held, InFlight, Recovery, Closed
<1> QED
  BY <1>4, <1>5, <1>8 DEF DecisionInv

\* Settling a claim prepares no bytes, and what it writes repeats a decision
\* made before.
LEMMA SettlementDecides ==
    ASSUME Typed, MarkInv, (MarkInv)', CleanupInv, (CleanupInv)', DecisionInv, Settlement
    PROVE  (DecisionInv)'
<1> USE DEF Step, ControllerPcs, SettlePcs
<1>0. /\ pc \in SettlePcs /\ job \in Jobs /\ mem \in RunRecords /\ disk[job] \in RunRecords
      /\ disk \in [Jobs -> RunRecords] /\ UNCHANGED <<job, op, sent, coord>>
      /\ DecidedOnce /\ DecisionKept /\ UndecidedUntilDelivery /\ DeliveryAgrees /\ ResultsAgree
  BY DEF Settlement, CreateRecord, CheckSupported, ReloadRecord, Settle, RecoverTarget,
         RecoverReconcile, RecoverSave, Recovered, SetWorkerError, ReleaseClaim, MarkHold,
         Typed, TypeOK, JobInHand, world, DecisionInv
<1>a. \A o \in Operators : Recovery(o) => op[o].job \in Jobs
  BY DEF MarkInv, RequestsCurrent
\* Steps that leave the record and the file as they are.
<1>b. ASSUME UNCHANGED <<mem, disk>>, pc \in InHand
      PROVE  (DecidedOnce /\ DecisionKept)' /\ Undecided(job)' = Undecided(job)
  <2>1. \A b \in Bodies : (Decided(job, b) /\ pc' \in InHand) => Repeats(mem', b)
    BY <1>0, <1>b DEF DecisionKept, Held
  <2>2. (DecidedOnce /\ DecisionKept)'
    BY <1>0, <1>b, <2>1, WriteDecides
  <2>3. Undecided(job)' = Undecided(job)
    BY <1>0, <1>b DEF Undecided, Free, Recovery
  <2> QED
    BY <2>2, <2>3
\* Steps that write the record in hand as it is.
<1>c. ASSUME UNCHANGED mem, pc \in InHand, disk' \in {disk, [disk EXCEPT ![job] = mem]},
             mem.result = disk[job].result
      PROVE  /\ (DecidedOnce /\ DecisionKept)'
             /\ \A j \in Jobs : Finished(disk'[j]) /\ disk'[j].result = disk[j].result
  <2>1. \A b \in Bodies : Decided(job, b) => Repeats(mem', b)
    BY <1>0, <1>c DEF DecisionKept, Held
  <2>2. (DecidedOnce /\ DecisionKept)'
    BY <1>0, <1>c, <2>1, WriteDecides
  <2>3. \A j \in Jobs : Finished(disk'[j]) /\ disk'[j].result = disk[j].result
    BY <1>0, <1>c DEF ResultsAgree
  <2> QED
    BY <2>2, <2>3
<1>1. CASE CreateRecord
  <2>1. /\ pc = "create" /\ UNCHANGED mem
        /\ \/ pc' = "unsupported" /\ disk' = [disk EXCEPT ![job] = mem]
           \/ pc' = "hold_check" /\ disk' \in {disk, [disk EXCEPT ![job] = mem]}
    BY <1>1 DEF CreateRecord, Save, SaveFails, Saved
  <2>2. mem = Claimed /\ disk[job] = NoRecord
    BY <2>1 DEF MarkInv, HandOnDisk, Worked
  <2>3. mem.result = disk[job].result
    BY <2>2 DEF Claimed, NoRecord
  <2>4. /\ (DecidedOnce /\ DecisionKept)'
        /\ \A j \in Jobs : Finished(disk'[j]) /\ disk'[j].result = disk[j].result
    BY <1>c, <2>1, <2>3 DEF InHand, Worked
  <2>5. ResultsAgree'
    BY <1>0, <1>a, <2>1, <2>3, <2>4 DEF ResultsAgree, InHand, Worked, Settling, Recovery
  <2>6. Undecided(job) /\ mem.pending = NoOutcome /\ mem.hold = "none"
    BY <1>0, <2>1, <2>2 DEF UndecidedUntilDelivery, FirstLife, Claimed, NoRecord
  <2>7. Undecided(job)'
    BY <1>0, <2>1, <2>6 DEF Undecided, Free, Recovery
  <2>8. (UndecidedUntilDelivery /\ DeliveryAgrees)'
    BY <1>0, <2>1, <2>6, <2>7 DEF UndecidedUntilDelivery, DeliveryAgrees, FirstLife, Recovering
  <2> QED
    BY <2>4, <2>5, <2>8 DEF DecisionInv
<1>2. CASE CheckSupported
  <2>1. /\ pc = "unsupported" /\ UNCHANGED <<mem, disk>>
        /\ \/ pc' = "start"
           \/ pc' = "worker_error" /\ run'.why # "interrupted"
    BY <1>2 DEF CheckSupported, Because, world, Typed, TypeOK, RunLocals
  <2>2. (DecidedOnce /\ DecisionKept)' /\ Undecided(job)' = Undecided(job)
    BY <1>b, <2>1 DEF InHand, Worked
  <2>3. (UndecidedUntilDelivery /\ DeliveryAgrees)'
    BY <1>0, <2>1, <2>2 DEF UndecidedUntilDelivery, DeliveryAgrees, FirstLife, Recovering
  <2>4. ResultsAgree'
    BY <1>0, <2>1 DEF ResultsAgree, InHand, Worked, Settling, Recovery
  <2> QED
    BY <2>2, <2>3, <2>4 DEF DecisionInv
<1>3. CASE ReloadRecord
  <2>1. /\ pc = "executed" /\ UNCHANGED disk
        /\ \/ pc' = "hold_check"
           \/ pc' = "settle" /\ mem' = disk[job]
           \/ pc' = "recover_target" /\ mem' = disk[job] /\ run'.why # "interrupted"
    BY <1>3 DEF ReloadRecord, Because, Typed, TypeOK, RunLocals
  <2>2. Undecided(job) /\ Undecided(job)'
    BY <1>0, <2>1 DEF UndecidedUntilDelivery, Undecided, Free, Recovery
  <2>3. pc' # "hold_check" => mem'.pending = NoOutcome
    BY <2>1, <2>2 DEF Undecided
  <2>4. (UndecidedUntilDelivery /\ DeliveryAgrees)'
    BY <1>0, <2>1, <2>2, <2>3 DEF UndecidedUntilDelivery, DeliveryAgrees, FirstLife, Recovering
  <2>5. ResultsAgree'
    BY <1>0, <2>1 DEF ResultsAgree, InHand, Worked, Settling, Recovery
  <2>6. \A b \in Bodies : ~Decided(job, b)'
    BY <2>1, <2>2, <2>3 DEF Undecided, Free, Decided, InFlight, Held, InHand, Worked, Bodies,
       Results, WorkerErrors, NoOutcome
  <2>7. \A j \in Jobs \ {job}, b \in Bodies : Decided(j, b)' => Decided(j, b)
    BY <1>0, <2>1 DEF Decided, Held, InFlight, Recovery
  <2>8. (DecidedOnce /\ DecisionKept)'
    BY <1>0, <2>1, <2>6, <2>7 DEF DecidedOnce, DecisionKept, Held, InFlight, Recovery, Closed
  <2> QED
    BY <2>4, <2>5, <2>8 DEF DecisionInv
<1>4. CASE Settle
  <2>1. /\ pc = "settle" /\ UNCHANGED <<mem, disk>>
        /\ \/ pc' \in {"mark_hold", "deliver"}
           \/ pc' = "recover_target" /\ run'.why # "interrupted"
    BY <1>4 DEF Settle, Because, Typed, TypeOK, RunLocals
  <2>2. (DecidedOnce /\ DecisionKept)' /\ Undecided(job)' = Undecided(job)
    BY <1>b, <2>1 DEF InHand, Worked
  <2>3. (UndecidedUntilDelivery /\ DeliveryAgrees)'
    BY <1>0, <2>1, <2>2 DEF UndecidedUntilDelivery, DeliveryAgrees, FirstLife, Recovering
  <2>4. ResultsAgree'
    BY <1>0, <2>1 DEF ResultsAgree, InHand, Worked, Settling, Recovery
  <2> QED
    BY <2>2, <2>3, <2>4 DEF DecisionInv
<1>5. CASE RecoverTarget
  <2>0. /\ pc = "recover_target" /\ UNCHANGED <<mem, run>> /\ pc \in InHand
        /\ mem.result = disk[job].result /\ mem.pending = NoOutcome
        /\ Undecided(job) \/ CleanSecond
        /\ run.why = "interrupted" => mem.result = NoOutcome
    BY <1>0, <1>5 DEF RecoverTarget, ResultsAgree, Settling, UndecidedUntilDelivery, Recovering,
       InHand, Worked
  <2>1. CASE pc' = "recover_reconcile"
    <3>1. UNCHANGED disk /\ ~CleanupSettled(mem)
      BY <1>5, <2>1 DEF RecoverTarget, Save
    <3>2. ~CleanSecond
      BY <3>1 DEF CleanSecond, CleanOnRecord, CleanupSettled
    <3>3. (DecidedOnce /\ DecisionKept)' /\ Undecided(job)'
      BY <1>b, <2>0, <3>1, <3>2
    <3>4. (UndecidedUntilDelivery /\ DeliveryAgrees)'
      BY <1>0, <2>0, <2>1, <3>3 DEF UndecidedUntilDelivery, DeliveryAgrees, FirstLife, Recovering
    <3>5. ResultsAgree'
      BY <1>0, <2>0, <2>1, <3>1 DEF ResultsAgree, InHand, Worked, Settling, Recovery
    <3> QED
      BY <3>3, <3>4, <3>5 DEF DecisionInv
  <2>2. CASE pc' \in {"recovered", "mark_hold"} /\ disk' \in {disk, [disk EXCEPT ![job] = mem]}
    <3>1. /\ (DecidedOnce /\ DecisionKept)'
          /\ \A j \in Jobs : Finished(disk'[j]) /\ disk'[j].result = disk[j].result
      BY <1>c, <2>0, <2>2
    <3>2. Undecided(job) => Undecided(job)'
      <4>1. mem.hold = "none"
        BY <2>0 DEF CleanupInv, RecoveredAlone, Recovering
      <4> QED
        BY <1>0, <2>0, <2>2, <4>1 DEF Undecided, Free, Recovery
    <3>3. (UndecidedUntilDelivery /\ DeliveryAgrees)'
      BY <1>0, <2>0, <2>2, <3>2 DEF UndecidedUntilDelivery, DeliveryAgrees, FirstLife,
         Recovering, CleanSecond
    <3>4. ResultsAgree'
      BY <1>0, <1>a, <2>0, <2>2, <3>1 DEF ResultsAgree, InHand, Worked, Settling, Recovery
    <3> QED
      BY <3>1, <3>3, <3>4 DEF DecisionInv
  <2> QED
    BY <1>5, <2>1, <2>2 DEF RecoverTarget, Save, SaveFails, Saved
<1>6. CASE RecoverReconcile
  <2>1. /\ pc = "recover_reconcile" /\ pc' = "recover_save" /\ UNCHANGED <<disk, run>>
        /\ \E c \in Cleanups : mem' = [mem EXCEPT !.cleanup = c]
    BY <1>6 DEF RecoverReconcile, Reconcile, Cleanups
  <2>2. mem'.pending = mem.pending /\ mem'.result = mem.result /\ mem'.status = mem.status
    BY <1>0, <2>1 DEF RunRecords
  <2>3. Undecided(job) /\ mem.pending = NoOutcome /\ Undecided(job)'
    BY <1>0, <2>1 DEF UndecidedUntilDelivery, Recovering, Undecided, Free, Recovery
  <2>4. (DecidedOnce /\ DecisionKept)'
    <3>1. \A b \in Bodies : ~Decided(job, b)
      BY <2>3, NoneDecided
    <3>2. pc \in InHand /\ mem'.pending \in {mem.pending, NoOutcome} /\ disk' = disk
      BY <2>1, <2>2 DEF InHand, Worked
    <3> QED
      BY <1>0, <3>1, <3>2, WriteDecides
  <2>5. (UndecidedUntilDelivery /\ DeliveryAgrees)'
    BY <1>0, <2>1, <2>2, <2>3 DEF UndecidedUntilDelivery, DeliveryAgrees, FirstLife, Recovering
  <2>6. ResultsAgree'
    BY <1>0, <2>1, <2>2 DEF ResultsAgree, Finished, InHand, Worked, Settling, Recovery
  <2> QED
    BY <2>4, <2>5, <2>6 DEF DecisionInv
<1>7. CASE RecoverSave
  <2>1. /\ pc = "recover_save" /\ UNCHANGED <<mem, run>> /\ pc \in InHand
        /\ pc' \in {"recovered", "mark_hold"} /\ disk' \in {disk, [disk EXCEPT ![job] = mem]}
    BY <1>7 DEF RecoverSave, Save, SaveFails, Saved, InHand, Worked
  <2>2. /\ (DecidedOnce /\ DecisionKept)'
        /\ \A j \in Jobs : Finished(disk'[j]) /\ disk'[j].result = disk[j].result
    BY <1>0, <1>c, <2>1 DEF ResultsAgree, Settling
  <2>3. Undecided(job) /\ mem.pending = NoOutcome /\ mem.hold = "none"
    BY <1>0, <2>1 DEF UndecidedUntilDelivery, Recovering, CleanupInv, RecoveredAlone
  <2>4. Undecided(job)'
    BY <1>0, <2>1, <2>3 DEF Undecided, Free, Recovery
  <2>5. (UndecidedUntilDelivery /\ DeliveryAgrees)'
    BY <1>0, <2>1, <2>3, <2>4 DEF UndecidedUntilDelivery, DeliveryAgrees, FirstLife, Recovering
  <2>6. ResultsAgree'
    BY <1>0, <1>a, <2>1, <2>2 DEF ResultsAgree, InHand, Worked, Settling, Recovery
  <2> QED
    BY <2>2, <2>5, <2>6 DEF DecisionInv
<1>8. CASE Recovered
  <2>1. /\ pc = "recovered" /\ UNCHANGED <<mem, run, disk>>
        /\ pc' \in {"worker_error", "release", "mark_hold"}
    BY <1>8 DEF Recovered
  <2>2. (DecidedOnce /\ DecisionKept)' /\ Undecided(job)' = Undecided(job)
    BY <1>b, <2>1 DEF InHand, Worked
  <2>3. (UndecidedUntilDelivery /\ DeliveryAgrees)'
    BY <1>0, <2>1, <2>2 DEF UndecidedUntilDelivery, DeliveryAgrees, FirstLife, Recovering,
       CleanSecond
  <2>4. ResultsAgree'
    BY <1>0, <2>1 DEF ResultsAgree, InHand, Worked, Settling, Recovery
  <2> QED
    BY <2>2, <2>3, <2>4 DEF DecisionInv
<1>9. CASE SetWorkerError
  <2>1. /\ pc = "worker_error" /\ UNCHANGED run /\ mem' = WithWorkerError(mem, WorkerErrorCode)
        /\ \/ pc' = "settle" /\ run.why = "exec_error" /\ disk' = [disk EXCEPT ![job] = mem']
           \/ pc' \in {"deliver", "hold_check"} /\ disk' \in {disk, [disk EXCEPT ![job] = mem']}
    BY <1>9 DEF SetWorkerError, SaveMem, Save, SaveFails, Saved
  <2>2. /\ mem'.hold = mem.hold /\ mem'.cleanupRequired = mem.cleanupRequired
        /\ mem'.pending = mem.pending /\ mem'.result = mem.result /\ mem'.status = "completed"
        /\ mem.cleanup = "passed" => mem'.cleanup = "passed"
        /\ mem'.error = [kind |-> "worker_error", code |-> WorkerErrorCode, cleanup |-> mem'.cleanup]
    BY <1>0, <2>1 DEF WithWorkerError, WorkerErrorCleanup, RunRecords
  <2>3. /\ mem.pending = NoOutcome /\ mem.hold = "none" /\ mem.result = disk[job].result
        /\ Undecided(job) \/ CleanSecond
        /\ run.why = "interrupted" => mem.result = NoOutcome
    BY <1>0, <2>1 DEF UndecidedUntilDelivery, Recovering, CleanupInv, RecoveredAlone,
       ResultsAgree, Settling
  <2>4. Undecided(job) => Undecided(job)'
    BY <1>0, <2>1, <2>2, <2>3 DEF Undecided, Free, Recovery
  <2>5. CleanSecond =>
            mem'.error = InterruptedClean /\ mem'.result = NoOutcome /\ CleanOnRecord(mem')
    BY <2>2, <2>3 DEF CleanSecond, CleanOnRecord, InterruptedClean, WorkerErrorCode
  <2>6. \A b \in Bodies : Decided(job, b) => Repeats(mem', b)
    <3>1. CASE Undecided(job)
      BY <2>3, <3>1, NoneDecided
    <3>2. CASE CleanSecond
      <4>1. \A b \in Bodies : Decided(job, b) => Repeats(mem, b)
        BY <1>0, <2>1 DEF DecisionKept, Held, InHand, Worked
      <4>2. mem.result = NoOutcome
        BY <2>3, <3>2 DEF CleanSecond
      <4> QED
        BY <2>3, <2>5, <3>2, <4>1, <4>2 DEF Repeats, ByResult
    <3> QED
      BY <2>3, <3>1, <3>2
  <2>7. (DecidedOnce /\ DecisionKept)'
    <3>1. pc \in InHand /\ mem'.pending \in {mem.pending, NoOutcome}
      BY <2>1, <2>2 DEF InHand, Worked
    <3> QED
      BY <1>0, <2>1, <2>6, <3>1, WriteDecides
  <2>8. pc' = "settle" => Undecided(job)
    BY <2>1, <2>3 DEF CleanSecond
  <2>9. (UndecidedUntilDelivery /\ DeliveryAgrees)'
    BY <1>0, <2>1, <2>2, <2>3, <2>4, <2>5, <2>8 DEF UndecidedUntilDelivery, DeliveryAgrees,
       FirstLife, Recovering, CleanOnRecord
  <2>10. ResultsAgree'
    <3>1. \A j \in Jobs : Finished(disk'[j]) /\ disk'[j].result = disk[j].result
      BY <1>0, <2>1, <2>2, <2>3 DEF ResultsAgree, Finished
    <3> QED
      BY <1>0, <1>a, <2>1, <2>2, <2>3, <3>1 DEF ResultsAgree, Finished, InHand, Worked,
         Settling, Recovery
  <2> QED
    BY <2>7, <2>9, <2>10 DEF DecisionInv
<1>10. CASE ReleaseClaim \/ MarkHold
  <2>1. /\ pc \in {"release", "mark_hold"} /\ pc' \in {"return_ok", "hold_check"} /\ pc \in InHand
        /\ disk' \in {disk, [disk EXCEPT ![job] = mem']}
    BY <1>10 DEF ReleaseClaim, MarkHold, SaveMem, Save, SaveFails, Saved, InHand, Worked
  <2>2. /\ mem'.result = mem.result /\ mem'.status = mem.status
        /\ mem'.pending \in {mem.pending, NoOutcome}
        /\ \/ Closed(mem')
           \/ /\ mem'.pending = mem.pending /\ mem'.error = mem.error
              /\ mem'.cleanup = mem.cleanup /\ mem'.cleanupRequired = mem.cleanupRequired
    <3>1. CASE ReleaseClaim
      BY <1>0, <3>1 DEF ReleaseClaim, SaveMem, WithReleasedClaim, RunRecords, Closed
    <3>2. CASE MarkHold
      BY <1>0, <3>2 DEF MarkHold, SaveMem, RunRecords
    <3> QED
      BY <1>10, <3>1, <3>2
  <2>3. \A b \in Bodies : Decided(job, b) => Closed(mem') \/ Repeats(mem', b)
    <3>1. \A b \in Bodies : Decided(job, b) => Repeats(mem, b)
      BY <1>0, <2>1 DEF DecisionKept, Held
    <3> QED
      BY <2>2, <3>1 DEF Repeats, ByResult, CleanOnRecord
  <2>4. pc' \notin InHand
    BY <2>1 DEF InHand, Worked
  <2>5. (DecidedOnce /\ DecisionKept)'
    BY <1>0, <2>1, <2>2, <2>3, <2>4, WriteDecides
  <2>6. (UndecidedUntilDelivery /\ DeliveryAgrees)'
    BY <1>0, <2>1 DEF UndecidedUntilDelivery, DeliveryAgrees, FirstLife, Recovering
  <2>7. \A j \in Jobs : Finished(disk'[j]) /\ disk'[j].result = disk[j].result
    <3>1. mem.result = disk[job].result /\ Finished(mem')
      BY <1>0, <2>1, <2>2 DEF ResultsAgree, Settling, Finished
    <3> QED
      BY <1>0, <2>1, <2>2, <3>1 DEF ResultsAgree
  <2>8. ResultsAgree'
    BY <1>0, <1>a, <2>1, <2>7 DEF ResultsAgree, InHand, Worked, Settling, Recovery
  <2> QED
    BY <2>5, <2>6, <2>8 DEF DecisionInv
<1> QED
  BY <1>1, <1>2, <1>3, <1>4, <1>5, <1>6, <1>7, <1>8, <1>9, <1>10 DEF Settlement

\* The one step that decides: the bytes prepared agree with a decision made
\* before, and with what every copy of the record will lead to.
LEMMA PrepareDecides ==
    ASSUME Typed, MarkInv, DecisionInv, PrepareCompletion,
           mem.pending = NoOutcome, CanPrepareCompletion(mem),
           NEW body, body = CompletionBody(mem), mem' = [mem EXCEPT !.pending = body],
           disk' \in {disk, [disk EXCEPT ![job] = mem']},
           pc' \in {"send", "hold_check"}, pc' = "send" => disk' # disk
    PROVE  (DecidedOnce /\ DecisionKept)'
<1> USE DEF Step, ControllerPcs, SettlePcs
<1>0. /\ pc = "deliver" /\ job \in Jobs /\ mem \in RunRecords
      /\ disk \in [Jobs -> RunRecords] /\ UNCHANGED <<job, op, sent>>
      /\ DecidedOnce /\ DecisionKept /\ DeliveryAgrees /\ ResultsAgree
  BY DEF PrepareCompletion, world, Typed, TypeOK, JobInHand, DecisionInv
<1>1. body \in Bodies /\ NoOutcome \notin Bodies
  BY <1>0, CompletionBodyType DEF Bodies, Results, WorkerErrors, NoOutcome
<1>2. mem'.pending = body
  BY <1>0 DEF RunRecords
<1>3. ASSUME NEW b \in Bodies, Decided(job, b) PROVE b = body
  <2>1. Repeats(mem, b)
    BY <1>0, <1>3 DEF DecisionKept, Held, InHand, Worked
  <2>2. CASE mem.result # NoOutcome
    BY <2>1, <2>2 DEF Repeats, ByResult, CanPrepareCompletion, CompletionBody
  <2>3. CASE mem.result = NoOutcome
    <3>1. b = InterruptedClean
      BY <2>1, <2>3 DEF Repeats, ByResult
    <3>2. ~Undecided(job)
      BY <1>3, NoneDecided
    <3>3. mem.error = InterruptedClean
      BY <1>0, <2>3, <3>2 DEF DeliveryAgrees
    <3> QED
      BY <2>3, <3>1, <3>3 DEF CompletionBody
  <2> QED
    BY <2>2, <2>3
<1>4. ASSUME NEW o \in Operators, InFlight(o, job)
      PROVE  RepeatsConfirmed(op[o].snap, body)
  <2>1. /\ mem.result = disk[job].result /\ op[o].snap.result = disk[job].result
        /\ op[o].snap.cleanupRequired = mem.cleanupRequired
    BY <1>0, <1>4 DEF ResultsAgree, Settling, InFlight, MarkInv, SettlingSame, RequestsCurrent,
       SamePlan
  <2>2. CASE mem.result # NoOutcome
    BY <2>1, <2>2 DEF RepeatsConfirmed, ByResult, CompletionBody
  <2>3. CASE mem.result = NoOutcome
    <3>1. ~Undecided(job)
      BY <1>4 DEF Undecided, Free, InFlight
    <3>2. mem.error = InterruptedClean /\ mem.cleanupRequired
      BY <1>0, <2>3, <3>1 DEF DeliveryAgrees
    <3> QED
      BY <2>1, <2>3, <3>2 DEF RepeatsConfirmed, CompletionBody
  <2> QED
    BY <2>2, <2>3
<1>5. \A j \in Jobs \ {job} : disk'[j] = disk[j]
  BY <1>0
<1>6. \A j \in Jobs, b \in Bodies :
        Decided(j, b)' => Decided(j, b) \/ (j = job /\ b = body /\ disk'[job] = mem')
  <2>1. disk'[job] = disk[job] \/ disk'[job] = mem'
    BY <1>0
  <2>2. disk' = disk => pc' \notin InHand
    BY DEF InHand, Worked
  <2>3. disk' # disk => disk'[job] = mem'
    BY <1>0
  <2> QED
    BY <1>0, <1>2, <1>5, <2>1, <2>2, <2>3 DEF Decided, Held, InFlight, Recovery
<1>7. DecidedOnce'
  BY <1>0, <1>3, <1>6 DEF DecidedOnce
<1>8. DecisionKept'
  <2> SUFFICES ASSUME NEW j \in Jobs, NEW b \in Bodies, Decided(j, b)'
               PROVE  /\ (Closed(disk'[j]) \/ Repeats(disk'[j], b))
                      /\ Held(j)' => Repeats(mem', b)
                      /\ \A o \in Operators : InFlight(o, j)' => RepeatsConfirmed(op'[o].snap, b)
    BY DEF DecisionKept, Closed
  <2>1. Repeats(mem', b)
    BY <1>1, <1>2 DEF Repeats
  <2>2. CASE Decided(j, b)
    <3>1. disk'[j] \in {disk[j], mem'}
      BY <1>0
    <3> QED
      BY <1>0, <2>1, <2>2, <3>1 DEF DecisionKept, InFlight, Recovery
  <2>3. CASE j = job /\ b = body /\ disk'[job] = mem'
    BY <1>0, <1>4, <2>1, <2>3 DEF InFlight, Recovery
  <2> QED
    BY <1>6, <2>2, <2>3
<1> QED
  BY <1>7, <1>8

\* Delivering sends what is decided and closes the record.
LEMMA DeliveryDecides ==
    ASSUME Typed, MarkInv, (MarkInv)', DecisionInv, Delivery
    PROVE  (DecisionInv)'
<1> USE DEF Step, ControllerPcs, SettlePcs
<1>0. /\ pc \in {"deliver", "send", "ack"} /\ pc \in InHand /\ job \in Jobs
      /\ mem \in RunRecords /\ disk \in [Jobs -> RunRecords] /\ sent \in [Jobs -> SUBSET Bodies]
      /\ coord \in [Jobs -> {"queued", "claimed", "completed", "released"}]
      /\ UNCHANGED <<job, op>>
      /\ DecidedOnce /\ DecisionKept /\ UndecidedUntilDelivery /\ DeliveryAgrees /\ ResultsAgree
  BY DEF Delivery, PrepareCompletion, SendAcknowledged, SendAnswerLost, SendConflict,
         SendRejected, PersistAcknowledgement, local,
         Typed, TypeOK, JobInHand, DecisionInv, InHand, Worked
<1>a. \A o \in Operators : Recovery(o) => op[o].job \in Jobs
  BY DEF MarkInv, RequestsCurrent
<1>b. mem.result = disk[job].result /\ Finished(mem) /\ Finished(disk[job])
  BY <1>0 DEF ResultsAgree, Settling
<1>c. pc' \in {"return_ok", "hold_check", "send", "ack", "mark_hold"}
  BY DEF Delivery, PrepareCompletion, SendAcknowledged, SendAnswerLost, SendConflict,
         SendRejected, PersistAcknowledgement, SaveMem, Save, local
<1>d. \A j \in Jobs : coord'[j] = "queued" => coord[j] = "queued" /\ sent'[j] = sent[j]
  <2>1. coord[job] # "queued"
    BY <1>0 DEF MarkInv, HandOnDisk, Worked, InHand
  <2>2. /\ coord' \in {coord, [coord EXCEPT ![job] = "completed"]}
        /\ sent' \in {sent, [sent EXCEPT ![job] = @ \cup {mem.pending}]}
    BY DEF Delivery, PrepareCompletion, SendAcknowledged, SendAnswerLost, SendConflict,
         SendRejected, PersistAcknowledgement, Recorded, Duplicate, Received, world
  <2> QED
    BY <1>0, <2>1, <2>2
<1>e. (UndecidedUntilDelivery /\ DeliveryAgrees)'
  BY <1>0, <1>c, <1>d DEF UndecidedUntilDelivery, DeliveryAgrees, FirstLife, Recovering
\* A written record has the result of the one on disk.
<1>f. ASSUME disk' \in {disk, [disk EXCEPT ![job] = mem']},
             mem'.result = mem.result, mem'.status = mem.status
      PROVE  ResultsAgree'
  <2>1. Finished(mem')
    BY <1>b, <1>f DEF Finished
  <2>2. \A j \in Jobs : Finished(disk'[j]) /\ disk'[j].result = disk[j].result
    BY <1>0, <1>b, <1>f, <2>1 DEF ResultsAgree
  <2>3. mem'.result = disk'[job].result
    BY <1>0, <1>b, <1>f, <2>2
  <2> QED
    BY <1>0, <1>a, <2>1, <2>2, <2>3 DEF ResultsAgree, Recovery
<1>1. CASE PrepareCompletion
  <2>1. CASE UNCHANGED <<mem, disk>>
    <3>1. (DecidedOnce /\ DecisionKept)'
      <4>1. UNCHANGED sent /\ \A b \in Bodies : Decided(job, b) => Repeats(mem', b)
        BY <1>0, <1>1, <2>1 DEF PrepareCompletion, world, DecisionKept, Held
      <4> QED
        BY <1>0, <2>1, <4>1, WriteDecides
    <3> QED
      BY <1>e, <1>f, <2>1, <3>1 DEF DecisionInv
  <2>2. CASE /\ mem.pending = NoOutcome /\ CanPrepareCompletion(mem)
             /\ SaveMem([mem EXCEPT !.pending = CompletionBody(mem)], "send", "hold_check")
    <3>1. /\ mem' = [mem EXCEPT !.pending = CompletionBody(mem)]
          /\ \/ pc' = "send" /\ disk' = [disk EXCEPT ![job] = mem']
             \/ pc' = "hold_check" /\ disk' \in {disk, [disk EXCEPT ![job] = mem']}
      BY <2>2 DEF SaveMem, Save, SaveFails, Saved
    <3>2. mem'.result = mem.result /\ mem'.status = mem.status /\ mem'.pending = CompletionBody(mem)
      BY <1>0, <3>1 DEF RunRecords
    <3>3. CASE disk' = disk /\ pc' = "send"
      <4>1. disk[job] = mem'
        BY <1>0, <3>1, <3>3
      <4>2. CompletionBody(mem) \in Bodies
        BY <1>0, <2>2, CompletionBodyType
      <4>3. \A b \in Bodies : Repeats(mem', b)
        BY <3>2, <4>2 DEF Repeats, Bodies, Results, WorkerErrors, NoOutcome
      <4>4. \A j \in Jobs, b \in Bodies : Decided(j, b)' => Decided(j, b)
        BY <1>0, <1>1, <3>3, <4>1 DEF Decided, Held, InFlight, Recovery, PrepareCompletion, world
      <4>5. DecisionKept'
        BY <1>0, <3>3, <4>3, <4>4 DEF DecisionKept, Held, InFlight, Recovery, Closed
      <4> QED
        BY <1>0, <1>e, <1>f, <3>1, <3>2, <4>4, <4>5, NothingNew DEF DecisionInv
    <3>4. CASE ~(disk' = disk /\ pc' = "send")
      <4>1. (DecidedOnce /\ DecisionKept)'
        BY <1>1, <2>2, <3>1, <3>4, PrepareDecides
      <4> QED
        BY <1>e, <1>f, <3>1, <3>2, <4>1 DEF DecisionInv
    <3> QED
      BY <3>3, <3>4
  <2> QED
    BY <1>1, <2>1, <2>2 DEF PrepareCompletion
<1>2. CASE SendAcknowledged \/ SendAnswerLost \/ SendConflict \/ SendRejected
  <2>1. /\ pc = "send" /\ UNCHANGED <<mem, disk>>
        /\ sent' \in {sent, [sent EXCEPT ![job] = @ \cup {mem.pending}]}
    BY <1>2 DEF SendAcknowledged, SendAnswerLost, SendConflict, SendRejected, Recorded,
       Duplicate, Received, local, world
  <2>2. Decided(job, mem.pending)
    BY <1>0, <2>1 DEF Typed, BodyInHand, Decided, Held
  <2>3. \A j \in Jobs, b \in Bodies : Decided(j, b)' => Decided(j, b)
    <3>1. \A j \in Jobs, b \in Bodies : b \in sent'[j] => b \in sent[j] \/ (j = job /\ b = mem.pending)
      BY <1>0, <2>1
    <3> QED
      BY <1>0, <2>1, <2>2, <3>1 DEF Decided, Held, InFlight, Recovery
  <2>4. DecisionKept'
    <3>1. \A j \in Jobs : Held(j)' => Held(j)
      BY <1>0 DEF Held
    <3> QED
      BY <1>0, <2>1, <2>3, <3>1 DEF DecisionKept, InFlight, Recovery, Closed
  <2> QED
    BY <1>0, <1>e, <1>f, <2>1, <2>3, <2>4, NothingNew DEF DecisionInv
<1>3. CASE PersistAcknowledgement
  <2>1. /\ mem' = WithAcknowledgement(mem) /\ pc' \in {"return_ok", "hold_check"} /\ UNCHANGED sent
        /\ disk' \in {disk, [disk EXCEPT ![job] = mem']}
    BY <1>3 DEF PersistAcknowledgement, SaveMem, Save, SaveFails, Saved, world
  <2>2. /\ Closed(mem') /\ mem'.pending = NoOutcome
        /\ mem'.result = mem.result /\ mem'.status = mem.status
    BY <1>0, <2>1 DEF WithAcknowledgement, RunRecords, Closed
  <2>3. (DecidedOnce /\ DecisionKept)'
    <3>1. pc' \notin InHand
      BY <2>1 DEF InHand, Worked
    <3> QED
      BY <1>0, <2>1, <2>2, <3>1, WriteDecides
  <2> QED
    BY <1>e, <1>f, <2>1, <2>2, <2>3 DEF DecisionInv
<1> QED
  BY <1>1, <1>2, <1>3 DEF Delivery

\* A fresh claim is of a job nothing was decided for; a recovery takes over
\* what the file says.
LEMMA RunLoopDecides ==
    ASSUME Typed, MarkInv, CleanupInv, (CleanupInv)', DecisionInv, RunLoop
    PROVE  (DecisionInv)'
<1> USE DEF Step, ControllerPcs, SettlePcs
<1>0. /\ disk \in [Jobs -> RunRecords] /\ sent \in [Jobs -> SUBSET Bodies]
      /\ coord \in [Jobs -> {"queued", "claimed", "completed", "released"}]
      /\ DecidedOnce /\ DecisionKept /\ UndecidedUntilDelivery /\ DeliveryAgrees /\ ResultsAgree
  BY DEF Typed, TypeOK, DecisionInv
<1>1. UNCHANGED <<op, disk, sent>>
  BY DEF RunLoop, ClaimJob, ClaimAnswerLost, ClaimUnresolved, ClaimRejected, ReturnOk, Recover,
     CheckForHold, WakeUp, world
<1>2. \A j \in Jobs : coord'[j] = "queued" => coord[j] = "queued"
  <2>1. coord' = coord \/ \E j \in Jobs : coord' = [coord EXCEPT ![j] = "claimed"]
    BY DEF RunLoop, ClaimJob, ClaimAnswerLost, ClaimUnresolved, ClaimRejected, ReturnOk, Recover,
       CheckForHold, WakeUp, world
  <2> QED
    BY <1>0, <2>1
<1>3. NoOutcome \notin Bodies
  BY DEF Bodies, Results, WorkerErrors, NoOutcome
\* Nothing is decided if the record in hand has its bytes from the file.
<1>4. ASSUME \A j \in Jobs : Held(j)' => mem'.pending \in {NoOutcome, disk[j].pending}
      PROVE  \A j \in Jobs, b \in Bodies : Decided(j, b)' => Decided(j, b)
  BY <1>1, <1>3, <1>4 DEF Decided, InFlight, Recovery
<1>5. ASSUME pc' \notin Worked PROVE (DecisionInv)'
  <2>1. \A j \in Jobs : ~Held(j)'
    BY <1>5 DEF Held, InHand
  <2>2. \A j \in Jobs, b \in Bodies : Decided(j, b)' => Decided(j, b)
    BY <1>4, <2>1
  <2>3. (DecidedOnce /\ DecisionKept)'
    BY <1>0, <1>1, <2>1, <2>2, NothingNew DEF DecisionKept, InFlight, Recovery, Closed
  <2>4. (UndecidedUntilDelivery /\ DeliveryAgrees)'
    BY <1>0, <1>1, <1>2, <1>5 DEF UndecidedUntilDelivery, DeliveryAgrees, FirstLife, Recovering,
       Worked
  <2>5. ResultsAgree'
    BY <1>0, <1>1, <1>5 DEF ResultsAgree, InHand, Worked, Settling, Recovery
  <2> QED
    BY <2>3, <2>4, <2>5 DEF DecisionInv
<1>6. ASSUME NEW j \in Jobs, ClaimJob(j) PROVE (DecisionInv)'
  <2>1. pc' = "create" /\ job' = j /\ mem' = Claimed /\ coord[j] = "queued"
    BY <1>6 DEF ClaimJob
  <2>2. mem'.pending = NoOutcome /\ mem'.result = NoOutcome
    BY <2>1 DEF Claimed, NoRecord
  <2>3. Undecided(j)
    <3>1. disk[j] = NoRecord /\ sent[j] = {}
      BY <1>0, <2>1 DEF MarkInv, FilesMarked, UndecidedUntilDelivery
    <3>2. \A o \in Operators : Recovery(o) => op[o].job # j
      BY <3>1 DEF MarkInv, RequestsCurrent, NoRecord
    <3> QED
      BY <3>1, <3>2 DEF Undecided, Free, NoRecord
  <2>4. Undecided(job)'
    BY <1>1, <2>1, <2>3 DEF Undecided, Free, Recovery
  <2>5. \A k \in Jobs, b \in Bodies : Decided(k, b)' => Decided(k, b)
    BY <1>4, <2>2
  <2>6. DecisionKept'
    <3> SUFFICES ASSUME NEW k \in Jobs, NEW b \in Bodies, Decided(k, b)'
                 PROVE  /\ (Closed(disk'[k]) \/ Repeats(disk'[k], b))
                        /\ Held(k)' => Repeats(mem', b)
                        /\ \A o \in Operators : InFlight(o, k)' => RepeatsConfirmed(op'[o].snap, b)
      BY DEF DecisionKept, Closed
    <3>1. Decided(k, b)
      BY <2>5
    <3>2. ~Held(k)'
      <4>1. Held(k)' => k = j
        BY <2>1 DEF Held
      <4>2. ASSUME k = j PROVE FALSE
        BY <1>1, <1>3, <2>2, <2>3, <4>2 DEF Undecided, Free, Decided, InFlight, Recovery
      <4> QED
        BY <4>1, <4>2
    <3> QED
      BY <1>0, <1>1, <3>1, <3>2 DEF DecisionKept, InFlight, Recovery
  <2>7. (UndecidedUntilDelivery /\ DeliveryAgrees)'
    BY <1>0, <1>1, <1>2, <2>1, <2>2, <2>4 DEF UndecidedUntilDelivery, DeliveryAgrees, FirstLife,
       Recovering
  <2>8. ResultsAgree'
    BY <1>0, <1>1, <2>1, <2>2 DEF ResultsAgree, Finished, Settling, Recovery
  <2> QED
    BY <1>0, <2>5, <2>6, <2>7, <2>8, NothingNew DEF DecisionInv
<1>7. ASSUME NEW j \in Jobs, ClaimAnswerLost(j) PROVE (DecisionInv)'
  <2>1. UNCHANGED <<pc, job, mem, run>> /\ pc \notin Worked
    BY <1>7 DEF ClaimAnswerLost, local, Worked
  <2> QED
    BY <1>5, <2>1
<1>8. ASSUME NEW j \in Unresolved, RecoverWith(j) PROVE (DecisionInv)'
  <2>1. CASE pc' = "hold_check"
    BY <1>5, <2>1 DEF Worked
  <2>2. CASE pc' \in {"deliver", "recover_target"}
    <3>1. /\ job' = j
          /\ \/ pc' = "deliver" /\ mem' = disk[j] /\ HasCompletion(disk[j])
             \/ /\ pc' = "recover_target" /\ mem' = [disk[j] EXCEPT !.status = "interrupted"]
                /\ run'.why = "interrupted" /\ ~HasCompletion(disk[j])
          /\ ~(disk[j].pending = NoOutcome /\ disk[j].hold # "none")
      BY <1>8, <2>2 DEF RecoverWith, NoRun
    <3>2. j \in Jobs /\ RequiresWorkerAttention(disk[j]) /\ disk[j] \in RunRecords
      BY <1>0, <1>8 DEF Unresolved
    <3>3. /\ mem'.pending = disk[j].pending /\ mem'.result = disk[j].result
          /\ mem'.error = disk[j].error /\ mem'.cleanup = disk[j].cleanup
          /\ mem'.cleanupRequired = disk[j].cleanupRequired
      BY <3>1, <3>2 DEF RunRecords
    <3>4. Closed(disk[j]) => disk[j].pending # NoOutcome
      BY <3>1, <3>2 DEF Closed, RequiresWorkerAttention
    <3>5. pc' = "recover_target" => disk[j].pending = NoOutcome /\ disk[j].result = NoOutcome
      BY <1>0, <3>1, <3>2 DEF HasCompletion, ResultsAgree, Finished
    <3>6. \A k \in Jobs, b \in Bodies : Decided(k, b)' => Decided(k, b)
      <4>1. \A k \in Jobs : Held(k)' => mem'.pending \in {NoOutcome, disk[k].pending}
        BY <3>1, <3>3 DEF Held
      <4> QED
        BY <1>4, <4>1
    <3>7. \A b \in Bodies : Decided(j, b) => Repeats(disk[j], b)
      BY <1>0, <3>2, <3>4 DEF DecisionKept, Repeats
    <3>8. DecisionKept'
      <4> SUFFICES ASSUME NEW k \in Jobs, NEW b \in Bodies, Decided(k, b)'
                   PROVE  /\ (Closed(disk'[k]) \/ Repeats(disk'[k], b))
                          /\ Held(k)' => Repeats(mem', b)
                          /\ \A o \in Operators : InFlight(o, k)' => RepeatsConfirmed(op'[o].snap, b)
        BY DEF DecisionKept, Closed
      <4>1. Decided(k, b)
        BY <3>6
      <4>2. Held(k)' => Repeats(mem', b)
        <5>1. Held(k)' => k = j
          BY <3>1 DEF Held
        <5>2. ASSUME k = j PROVE Repeats(mem', b)
          <6>1. Repeats(disk[j], b)
            BY <3>7, <4>1, <5>2
          <6> QED
            BY <3>3, <6>1 DEF Repeats, ByResult, CleanOnRecord
        <5> QED
          BY <5>1, <5>2
      <4> QED
        BY <1>0, <1>1, <4>1, <4>2 DEF DecisionKept, InFlight, Recovery
    <3>9. pc' = "recover_target" => (Undecided(job) \/ CleanSecond)'
      <4>1. CASE CleanOnRecord(disk[j])
        BY <3>1, <3>3, <4>1 DEF CleanSecond, CleanOnRecord
      <4>2. CASE ~CleanOnRecord(disk[j])
        <5>1. ASSUME pc' = "recover_target" PROVE Undecided(j)
          <6>1. Free(j)
            <7>1. ~CleanSecond'
              BY <3>1, <3>3, <4>2, <5>1 DEF CleanSecond, CleanOnRecord
            <7>2. Free(job)'
              BY <5>1, <7>1 DEF CleanupInv, RecoveredAlone, Recovering
            <7> QED
              BY <1>1, <3>1, <7>2 DEF Free, Recovery
          <6>2. disk[j].pending = NoOutcome
            BY <3>5, <5>1
          <6>3. \A b \in Bodies : ~Decided(j, b)
            BY <3>5, <3>7, <4>2, <5>1 DEF Repeats, ByResult
          <6>4. sent[j] = {}
            BY <1>0, <3>2, <6>3 DEF Decided
          <6> QED
            BY <6>1, <6>2, <6>4 DEF Undecided
        <5> QED
          BY <1>1, <3>1, <5>1 DEF Undecided, Free, Recovery
      <4> QED
        BY <4>1, <4>2
    <3>10. (UndecidedUntilDelivery /\ DeliveryAgrees)'
      <4>1. pc' = "deliver" /\ disk[j].pending = NoOutcome => disk[j].result # NoOutcome
        BY <3>1 DEF HasCompletion
      <4> QED
        BY <1>0, <1>1, <1>2, <2>2, <3>1, <3>3, <3>5, <3>9, <4>1
           DEF UndecidedUntilDelivery, DeliveryAgrees, FirstLife, Recovering
    <3>11. ResultsAgree'
      <4>1. Finished(mem')
        BY <1>0, <3>1, <3>2, <3>3, <3>5 DEF ResultsAgree, Finished
      <4> QED
        BY <1>0, <1>1, <3>1, <3>3, <4>1 DEF ResultsAgree, Recovery
    <3> QED
      BY <1>0, <3>6, <3>8, <3>10, <3>11, NothingNew DEF DecisionInv
  <2> QED
    BY <1>8, <2>1, <2>2 DEF RecoverWith
<1>9. CASE pc' \in {"claim", "coord_wait", "exited", "hold_check", "op_wait", "recover"}
  BY <1>5, <1>9 DEF Worked
<1> QED
  BY <1>6, <1>7, <1>8, <1>9 DEF RunLoop, ClaimUnresolved, ClaimRejected, ReturnOk, Recover,
     CheckForHold, WakeUp

\* What an operator reads repeats the decision once its cleanup is confirmed,
\* and what an operator writes has it confirmed, keeps the bytes or is closed.
LEMMA OthersDecide ==
    ASSUME Typed, MarkInv, CleanupInv, DecisionInv,
           \/ Heartbeat \/ Operator \/ Restart
           \/ \E j \in Jobs : CoordinatorReleases(j) \/ CoordinatorReinstates(j)
    PROVE  (DecisionInv)'
<1> USE DEF ControllerPcs, SettlePcs
<1>0. /\ disk \in [Jobs -> RunRecords] /\ op \in [Operators -> Requests]
      /\ coord \in [Jobs -> {"queued", "claimed", "completed", "released"}]
      /\ DecidedOnce /\ DecisionKept /\ UndecidedUntilDelivery /\ DeliveryAgrees /\ ResultsAgree
      /\ pc \in Worked => job \in Jobs
  BY DEF Typed, TypeOK, JobInHand, DecisionInv, Worked
<1>a. \A o \in Operators : Recovery(o) => op[o].job \in Jobs
  BY DEF MarkInv, RequestsCurrent
\* Requests end, and nothing else the invariant depends on changes.
<1>b. ASSUME UNCHANGED <<pc, job, mem, run, disk, sent>>,
             \A p \in Operators : Recovery(p)' => Recovery(p) /\ op'[p] = op[p],
             \A j \in Jobs : coord'[j] = "queued" => coord[j] = "queued"
      PROVE  (DecisionInv)'
  <2>1. \A j \in Jobs, b \in Bodies : Decided(j, b)' => Decided(j, b)
    BY <1>b DEF Decided, Held, InFlight
  <2>2. DecisionKept'
    BY <1>0, <1>b, <2>1 DEF DecisionKept, Held, InFlight, Closed
  <2>3. Undecided(job) => Undecided(job)'
    BY <1>b DEF Undecided, Free
  <2>4. (UndecidedUntilDelivery /\ DeliveryAgrees)'
    BY <1>0, <1>b, <2>3 DEF UndecidedUntilDelivery, DeliveryAgrees, CleanSecond
  <2>5. ResultsAgree'
    BY <1>0, <1>b DEF ResultsAgree
  <2> QED
    BY <1>0, <2>1, <2>2, <2>4, <2>5, NothingNew DEF DecisionInv
<1>1. CASE Heartbeat
  <2>1. UNCHANGED <<pc, job, mem, run, disk, sent, op, coord>>
    BY <1>1 DEF Heartbeat, HeartbeatClaimLost, HeartbeatCancel, world
  <2> QED
    BY <1>b, <2>1 DEF Recovery
<1>2. ASSUME NEW o \in Operators, NEW a \in RecoveryActions, NEW j \in Jobs,
             RecoveryRequest(o, a, j)
      PROVE  (DecisionInv)'
  <2>1. /\ op' = [op EXCEPT ![o] = [action |-> a, job |-> j, snap |-> disk[j]]]
        /\ disk[j].hold # "none"
        /\ UNCHANGED <<pc, job, mem, run, disk, sent, coord>>
        /\ \/ disk[j].cleanupRequired
           \/ disk[j].pending # NoOutcome
    BY <1>2 DEF RecoveryRequest, RecoveryAllowed, RecoveryActions, local
  <2>2. \A p \in Operators :
            \/ p = o /\ op'[p] = [action |-> a, job |-> j, snap |-> disk[j]]
            \/ p # o /\ op'[p] = op[p]
    BY <1>0, <2>1
  <2>3. \A k \in Jobs, b \in Bodies : Decided(k, b)' => Decided(k, b)
    BY <2>1, <2>2 DEF Decided, Held, InFlight, Recovery
  <2>4. \A b \in Bodies : Decided(j, b) => RepeatsConfirmed(disk[j], b)
    BY <1>0, <2>1 DEF DecisionKept, Closed, Repeats, RepeatsConfirmed, CleanOnRecord
  <2>5. DecisionKept'
    <3> SUFFICES ASSUME NEW k \in Jobs, NEW b \in Bodies, Decided(k, b)'
                 PROVE  /\ (Closed(disk'[k]) \/ Repeats(disk'[k], b))
                        /\ Held(k)' => Repeats(mem', b)
                        /\ \A p \in Operators : InFlight(p, k)' => RepeatsConfirmed(op'[p].snap, b)
      BY DEF DecisionKept, Closed
    <3>1. Decided(k, b)
      BY <2>3
    <3>2. \A p \in Operators : InFlight(p, k)' => RepeatsConfirmed(op'[p].snap, b)
      <4> SUFFICES ASSUME NEW p \in Operators, InFlight(p, k)'
                   PROVE  RepeatsConfirmed(op'[p].snap, b)
        OBVIOUS
      <4>1. CASE p = o
        <5>1. k = j /\ op'[p].snap = disk[j]
          BY <2>2, <4>1 DEF InFlight
        <5> QED
          BY <2>4, <3>1, <5>1
      <4>2. CASE p # o
        BY <1>0, <2>2, <3>1, <4>2 DEF DecisionKept, InFlight, Recovery
      <4> QED
        BY <4>1, <4>2
    <3> QED
      BY <1>0, <2>1, <3>1, <3>2 DEF DecisionKept, Held
  <2>6. Undecided(job) => Undecided(job)'
    BY <2>1, <2>2 DEF Undecided, Free, Recovery
  <2>7. (UndecidedUntilDelivery /\ DeliveryAgrees)'
    BY <1>0, <2>1, <2>6 DEF UndecidedUntilDelivery, DeliveryAgrees, CleanSecond
  <2>8. ResultsAgree'
    BY <1>0, <2>1, <2>2 DEF ResultsAgree, Recovery
  <2> QED
    BY <1>0, <2>3, <2>5, <2>7, <2>8, NothingNew DEF DecisionInv
<1>3. ASSUME NEW o \in Operators, RecoverySave(o) PROVE (DecisionInv)'
  <2> DEFINE k == op[o].job
             snap == op[o].snap
             rec == RecoveryEdit(op[o].action, snap)
  <2>1. /\ op' = [op EXCEPT ![o] = NoRequest] /\ Recovery(o)
        /\ disk' \in {disk, [disk EXCEPT ![k] = rec]}
        /\ UNCHANGED <<pc, job, mem, run, sent, coord>>
    BY <1>3 DEF RecoverySave, Recovery, local, world
  <2>2. \A p \in Operators : Recovery(p)' => Recovery(p) /\ op'[p] = op[p]
    BY <1>0, <2>1 DEF Recovery, NoRequest, RecoveryActions
  <2>3. /\ k \in Jobs /\ snap \in RunRecords
        /\ \/ disk' = disk
           \/ disk'[k] = rec /\ \A j \in Jobs \ {k} : disk'[j] = disk[j]
    BY <1>0, <1>a, <2>1 DEF Requests
  <2>4. /\ rec.result = snap.result /\ rec.status = snap.status
        /\ rec.pending \in {snap.pending, NoOutcome}
        /\ \/ Closed(rec)
           \/ /\ rec.pending = snap.pending /\ rec.error = snap.error
              /\ \/ rec.pending # NoOutcome
                 \/ /\ rec.cleanup = "passed" /\ rec.cleanupRequired = snap.cleanupRequired
    <3>1. op[o].action = "retryCompletion" => snap.pending # NoOutcome
      BY <2>1 DEF CleanupInv, RequestsJustified
    <3> QED
      BY <2>1, <2>3, <3>1 DEF RecoveryEdit, Recovery, RecoveryActions, Closed, RunRecords
  <2> HIDE DEF rec
  <2>5. \A j \in Jobs, b \in Bodies : Decided(j, b)' => Decided(j, b)
    <3>1. NoOutcome \notin Bodies
      BY DEF Bodies, Results, WorkerErrors, NoOutcome
    <3>2. \A b \in Bodies : disk'[k].pending = b => Decided(k, b)
      BY <2>1, <2>3, <2>4, <3>1 DEF Decided, InFlight
    <3>3. \A j \in Jobs, b \in Bodies : disk'[j].pending = b => Decided(j, b)
      BY <2>3, <3>2 DEF Decided
    <3> QED
      BY <2>1, <2>2, <3>3 DEF Decided, Held, InFlight
  <2>6. \A b \in Bodies : Decided(k, b) => Closed(rec) \/ Repeats(rec, b)
    <3>1. \A b \in Bodies : Decided(k, b) => RepeatsConfirmed(snap, b)
      BY <1>0, <2>1, <2>3 DEF DecisionKept, InFlight
    <3> QED
      BY <2>4, <3>1 DEF RepeatsConfirmed, Repeats, ByResult, CleanOnRecord
  <2>7. DecisionKept'
    <3> SUFFICES ASSUME NEW j \in Jobs, NEW b \in Bodies, Decided(j, b)'
                 PROVE  /\ (Closed(disk'[j]) \/ Repeats(disk'[j], b))
                        /\ Held(j)' => Repeats(mem', b)
                        /\ \A p \in Operators : InFlight(p, j)' => RepeatsConfirmed(op'[p].snap, b)
      BY DEF DecisionKept, Closed
    <3>1. Decided(j, b)
      BY <2>5
    <3>2. Closed(disk'[j]) \/ Repeats(disk'[j], b)
      <4>1. CASE disk'[j] = disk[j]
        BY <1>0, <3>1, <4>1 DEF DecisionKept
      <4>2. CASE j = k /\ disk'[j] = rec
        BY <2>6, <3>1, <4>2
      <4> QED
        BY <2>3, <4>1, <4>2
    <3> QED
      BY <1>0, <2>1, <2>2, <3>1, <3>2 DEF DecisionKept, Held, InFlight
  <2>8. (Undecided(job) /\ job \in Jobs) => Undecided(job)' /\ disk'[job] = disk[job]
    BY <2>1, <2>2, <2>3 DEF Undecided, Free
  <2>9. (UndecidedUntilDelivery /\ DeliveryAgrees)'
    BY <1>0, <2>1, <2>8 DEF UndecidedUntilDelivery, DeliveryAgrees, CleanSecond, FirstLife,
       Recovering, Worked
  <2>10. \A j \in Jobs : Finished(disk'[j]) /\ disk'[j].result = disk[j].result
    <3>1. Finished(snap) /\ snap.result = disk[k].result
      BY <1>0, <2>1 DEF ResultsAgree
    <3>2. Finished(rec) /\ rec.result = disk[k].result
      BY <2>4, <3>1 DEF Finished
    <3> QED
      BY <1>0, <2>3, <3>2 DEF ResultsAgree
  <2>11. ResultsAgree'
    BY <1>0, <1>a, <2>1, <2>2, <2>10 DEF ResultsAgree, InHand, Settling, Worked
  <2> QED
    BY <1>0, <2>5, <2>7, <2>9, <2>11, NothingNew DEF DecisionInv
<1>4. ASSUME NEW o \in Operators, NEW j \in Jobs, ReadyRequest(o, j)
      PROVE  (DecisionInv)'
  <2>1. /\ op' = [op EXCEPT ![o] = [NoRequest EXCEPT !.action = "ready", !.job = j]]
        /\ UNCHANGED <<pc, job, mem, run, disk, sent, coord>>
    BY <1>4 DEF ReadyRequest, local, world
  <2>2. \A p \in Operators : Recovery(p)' => Recovery(p) /\ op'[p] = op[p]
    BY <1>0, <2>1 DEF Recovery, NoRequest, RecoveryActions
  <2> QED
    BY <1>b, <2>1, <2>2
<1>5. ASSUME NEW o \in Operators, ReadyCall(o) PROVE (DecisionInv)'
  <2>1. /\ op' = [op EXCEPT ![o] = NoRequest] /\ UNCHANGED <<pc, job, mem, run, disk, sent>>
        /\ coord' = coord \/ coord' = [coord EXCEPT ![op[o].job] = "released"]
    BY <1>5 DEF ReadyCall, local
  <2>2. \A p \in Operators : Recovery(p)' => Recovery(p) /\ op'[p] = op[p]
    BY <1>0, <2>1 DEF Recovery, NoRequest, RecoveryActions
  <2>3. \A j \in Jobs : coord'[j] = "queued" => coord[j] = "queued"
    BY <1>0, <2>1
  <2> QED
    BY <1>b, <2>1, <2>2, <2>3
<1>6. CASE Restart
  <2>1. /\ pc' = "recover" /\ op' = [o \in Operators |-> NoRequest]
        /\ UNCHANGED <<disk, sent, coord>>
    BY <1>6 DEF Restart, world
  <2>2. \A o \in Operators : ~Recovery(o)'
    BY <2>1 DEF Recovery, NoRequest, RecoveryActions
  <2>3. \A j \in Jobs, b \in Bodies : Decided(j, b)' => Decided(j, b)
    BY <2>1, <2>2 DEF Decided, Held, InFlight, InHand, Worked
  <2>4. DecisionKept'
    BY <1>0, <2>1, <2>2, <2>3 DEF DecisionKept, Held, InFlight, InHand, Worked, Closed
  <2>5. (UndecidedUntilDelivery /\ DeliveryAgrees)'
    BY <1>0, <2>1 DEF UndecidedUntilDelivery, DeliveryAgrees, FirstLife, Recovering
  <2>6. ResultsAgree'
    BY <1>0, <2>1, <2>2 DEF ResultsAgree, InHand, Settling, Worked
  <2> QED
    BY <1>0, <2>3, <2>4, <2>5, <2>6, NothingNew DEF DecisionInv
<1>7. ASSUME NEW j \in Jobs, CoordinatorReleases(j) \/ CoordinatorReinstates(j)
      PROVE  (DecisionInv)'
  <2>1. /\ UNCHANGED <<pc, job, mem, run, disk, sent, op>>
        /\ \E c \in {"released", "claimed"} : coord' = [coord EXCEPT ![j] = c]
    BY <1>7 DEF CoordinatorReleases, CoordinatorReinstates, local
  <2>2. \A k \in Jobs : coord'[k] = "queued" => coord[k] = "queued"
    BY <1>0, <2>1
  <2> QED
    BY <1>b, <2>1, <2>2 DEF Recovery
<1> QED
  BY <1>1, <1>2, <1>3, <1>4, <1>5, <1>6, <1>7 DEF Operator

\* The completion of a job is decided once, in every reachable state.
THEOREM DecisionInvariant == Spec => [](Typed /\ MarkInv /\ CleanupInv /\ DecisionInv)
<1>1. Init => DecisionInv
  <2> SUFFICES ASSUME Init PROVE DecisionInv
    OBVIOUS
  <2>1. /\ pc = "recover" /\ \A o \in Operators : ~Recovery(o)
        /\ \A j \in Jobs : disk[j] = NoRecord /\ sent[j] = {}
    BY DEF Init, Recovery, NoRequest, RecoveryActions
  <2>2. pc \notin Worked
    BY <2>1 DEF Worked, ControllerPcs, SettlePcs
  <2>3. \A j \in Jobs, b \in Bodies : ~Decided(j, b)
    BY <2>1, <2>2 DEF Decided, Held, InFlight, InHand, NoRecord, Bodies, Results, WorkerErrors,
       NoOutcome
  <2>4. UndecidedUntilDelivery /\ DeliveryAgrees
    BY <2>1 DEF UndecidedUntilDelivery, DeliveryAgrees, FirstLife, Recovering, ControllerPcs
  <2>5. ResultsAgree
    BY <2>1, <2>2 DEF ResultsAgree, Finished, InHand, Settling, Worked, NoRecord
  <2> QED
    BY <2>3, <2>4, <2>5 DEF DecisionInv, DecidedOnce, DecisionKept
<1>2. /\ Typed /\ MarkInv /\ CleanupInv /\ (MarkInv)' /\ (CleanupInv)'
      /\ DecisionInv /\ [Next]_vars
      => (DecisionInv)'
  <2>1. CASE UNCHANGED vars
    BY <2>1 DEF DecisionInv, DecidedOnce, DecisionKept, UndecidedUntilDelivery, DeliveryAgrees,
       ResultsAgree, Decided, Held, InFlight, Undecided, Free, Recovery, CleanSecond, Closed,
       vars, local, world
  <2> QED
    BY <2>1, ControllerDecides, SettlementDecides, DeliveryDecides, RunLoopDecides, OthersDecide
       DEF Next, Worker
<1> QED
  BY <1>1, <1>2, CleanupInvariant, PTL DEF Spec

(***************************************************************************)
(* The coordinator never receives two different completions of a job:      *)
(* whatever answers are lost, however often the process restarts, saves    *)
(* fail and operators overwrite each other's edits of the record.          *)
(***************************************************************************)
THEOREM OneBody == Spec => []OneCompletionBody
<1>1. DecisionInv /\ Typed => OneCompletionBody
  BY DEF DecisionInv, DecidedOnce, Decided, OneCompletionBody, Typed, TypeOK
<1> QED
  BY <1>1, DecisionInvariant, PTL

================================================================================
