--------------------------- MODULE WorkerSafetyProofs ---------------------------
(***************************************************************************)
(* Further safety properties of HarnessWorker, for every set of jobs and   *)
(* operators, every choice of faults and any number of restarts.  They     *)
(* build on the invariants of HarnessWorkerProofs and CompletionProofs.    *)
(***************************************************************************)
EXTENDS CompletionProofs, FiniteSetTheorems

--------------------------------------------------------------------------------
(* A workflow is started once                                               *)

\* A job not handed out, or about to be started, was not started before: no
\* control point from which a start follows is entered by a recovery.
RunsCounted ==
    /\ \A j \in Jobs : runs[j] \in {0, 1} /\ (coord[j] = "queued" => runs[j] = 0)
    /\ pc \in {"create", "unsupported", "start"} => runs[job] = 0

LEMMA ControllerCounted ==
    ASSUME Typed, MarkInv, RunsCounted, Controller
    PROVE  RunsCounted'
<1> USE DEF Typed, TypeOK, JobInHand, Step, ControllerPcs, SettlePcs, RunsCounted
<1>1. pc \in ControllerPcs /\ job \in Jobs /\ UNCHANGED <<job, coord>>
  BY DEF Controller, StartExecution, Preflight, PrepareBaseline, InstallBaseline, Mutate,
         PrepareCandidate, UpdateCandidate, GatherEvidence, BeginCleanup,
         ControllerReconcile, SaveCleanup, FinishExecution, Execution, ExecutionSave, world
<1>2. coord[job] # "queued"
  BY <1>1 DEF MarkInv, HandOnDisk, Worked
<1>3. CASE StartExecution
  <2>1. pc = "start" /\ pc' \in {"executed", "preflight"}
        /\ runs' \in {runs, [runs EXCEPT ![job] = @ + 1]}
    BY <1>3 DEF StartExecution
  <2> QED
    BY <1>1, <1>2, <2>1
<1>4. CASE ~StartExecution
  <2>1. UNCHANGED runs
    BY <1>4 DEF Controller, Preflight, PrepareBaseline, InstallBaseline, Mutate,
         PrepareCandidate, UpdateCandidate, GatherEvidence, BeginCleanup,
         ControllerReconcile, SaveCleanup, FinishExecution, Execution, ExecutionSave, world
  <2>2. pc' \notin {"create", "unsupported", "start"}
    BY <1>4 DEF Controller, Preflight, PrepareBaseline, InstallBaseline, Mutate,
         PrepareCandidate, UpdateCandidate, GatherEvidence, BeginCleanup, WorkflowFails,
         AuthorizeCleanup, ControllerReconcile, Reconcile, SaveCleanup, FinishExecution,
         ExecutionSave
  <2> QED
    BY <1>1, <2>1, <2>2
<1> QED
  BY <1>3, <1>4

\* Outside of the controller nothing is started, and only a fresh claim leads
\* to a start.
LEMMA OthersCounted ==
    ASSUME Typed, MarkInv, RunsCounted,
           \/ Settlement \/ Delivery \/ RunLoop \/ Heartbeat \/ Operator \/ Restart
           \/ \E j \in Jobs : CoordinatorReleases(j) \/ CoordinatorReinstates(j)
    PROVE  RunsCounted'
<1> USE DEF Typed, TypeOK, JobInHand, Step, ControllerPcs, SettlePcs, RunsCounted
<1> DEFINE Early(p) == p \in {"create", "unsupported", "start"}
           Handed == \A j \in Jobs : coord'[j] = "queued" => coord[j] = "queued"
<1>1. CASE Settlement
  <2>1. UNCHANGED <<runs, coord, job>> /\ (Early(pc') => Early(pc))
    BY <1>1 DEF Settlement, CreateRecord, CheckSupported, ReloadRecord, Settle, RecoverTarget,
       RecoverReconcile, Reconcile, RecoverSave, Recovered, SetWorkerError, ReleaseClaim,
       MarkHold, Save, SaveMem, world
  <2> QED
    BY <2>1
<1>2. CASE Delivery
  <2>1. UNCHANGED <<runs, job>> /\ ~Early(pc')
    BY <1>2 DEF Delivery, PrepareCompletion, SendAcknowledged, SendAnswerLost, SendConflict,
       SendRejected, PersistAcknowledgement, Save, SaveMem, world, local
  <2>2. coord' \in {coord, [coord EXCEPT ![job] = "completed"]}
    BY <1>2 DEF Delivery, PrepareCompletion, SendAcknowledged, SendAnswerLost, SendConflict,
       SendRejected, PersistAcknowledgement, Recorded, Duplicate, world
  <2> QED
    BY <2>1, <2>2
<1>3. CASE RunLoop
  <2>1. ASSUME NEW j \in Jobs, ClaimJob(j) \/ ClaimAnswerLost(j) PROVE RunsCounted'
    BY <2>1 DEF ClaimJob, ClaimAnswerLost, local
  <2>2. CASE ClaimUnresolved \/ ClaimRejected \/ ReturnOk \/ Recover \/ CheckForHold \/ WakeUp
    <3>1. UNCHANGED <<runs, coord>> /\ ~Early(pc')
      BY <2>2 DEF ClaimUnresolved, ClaimRejected, ReturnOk, Recover, RecoverWith, CheckForHold,
         WakeUp, world
    <3> QED
      BY <3>1
  <2> QED
    BY <1>3, <2>1, <2>2 DEF RunLoop
<1>4. CASE Heartbeat
  BY <1>4 DEF Heartbeat, HeartbeatClaimLost, HeartbeatCancel, world
<1>5. CASE Operator
  <2>1. UNCHANGED <<runs, pc, job>>
    BY <1>5 DEF Operator, ReadyRequest, RecoveryRequest, RecoverySave, ReadyCall, local, world
  <2>2. coord' = coord \/ \E j : coord' = [coord EXCEPT ![j] = "released"]
    BY <1>5 DEF Operator, ReadyRequest, RecoveryRequest, RecoverySave, ReadyCall, world
  <2> QED
    BY <2>1, <2>2
<1>6. CASE Restart
  BY <1>6 DEF Restart, world
<1>7. ASSUME NEW j \in Jobs, CoordinatorReleases(j) \/ CoordinatorReinstates(j)
      PROVE  RunsCounted'
  BY <1>7 DEF CoordinatorReleases, CoordinatorReinstates, local
<1> QED
  BY <1>1, <1>2, <1>3, <1>4, <1>5, <1>6, <1>7

\* The counts are right in every reachable state.
LEMMA RunsStayCounted == Spec => []RunsCounted
<1>1. Init => RunsCounted
  BY DEF Init, RunsCounted
<1>2. Typed /\ MarkInv /\ RunsCounted /\ [Next]_vars => RunsCounted'
  <2>1. CASE UNCHANGED vars
    BY <2>1 DEF RunsCounted, vars, local, world
  <2> QED
    BY <2>1, ControllerCounted, OthersCounted DEF Next, Worker
<1> QED
  BY <1>1, <1>2, CleanupMarkInvariant, PTL DEF Spec

(***************************************************************************)
(* The package workflow of a job is started at most once, whatever fails,  *)
(* however often the process restarts and whatever an operator does.       *)
(***************************************************************************)
THEOREM NeverRunAgain == Spec => []NeverRerun
<1>1. RunsCounted => NeverRerun
  BY DEF RunsCounted, NeverRerun
<1> QED
  BY <1>1, RunsStayCounted, PTL

--------------------------------------------------------------------------------
(* Heartbeats report a required cleanup                                     *)

HoldsCleanup(r) == r.hold # "none" /\ r.cleanupRequired

\* While heartbeats say that no cleanup is required, the target is untouched
\* and no copy of the record lets an operator claim to have restored it.
Reported ==
    /\ pc \in HeartbeatPcs /\ ~progress.cleanup =>
        /\ node[job] = "untouched"
        /\ ~HoldsCleanup(disk[job])
        /\ pc # "executed" => ~HoldsCleanup(mem)
        /\ \A o \in Operators : (Recovery(o) /\ op[o].job = job) => ~op[o].snap.cleanupRequired
    /\ (pc \in ControllerPcs \ {"cleanup"} /\ run.authorized) => progress.cleanup
    /\ pc \in {"reconcile", "save_cleanup", "recover_reconcile", "recover_save"} => progress.cleanup

\* The controller publishes the mark before it mutates.
LEMMA ControllerReported ==
    ASSUME Typed, MarkInv, MarkInv', Reported, Controller
    PROVE  Reported'
<1> USE DEF Step, ControllerPcs, SettlePcs, HeartbeatPcs
<1>0. /\ pc \in ControllerPcs /\ job \in Jobs /\ mem \in RunRecords /\ disk[job] \in RunRecords
      /\ run \in RunLocals /\ progress \in ProgressFlags
      /\ disk \in [Jobs -> RunRecords] /\ node \in [Jobs -> {"untouched", "modified", "restored"}]
  BY DEF Controller, StartExecution, Preflight, PrepareBaseline, InstallBaseline, Mutate,
         PrepareCandidate, UpdateCandidate, GatherEvidence, BeginCleanup,
         ControllerReconcile, SaveCleanup, FinishExecution, Typed, TypeOK, JobInHand
<1>1. /\ disk[job].hold = "none" /\ mem.hold = "none"
      /\ \A o \in Operators : Recovery(o) => op[o].job # job
  BY <1>0 DEF MarkInv, ExecutionUndisturbed, Undisturbed
<1>2. UNCHANGED <<job, op>>
  BY DEF Controller, StartExecution, Preflight, PrepareBaseline, InstallBaseline, Mutate,
         PrepareCandidate, UpdateCandidate, GatherEvidence, BeginCleanup,
         ControllerReconcile, SaveCleanup, FinishExecution, Execution, ExecutionSave
<1>3. pc' \in ControllerPcs \cup {"executed"}
  BY DEF Controller, StartExecution, Preflight, PrepareBaseline, InstallBaseline, Mutate,
         PrepareCandidate, UpdateCandidate, GatherEvidence, BeginCleanup, WorkflowFails,
         AuthorizeCleanup, ControllerReconcile, Reconcile, SaveCleanup, FinishExecution,
         ExecutionSave
<1>4. disk'[job].hold = "none" /\ (pc' # "executed" => mem'.hold = "none")
  <2>1. CASE pc' # "executed"
    BY <1>2, <1>3, <2>1 DEF MarkInv, ExecutionUndisturbed, Undisturbed
  <2>2. CASE pc' = "executed"
    <3> DEFINE rec == [disk[job] EXCEPT !.status = "running"]
    <3>1. rec.hold = "none" /\ \A f \in BOOLEAN : WithResult(mem, f).hold = "none"
      BY <1>0, <1>1, EditFacts DEF RunRecords
    <3>2. \/ UNCHANGED disk \/ Saved(rec) \/ Saved(mem) \/ Saved(WithResult(mem, run.failed))
      BY <2>2 DEF Controller, StartExecution, Preflight, PrepareBaseline, InstallBaseline, Mutate,
         PrepareCandidate, UpdateCandidate, GatherEvidence, BeginCleanup, WorkflowFails,
         AuthorizeCleanup, ControllerReconcile, Reconcile, SaveCleanup, FinishExecution,
         ExecutionSave, SaveFails
    <3>3. run.failed \in BOOLEAN
      BY <1>0 DEF RunLocals
    <3> QED
      BY <1>0, <1>1, <2>2, <3>1, <3>2, <3>3 DEF Saved
  <2> QED
    BY <2>1, <2>2
<1>5. \/ progress'.cleanup
      \/ UNCHANGED <<node, progress>>
  <2>1. CASE InstallBaseline \/ UpdateCandidate
    <3>1. progress.cleanup /\ UNCHANGED progress
      BY <2>1 DEF InstallBaseline, UpdateCandidate, Mutate, MarkInv, Armed, Reported
    <3> QED
      BY <3>1
  <2>2. CASE ControllerReconcile
    <3>1. progress.cleanup /\ UNCHANGED progress
      BY <2>2 DEF ControllerReconcile, Reported
    <3> QED
      BY <3>1
  <2>3. CASE PrepareBaseline \/ PrepareCandidate \/ BeginCleanup
    BY <1>0, <2>3 DEF PrepareBaseline, PrepareCandidate, AuthorizeCleanup, BeginCleanup,
       ProgressFlags, world
  <2>4. CASE StartExecution \/ Preflight \/ GatherEvidence \/ SaveCleanup \/ FinishExecution
    BY <2>4 DEF StartExecution, Preflight, GatherEvidence, SaveCleanup, FinishExecution,
       ExecutionSave, Execution, world
  <2> QED
    BY <2>1, <2>2, <2>3, <2>4 DEF Controller
<1>6. (pc' \in ControllerPcs \ {"cleanup"} /\ run'.authorized) => progress'.cleanup
  <2>1. CASE PrepareBaseline \/ PrepareCandidate
    BY <1>0, <2>1 DEF PrepareBaseline, PrepareCandidate, AuthorizeCleanup, WorkflowFails,
       ProgressFlags, RunLocals, Reported
  <2>2. CASE BeginCleanup
    BY <1>0, <2>2 DEF BeginCleanup, ProgressFlags, RunLocals
  <2>3. CASE StartExecution \/ Preflight
    <3>1. ~run.authorized
      BY <2>3 DEF StartExecution, Preflight, MarkInv, Armed
    <3> QED
      BY <1>0, <2>3, <3>1 DEF StartExecution, Preflight, WorkflowFails, RunLocals
  <2>4. CASE \/ InstallBaseline \/ UpdateCandidate \/ GatherEvidence \/ ControllerReconcile
             \/ SaveCleanup \/ FinishExecution
    <3>1. pc # "cleanup" /\ UNCHANGED progress
      BY <2>4 DEF InstallBaseline, UpdateCandidate, Mutate, GatherEvidence, ControllerReconcile,
         SaveCleanup, FinishExecution, ExecutionSave, Execution
    <3>2. run'.authorized => run.authorized
      BY <1>0, <2>4 DEF InstallBaseline, UpdateCandidate, Mutate, GatherEvidence, WorkflowFails,
         ControllerReconcile, SaveCleanup, FinishExecution, ExecutionSave, RunLocals
    <3> QED
      BY <1>0, <3>1, <3>2 DEF Reported
  <2> QED
    BY <2>1, <2>2, <2>3, <2>4 DEF Controller
<1>7. pc' \in {"reconcile", "save_cleanup", "recover_reconcile", "recover_save"} => progress'.cleanup
  <2>1. CASE BeginCleanup
    BY <1>0, <2>1 DEF BeginCleanup, ProgressFlags
  <2>2. CASE ControllerReconcile
    BY <2>2 DEF ControllerReconcile, Reported
  <2>3. CASE ~BeginCleanup /\ ~ControllerReconcile
    BY <2>3 DEF Controller, StartExecution, Preflight, PrepareBaseline, InstallBaseline, Mutate,
         PrepareCandidate, UpdateCandidate, GatherEvidence, WorkflowFails,
         AuthorizeCleanup, SaveCleanup, FinishExecution, ExecutionSave
  <2> QED
    BY <2>1, <2>2, <2>3
<1>8. ~progress'.cleanup => node'[job] = "untouched"
  BY <1>0, <1>5 DEF Reported
<1> QED
  BY <1>1, <1>2, <1>4, <1>6, <1>7, <1>8 DEF Reported, HoldsCleanup, Recovery

\* Settling and delivering write no hold on a required cleanup that is not
\* reported, and touch the target only where it is.
LEMMA SettlementReported ==
    ASSUME Typed, MarkInv, MarkInv', Reported, Settlement \/ Delivery
    PROVE  Reported'
<1> USE DEF Step, ControllerPcs, SettlePcs, HeartbeatPcs
<1>0. /\ pc \in SettlePcs /\ job \in Jobs /\ mem \in RunRecords /\ disk[job] \in RunRecords
      /\ progress \in ProgressFlags
      /\ disk \in [Jobs -> RunRecords] /\ node \in [Jobs -> {"untouched", "modified", "restored"}]
  BY DEF Settlement, CreateRecord, CheckSupported, ReloadRecord, Settle, RecoverTarget,
         RecoverReconcile, RecoverSave, Recovered, SetWorkerError, ReleaseClaim, MarkHold,
         Delivery, PrepareCompletion, SendAcknowledged, SendAnswerLost, SendConflict,
         SendRejected, PersistAcknowledgement, Typed, TypeOK, JobInHand, local
<1>1. UNCHANGED <<job, op>>
  BY DEF Settlement, CreateRecord, CheckSupported, ReloadRecord, Settle, RecoverTarget,
         RecoverReconcile, RecoverSave, Recovered, SetWorkerError, ReleaseClaim, MarkHold,
         Delivery, PrepareCompletion, SendAcknowledged, SendAnswerLost, SendConflict,
         SendRejected, PersistAcknowledgement, local
<1>2. CASE CreateRecord \/ CheckSupported
  <2>1. UNCHANGED <<node, mem, progress>> /\ pc \in {"create", "unsupported"}
        /\ pc' \in {"unsupported", "start", "worker_error", "hold_check"}
    BY <1>2 DEF CreateRecord, CheckSupported, Save, world
  <2>2. node[job] = "untouched" \/ progress.cleanup
    BY <1>0, <2>1 DEF MarkInv, HandOnDisk, Worked, FilesMarked, NoRecord, Reported
  <2>3. pc' = "start" => ~run'.authorized
    BY <1>2 DEF MarkInv, Armed
  <2>4. CASE pc' \in {"unsupported", "start"}
    <3>1. /\ disk'[job].hold = "none" /\ mem'.hold = "none"
          /\ \A o \in Operators : Recovery(o)' => op'[o].job # job
      BY <1>1, <2>4 DEF MarkInv, ExecutionUndisturbed, Undisturbed
    <3> QED
      BY <1>1, <2>1, <2>2, <2>3, <2>4, <3>1 DEF Reported, HoldsCleanup, Recovery
  <2>5. CASE pc' = "worker_error"
    <3>1. CheckSupported /\ UNCHANGED disk /\ pc = "unsupported"
      BY <1>2, <2>5 DEF CreateRecord, CheckSupported, Save
    <3> QED
      BY <1>0, <1>1, <2>1, <2>5, <3>1 DEF Reported, HoldsCleanup, Recovery
  <2>6. CASE pc' = "hold_check"
    BY <2>6 DEF Reported
  <2> QED
    BY <2>1, <2>4, <2>5, <2>6
<1>3. CASE ReloadRecord \/ Settle \/ Recovered
  <2>1. UNCHANGED <<node, disk, progress>> /\ mem' \in {mem, disk[job]}
        /\ (pc = "executed" => mem' = disk[job] \/ pc' = "hold_check")
        /\ pc' \in {"recover_target", "settle", "hold_check", "mark_hold", "deliver", "release",
                    "worker_error"}
    BY <1>3 DEF ReloadRecord, Settle, Recovered, world
  <2>2. pc \in {"executed", "settle", "recovered"}
    BY <1>3 DEF ReloadRecord, Settle, Recovered
  <2> QED
    BY <1>0, <1>1, <2>1, <2>2 DEF Reported, HoldsCleanup, Recovery
<1>4. CASE RecoverReconcile
  <2>1. /\ pc = "recover_reconcile" /\ UNCHANGED progress /\ pc' = "recover_save"
    BY <1>4 DEF RecoverReconcile, Reconcile
  <2> QED
    BY <2>1 DEF Reported
<1>5. CASE RecoverTarget \/ RecoverSave
  <2>1. /\ UNCHANGED <<node, mem>> /\ disk' \in {disk, [disk EXCEPT ![job] = mem]}
        /\ pc \in {"recover_target", "recover_save"}
        /\ pc' \in {"recovered", "mark_hold", "recover_reconcile"}
    BY <1>5 DEF RecoverTarget, RecoverSave, Save, SaveFails, Saved, world
  <2>2. progress'.cleanup \/ (UNCHANGED progress /\ pc' # "recover_reconcile")
    BY <1>0, <1>5 DEF RecoverTarget, RecoverSave, Save, ProgressFlags
  <2> QED
    BY <1>0, <1>1, <2>1, <2>2 DEF Reported, HoldsCleanup, Recovery
<1>6. CASE SetWorkerError
  <2>1. pc = "worker_error" /\ mem' = WithWorkerError(mem, WorkerErrorCode)
        /\ pc' \in {"settle", "deliver", "hold_check"} /\ UNCHANGED <<node, progress>>
        /\ disk' \in {disk, [disk EXCEPT ![job] = mem']}
    BY <1>6 DEF SetWorkerError, SaveMem, Save, SaveFails, Saved, world
  <2>2. mem'.hold = mem.hold /\ mem'.cleanupRequired = mem.cleanupRequired
    BY <1>0, <2>1 DEF WithWorkerError, RunRecords
  <2> QED
    BY <1>0, <1>1, <2>1, <2>2 DEF Reported, HoldsCleanup, Recovery
<1>7. CASE ReleaseClaim \/ MarkHold \/ PersistAcknowledgement \/ SendRejected
  <2>1. pc' \in {"return_ok", "hold_check"}
    BY <1>7 DEF ReleaseClaim, MarkHold, PersistAcknowledgement, SendRejected, SaveMem, Save
  <2> QED
    BY <2>1 DEF Reported
<1>8. CASE PrepareCompletion
  <2>1. pc = "deliver" /\ pc' \in {"return_ok", "send", "hold_check"}
        /\ mem' \in {mem, [mem EXCEPT !.pending = CompletionBody(mem)]}
        /\ UNCHANGED <<node, progress>> /\ disk' \in {disk, [disk EXCEPT ![job] = mem']}
    BY <1>8 DEF PrepareCompletion, SaveMem, Save, SaveFails, Saved, world
  <2>2. mem'.hold = mem.hold /\ mem'.cleanupRequired = mem.cleanupRequired
    BY <1>0, <2>1 DEF RunRecords
  <2> QED
    BY <1>0, <1>1, <2>1, <2>2 DEF Reported, HoldsCleanup, Recovery
<1>9. CASE SendAcknowledged \/ SendAnswerLost \/ SendConflict
  <2>1. pc = "send" /\ pc' \in {"ack", "send", "mark_hold"}
        /\ UNCHANGED <<node, progress, mem, disk>>
    BY <1>9 DEF SendAcknowledged, SendAnswerLost, SendConflict, local
  <2> QED
    BY <1>0, <1>1, <2>1 DEF Reported, HoldsCleanup, Recovery
<1> QED
  BY <1>2, <1>3, <1>4, <1>5, <1>6, <1>7, <1>8, <1>9 DEF Settlement, Delivery

\* A recovery publishes what the file says before its heartbeats start, and an
\* operator only edits a record whose required cleanup is reported.
LEMMA OthersReported ==
    ASSUME Typed, MarkInv, MarkInv', Reported,
           \/ RunLoop \/ Heartbeat \/ Operator \/ Restart
           \/ \E j \in Jobs : CoordinatorReleases(j) \/ CoordinatorReinstates(j)
    PROVE  Reported'
<1> USE DEF Step, ControllerPcs, SettlePcs, HeartbeatPcs
<1>0. /\ pc \in HeartbeatPcs => job \in Jobs
      /\ progress \in ProgressFlags /\ op \in [Operators -> Requests]
      /\ disk \in [Jobs -> RunRecords] /\ node \in [Jobs -> {"untouched", "modified", "restored"}]
  BY DEF Typed, TypeOK, JobInHand
<1>1. CASE RunLoop
  <2>1. CASE pc' \notin HeartbeatPcs
    BY <2>1 DEF Reported
  <2>2. CASE pc' \in HeartbeatPcs
    <3>1. PICK j \in Jobs : Recover /\ RecoverWith(j) /\ pc' \in {"deliver", "recover_target"}
      BY <1>1, <2>2 DEF RunLoop, ClaimJob, ClaimAnswerLost, ClaimUnresolved, ClaimRejected,
         ReturnOk, Recover, RecoverWith, CheckForHold, WakeUp, Unresolved, local
    <3>2. /\ job' = j /\ UNCHANGED <<node, disk, op>>
          /\ mem' \in {disk[j], [disk[j] EXCEPT !.status = "interrupted"]}
          /\ progress' = [NoProgress EXCEPT !.cleanup = disk[j].cleanupRequired]
      BY <3>1 DEF Recover, RecoverWith, world
    <3>3. disk[j] \in RunRecords /\ progress'.cleanup = disk[j].cleanupRequired
      BY <1>0, <3>2 DEF NoProgress
    <3>4. mem'.cleanupRequired = disk[j].cleanupRequired
      BY <3>2, <3>3 DEF RunRecords
    <3>5. /\ node[j] # "untouched" => disk[j].cleanupRequired
          /\ \A o \in Operators : (Recovery(o) /\ op[o].job = j) =>
                op[o].snap.cleanupRequired = disk[j].cleanupRequired
      BY <3>1 DEF MarkInv, FilesMarked, RequestsCurrent, SamePlan
    <3> QED
      BY <3>1, <3>2, <3>3, <3>4, <3>5 DEF Reported, HoldsCleanup, Recovery
  <2> QED
    BY <2>1, <2>2
<1>2. CASE Heartbeat
  <2>1. /\ UNCHANGED <<pc, job, mem, run, disk, node, op>>
        /\ progress' \in {[progress EXCEPT !.lost = TRUE], [progress EXCEPT !.cancel = TRUE]}
    BY <1>2 DEF Heartbeat, HeartbeatClaimLost, HeartbeatCancel, world
  <2>2. progress'.cleanup = progress.cleanup
    BY <1>0, <2>1 DEF ProgressFlags
  <2> QED
    BY <2>1, <2>2 DEF Reported, HoldsCleanup, Recovery
<1>3. ASSUME NEW o \in Operators, NEW a \in RecoveryActions, NEW j \in Jobs,
             RecoveryRequest(o, a, j)
      PROVE  Reported'
  <2>1. /\ op' = [op EXCEPT ![o] = [action |-> a, job |-> j, snap |-> disk[j]]]
        /\ disk[j].hold # "none"
        /\ UNCHANGED <<pc, job, mem, run, progress, disk>>
        /\ node' = node \/ (disk[j].cleanupRequired /\ node' = [node EXCEPT ![j] = "restored"])
    BY <1>3 DEF RecoveryRequest, RecoveryAllowed, RecoveryActions, local
  <2>2. \A p \in Operators : Recovery(p)' =>
            \/ p = o /\ op'[p].job = j /\ op'[p].snap = disk[j]
            \/ p # o /\ op'[p] = op[p] /\ Recovery(p)
    BY <1>0, <2>1 DEF Recovery
  <2>3. ASSUME pc \in HeartbeatPcs, ~progress.cleanup
        PROVE  /\ node'[job] = "untouched"
               /\ \A p \in Operators : (Recovery(p)' /\ op'[p].job = job) =>
                        ~op'[p].snap.cleanupRequired
    BY <1>0, <2>1, <2>2, <2>3 DEF Reported, HoldsCleanup
  <2> QED
    BY <2>1, <2>3 DEF Reported, HoldsCleanup, Recovery
<1>4. ASSUME NEW o \in Operators, RecoverySave(o) PROVE Reported'
  <2> DEFINE k == op[o].job
             rec == RecoveryEdit(op[o].action, op[o].snap)
  <2>1. /\ op' = [op EXCEPT ![o] = NoRequest] /\ Recovery(o)
        /\ disk' \in {disk, [disk EXCEPT ![k] = rec]}
        /\ UNCHANGED <<pc, job, mem, run, progress, node>>
    BY <1>4 DEF RecoverySave, Recovery, local, world
  <2>2. op[o].snap \in RunRecords /\ rec.cleanupRequired = op[o].snap.cleanupRequired
    <3>1. op[o].snap \in RunRecords
      BY <1>0 DEF Requests
    <3> QED
      BY <2>1, <3>1, EditFacts DEF Recovery, SamePlan
  <2>3. \A p \in Operators : Recovery(p)' => Recovery(p) /\ op'[p] = op[p]
    BY <1>0, <2>1 DEF Recovery, NoRequest, RecoveryActions
  <2>4. ASSUME pc \in HeartbeatPcs, ~progress.cleanup PROVE ~HoldsCleanup(disk'[job])
    BY <1>0, <2>1, <2>2, <2>4 DEF Reported, HoldsCleanup
  <2> QED
    BY <2>1, <2>3, <2>4 DEF Reported, HoldsCleanup, Recovery
<1>5. ASSUME NEW o \in Operators, NEW j \in Jobs, ReadyRequest(o, j)
      PROVE  Reported'
  <2>1. /\ op' = [op EXCEPT ![o] = [NoRequest EXCEPT !.action = "ready", !.job = j]]
        /\ UNCHANGED <<pc, job, mem, run, progress, disk, node>>
    BY <1>5 DEF ReadyRequest, local, world
  <2>2. \A p \in Operators : Recovery(p)' => Recovery(p) /\ op'[p] = op[p]
    BY <1>0, <2>1 DEF Recovery, NoRequest, RecoveryActions
  <2> QED
    BY <2>1, <2>2 DEF Reported, HoldsCleanup, Recovery
<1>6. CASE Restart
  BY <1>6 DEF Restart, Reported
<1>7. ASSUME NEW j \in Jobs, CoordinatorReleases(j) \/ CoordinatorReinstates(j)
      PROVE  Reported'
  BY <1>7 DEF CoordinatorReleases, CoordinatorReinstates, local, Reported, HoldsCleanup, Recovery
<1>8. ASSUME NEW o \in Operators, ReadyCall(o) PROVE Reported'
  <2>1. /\ op' = [op EXCEPT ![o] = NoRequest]
        /\ UNCHANGED <<pc, job, mem, run, progress, disk, node>>
    BY <1>8 DEF ReadyCall, local, world
  <2>2. \A p \in Operators : Recovery(p)' => Recovery(p) /\ op'[p] = op[p]
    BY <1>0, <2>1 DEF Recovery, NoRequest, RecoveryActions
  <2> QED
    BY <2>1, <2>2 DEF Reported, HoldsCleanup, Recovery
<1> QED
  BY <1>1, <1>2, <1>3, <1>4, <1>5, <1>6, <1>7, <1>8 DEF Operator

(***************************************************************************)
(* Whatever is lost, restarted or requested in between, a heartbeat that   *)
(* is sent while the target may be changed says that cleanup is required.  *)
(***************************************************************************)
THEOREM HeartbeatsReport == Spec => []HeartbeatReportsCleanup
<1>1. Init => Reported
  BY DEF Init, Reported, HeartbeatPcs, ControllerPcs, SettlePcs
<1>2. Typed /\ MarkInv /\ (MarkInv)' /\ Reported /\ [Next]_vars => Reported'
  <2>1. CASE UNCHANGED vars
    BY <2>1 DEF Reported, HoldsCleanup, Recovery, vars, local, world
  <2> QED
    BY <2>1, ControllerReported, SettlementReported, OthersReported DEF Next, Worker
<1>3. Reported => HeartbeatReportsCleanup
  BY DEF Reported, HeartbeatReportsCleanup
<1> QED
  BY <1>1, <1>2, <1>3, CleanupMarkInvariant, PTL DEF Spec

--------------------------------------------------------------------------------
(***************************************************************************)
(* A claim is given up once it was answered.  A record is live until the   *)
(* worker or an operator retires it, and a retired record asks for no more *)
(* attention.  A job is answered when the coordinator no longer considers  *)
(* it claimed, or was sent an outcome it refused.                          *)
(***************************************************************************)
Live(r) == r.token /\ ~Acknowledged(r)
Retired(r) == Closed(r) /\ r.pending = NoOutcome

Answered(j) == coord[j] \in {"completed", "released"} \/ sent[j] # {}

\* Control points whose file no operator can retire.
Guarded == ControllerPcs \cup {"unsupported", "executed", "settle", "recover_reconcile",
                               "recover_save"}

Shapes ==
    /\ \A j \in Jobs : Live(disk[j]) \/ Retired(disk[j])
    /\ pc \in InHand => Live(mem)
    /\ pc \in Guarded => Live(disk[job])
    /\ pc \in Recovering => Live(disk[job]) \/ CleanSecond
    /\ \A o \in Operators : Recovery(o) => Live(op[o].snap)

\* A conflict is only recorded for an outcome that was sent.
Conflicting(r) == r.hold = "completion_conflict"

Disputes ==
    /\ \A j \in Jobs : Conflicting(disk[j]) => sent[j] # {}
    /\ pc \in InHand /\ Conflicting(mem) => sent[job] # {}
    /\ \A o \in Operators : Recovery(o) =>
        /\ Conflicting(op[o].snap) => sent[op[o].job] # {}
        /\ op[o].action \in {"retryCompletion", "acceptCoordinatorResult"}
                => Conflicting(op[o].snap)
    /\ pc \in Worked /\ run.why = "completion_conflict" => sent[job] # {}

\* Between jobs the locals and the flags of the heartbeat are reset.
Fresh ==
    pc \in {"recover", "claim", "op_wait", "coord_wait", "exited", "create"} =>
        run = NoRun /\ progress = NoProgress

\* What the worker takes for a reason to give a job up.
Answers ==
    /\ \A j \in Jobs : (disk[j].status # "absent" /\ Retired(disk[j])) => Answered(j)
    /\ pc = "ack" => coord[job] = "completed"
    /\ pc \in HeartbeatPcs /\ progress.lost => Answered(job)
    /\ pc \in Worked /\ run.why = "claim_lost" => Answered(job)
    /\ pc = "release" => Answered(job)

AnswerInv == Shapes /\ Disputes /\ Fresh /\ Answers

\* The two shapes of a record exclude each other, and a retired record asks
\* for no attention.
LEMMA ShapeFacts ==
    ASSUME NEW r \in RunRecords
    PROVE  /\ Live(r) => RequiresWorkerAttention(r)
           /\ Retired(r) <=> ~RequiresWorkerAttention(r) /\ ~r.token
           /\ Live(r) \/ Retired(r) => (RequiresWorkerAttention(r) <=> Live(r))
           /\ Live(r) => ~Retired(r)
BY DEF Live, Retired, Closed, Acknowledged, RequiresWorkerAttention, RunRecords

\* Which edits leave the claim alone, and which retire the record.
SameClaim(w, r) ==
    /\ w.token = r.token /\ w.disposition = r.disposition
    /\ w.hold = r.hold /\ w.pending = r.pending

LEMMA ClaimEdits ==
    ASSUME NEW r \in RunRecords
    PROVE  /\ \A f \in BOOLEAN : SameClaim(WithResult(r, f), r)
           /\ \A c \in ErrorCodes : SameClaim(WithWorkerError(r, c), r)
           /\ \A s \in Statuses : SameClaim([r EXCEPT !.status = s], r)
           /\ \A c \in Cleanups : SameClaim([r EXCEPT !.cleanup = c], r)
           /\ \A p \in Plans : SameClaim([r EXCEPT !.plan = p], r)
           /\ SameClaim([r EXCEPT !.cleanupRequired = TRUE], r)
           /\ Retired(WithAcknowledgement(r))
           /\ Retired(WithReleasedClaim(r))
           /\ \A h \in Holds : Live(r) => Live([r EXCEPT !.hold = h])
           /\ \A b \in Bodies : Live(r) => Live([r EXCEPT !.pending = b])
<1>1. /\ \A f \in BOOLEAN : SameClaim(WithResult(r, f), r)
      /\ \A c \in ErrorCodes : SameClaim(WithWorkerError(r, c), r)
  BY DEF SameClaim, WithResult, WithWorkerError, RunRecords
<1>2. /\ \A s \in Statuses : SameClaim([r EXCEPT !.status = s], r)
      /\ \A c \in Cleanups : SameClaim([r EXCEPT !.cleanup = c], r)
      /\ \A p \in Plans : SameClaim([r EXCEPT !.plan = p], r)
      /\ SameClaim([r EXCEPT !.cleanupRequired = TRUE], r)
  BY DEF SameClaim, RunRecords
<1>3. Retired(WithAcknowledgement(r)) /\ Retired(WithReleasedClaim(r))
  BY DEF Retired, Closed, WithAcknowledgement, WithReleasedClaim, RunRecords
<1>4. /\ \A h \in Holds : Live(r) => Live([r EXCEPT !.hold = h])
      /\ \A b \in Bodies : Live(r) => Live([r EXCEPT !.pending = b])
  BY DEF Live, Acknowledged, RunRecords
<1> QED
  BY <1>1, <1>2, <1>3, <1>4

\* What a step of the controller may do to the record and the locals.
LEMMA ControllerWrites ==
    ASSUME Typed, MarkInv, (MarkInv)', Controller
    PROVE  /\ SameClaim(disk'[job], disk[job]) \/ SameClaim(disk'[job], mem)
           /\ pc' # "executed" => SameClaim(mem', disk[job]) \/ SameClaim(mem', mem)
           /\ run'.why = run.why /\ progress'.lost = progress.lost
<1> USE DEF Step, ControllerPcs
<1>0. /\ job \in Jobs /\ mem \in RunRecords /\ disk \in [Jobs -> RunRecords] /\ run \in RunLocals
      /\ disk[job] \in RunRecords /\ progress \in ProgressFlags
  BY ControllerFrame DEF Typed, TypeOK
<1> DEFINE started == [disk[job] EXCEPT !.status = "running"]
           planned == [mem EXCEPT !.plan = RightPlan(job)]
           marked == [mem EXCEPT !.cleanupRequired = TRUE]
           ended == WithResult(mem, run.failed)
<1>1. /\ SameClaim(started, disk[job]) /\ SameClaim(planned, mem) /\ SameClaim(marked, mem)
      /\ SameClaim(ended, mem) /\ SameClaim(mem, mem) /\ SameClaim(disk[job], disk[job])
      /\ \A c \in Cleanups : SameClaim([mem EXCEPT !.cleanup = c], mem)
  BY <1>0, ClaimEdits DEF Statuses, Plans, RightPlan, RunLocals, SameClaim
<1>2. /\ \/ UNCHANGED disk \/ Saved(started) \/ Saved(planned) \/ Saved(marked) \/ Saved(mem)
         \/ Saved(ended)
      /\ \/ pc' = "executed"
         \/ mem' \in {mem, started, planned, marked, ended}
         \/ \E c \in Cleanups : mem' = [mem EXCEPT !.cleanup = c]
  BY DEF Controller, StartExecution, Preflight, PrepareBaseline, InstallBaseline, Mutate,
         PrepareCandidate, UpdateCandidate, GatherEvidence, BeginCleanup,
         AuthorizeCleanup, ControllerReconcile, Reconcile, SaveCleanup, FinishExecution,
         ExecutionSave, SaveFails, world, Cleanups
<1>3. run'.why = run.why /\ progress'.lost = progress.lost
  BY <1>0 DEF Controller, StartExecution, Preflight, PrepareBaseline, InstallBaseline, Mutate,
         PrepareCandidate, UpdateCandidate, GatherEvidence, BeginCleanup, WorkflowFails,
         AuthorizeCleanup, ControllerReconcile, Reconcile, SaveCleanup, FinishExecution,
         ExecutionSave, Execution, RunLocals, ProgressFlags
<1> HIDE DEF started, planned, marked, ended
<1> QED
  BY <1>0, <1>1, <1>2, <1>3 DEF Saved

\* The controller works on a live record and answers nothing.
LEMMA ControllerAnswers ==
    ASSUME Typed, MarkInv, (MarkInv)', AnswerInv, Controller
    PROVE  (AnswerInv)'
<1> USE DEF ControllerPcs
<1>0. /\ pc \in ControllerPcs /\ job \in Jobs /\ pc' \in ControllerPcs \cup {"executed"}
      /\ mem \in RunRecords /\ disk \in [Jobs -> RunRecords] /\ run \in RunLocals
      /\ UNCHANGED <<job, op, sent, coord>>
      /\ \A j \in Jobs \ {job} : disk'[j] = disk[j]
      /\ disk[job].hold = "none" /\ mem.hold = "none" /\ disk'[job].hold = "none"
  BY ControllerFrame
<1>1. /\ SameClaim(disk'[job], disk[job]) \/ SameClaim(disk'[job], mem)
      /\ pc' # "executed" => SameClaim(mem', disk[job]) \/ SameClaim(mem', mem)
      /\ run'.why = run.why /\ progress'.lost = progress.lost
  BY ControllerWrites
<1>2. Live(mem) /\ Live(disk[job])
  BY <1>0 DEF AnswerInv, Shapes, Guarded, InHand, Worked
<1>3. /\ Live(disk'[job])
      /\ pc' # "executed" => Live(mem') /\ mem'.hold = "none"
  BY <1>0, <1>1, <1>2 DEF SameClaim, Live, Acknowledged
<1>4. Shapes'
  BY <1>0, <1>3 DEF AnswerInv, Shapes, Recovering, Recovery, InHand
<1>5. Disputes'
  BY <1>0, <1>1, <1>3 DEF AnswerInv, Disputes, Conflicting, Recovery, InHand, Worked
<1>6. Fresh'
  BY <1>0 DEF Fresh
<1>7. Answers'
  <2>1. ~Retired(disk'[job])
    BY <1>3 DEF Live, Retired, Closed
  <2> QED
    BY <1>0, <1>1, <2>1 DEF AnswerInv, Answers, Answered, HeartbeatPcs, Worked
<1> QED
  BY <1>4, <1>5, <1>6, <1>7 DEF AnswerInv

\* The worker writes the record in hand, or not; the other files, the
\* requests and the answers are as before.
LEMMA WriteAnswers ==
    ASSUME AnswerInv, job \in Jobs, disk \in [Jobs -> RunRecords],
           UNCHANGED <<op, sent, coord>>,
           disk' \in {disk, [disk EXCEPT ![job] = mem']},
           disk' = disk \/ Live(mem') \/ (Retired(mem') /\ Answered(job)),
           disk' = disk \/ (Conflicting(mem') => sent[job] # {})
    PROVE  /\ \A j \in Jobs : Live(disk'[j]) \/ Retired(disk'[j])
           /\ \A o \in Operators : Recovery(o)' => Live(op'[o].snap)
           /\ \A j \in Jobs : Conflicting(disk'[j]) => sent'[j] # {}
           /\ \A o \in Operators : Recovery(o)' =>
                /\ Conflicting(op'[o].snap) => sent'[op'[o].job] # {}
                /\ op'[o].action \in {"retryCompletion", "acceptCoordinatorResult"}
                        => Conflicting(op'[o].snap)
           /\ \A j \in Jobs : (disk'[j].status # "absent" /\ Retired(disk'[j])) => Answered(j)'
           /\ disk'[job] \in {disk[job], mem'}
<1>1. /\ \A j \in Jobs \ {job} : disk'[j] = disk[j]
      /\ disk'[job] = disk[job] \/ (disk'[job] = mem' /\ disk' # disk)
  OBVIOUS
<1>2. ~(Live(mem') /\ Retired(mem'))
  BY DEF Live, Retired, Closed
<1> QED
  BY <1>1, <1>2 DEF AnswerInv, Shapes, Disputes, Answers, Answered, Recovery

\* Settling gives a claim up only on an answer.
LEMMA SettlementAnswers ==
    ASSUME Typed, MarkInv, CleanupInv, AnswerInv, Settlement
    PROVE  (AnswerInv)'
<1> USE DEF Step, ControllerPcs, SettlePcs, InHand, Worked, HeartbeatPcs, Guarded, Recovering
<1>0. /\ pc \in SettlePcs /\ job \in Jobs /\ mem \in RunRecords /\ disk[job] \in RunRecords
      /\ disk \in [Jobs -> RunRecords] /\ run \in RunLocals /\ progress \in ProgressFlags
      /\ UNCHANGED <<job, op, sent, coord>>
      /\ disk' \in {disk, [disk EXCEPT ![job] = mem']}
      /\ Shapes /\ Disputes /\ Fresh /\ Answers
  BY DEF Settlement, CreateRecord, CheckSupported, ReloadRecord, Settle, RecoverTarget,
         RecoverReconcile, RecoverSave, Recovered, SetWorkerError, ReleaseClaim, MarkHold,
         Save, SaveMem, Saved, SaveFails, Typed, TypeOK, JobInHand, world, AnswerInv
\* What is left to show of a step that keeps the record live.
<1>a. ASSUME Live(mem'), Conflicting(mem') => sent[job] # {},
             pc' \in Worked \cup {"hold_check"}, pc' \notin {"create", "ack", "executed"},
             pc' \in Guarded => Live(disk'[job]),
             pc' \in Recovering => Live(disk'[job]) \/ CleanSecond',
             pc' \in Worked /\ run'.why = "completion_conflict" => sent[job] # {},
             pc' \in Worked /\ run'.why = "claim_lost" => Answered(job),
             pc' \in Worked /\ progress'.lost => Answered(job),
             pc' = "release" => Answered(job)
      PROVE  (AnswerInv)'
  <2>1. Shapes'
    BY <1>0, <1>a, WriteAnswers DEF Shapes, AnswerInv
  <2>2. Disputes'
    BY <1>0, <1>a, WriteAnswers DEF Disputes, AnswerInv
  <2>3. Fresh'
    BY <1>a DEF Fresh
  <2>4. Answers'
    BY <1>0, <1>a, WriteAnswers DEF Answers, AnswerInv, Answered
  <2> QED
    BY <2>1, <2>2, <2>3, <2>4 DEF AnswerInv
<1>1. CASE CreateRecord
  <2>1. /\ pc = "create" /\ UNCHANGED <<mem, run, progress>> /\ pc' \in {"unsupported", "hold_check"}
        /\ pc' = "unsupported" => disk' = [disk EXCEPT ![job] = mem]
    BY <1>1 DEF CreateRecord, Save, Saved
  <2>2. ~progress'.lost /\ run'.why = "none"
    BY <1>0, <2>1 DEF Fresh, NoRun, NoProgress
  <2> QED
    BY <1>0, <1>a, <2>1, <2>2 DEF Shapes, Disputes
<1>2. CASE CheckSupported
  <2>1. /\ pc = "unsupported" /\ UNCHANGED <<mem, disk, progress>> /\ pc' \in {"start", "worker_error"}
        /\ run'.why \in {run.why, "unsupported_job", "unexpected_error"}
    BY <1>0, <1>2 DEF CheckSupported, Because, world, RunLocals
  <2> QED
    BY <1>0, <1>a, <2>1 DEF Shapes, Disputes, Answers
<1>3. CASE ReloadRecord
  <2>1. /\ pc = "executed" /\ UNCHANGED <<disk, progress>>
        /\ \/ /\ mem' = disk[job] /\ pc' \in {"recover_target", "settle"}
              /\ run'.why \in {run.why, "exec_error"}
           \/ pc' = "hold_check" /\ UNCHANGED mem
    BY <1>0, <1>3 DEF ReloadRecord, Because, RunLocals
  <2>2. CASE pc' = "hold_check"
    <3>1. Shapes'
      BY <1>0, <2>1, <2>2 DEF Shapes, Recovery
    <3>2. Disputes'
      BY <1>0, <2>1, <2>2 DEF Disputes, Recovery
    <3>3. Answers' /\ Fresh'
      BY <1>0, <2>1, <2>2 DEF Answers, Answered, Fresh
    <3> QED
      BY <3>1, <3>2, <3>3 DEF AnswerInv
  <2>3. CASE pc' # "hold_check"
    <3>1. Free(job)
      BY <2>1 DEF CleanupInv, RecoveredAlone
    <3> QED
      BY <1>0, <1>a, <2>1, <2>3, <3>1 DEF Shapes, Free, Conflicting, Disputes, Answers
  <2> QED
    BY <2>2, <2>3
<1>4. CASE Settle
  <2>1. /\ pc = "settle" /\ UNCHANGED <<mem, disk, progress>>
        /\ \/ pc' = "recover_target" /\ progress.lost /\ run'.why = "claim_lost"
           \/ pc' \in {"mark_hold", "deliver"} /\ UNCHANGED run
    BY <1>0, <1>4 DEF Settle, Because, world, RunLocals
  <2> QED
    BY <1>0, <1>a, <2>1 DEF Shapes, Disputes, Answers
<1>5. CASE RecoverTarget
  <2>1. /\ pc = "recover_target" /\ UNCHANGED <<mem, run>>
        /\ progress'.lost = progress.lost
        /\ pc' \in {"recovered", "mark_hold", "recover_reconcile"}
        /\ pc' = "recover_reconcile" => UNCHANGED disk /\ ~CleanupSettled(mem)
    BY <1>0, <1>5 DEF RecoverTarget, Save, ProgressFlags
  <2>2. pc' = "recover_reconcile" => ~CleanSecond
    BY <2>1 DEF CleanupSettled, CleanSecond, CleanOnRecord
  <2>3. CleanSecond' = CleanSecond
    BY <2>1 DEF CleanSecond
  <2>4. disk'[job] \in {disk[job], mem}
    BY <1>0, <2>1
  <2>5. Live(mem) /\ (Live(disk[job]) \/ CleanSecond)
    BY <1>0, <2>1 DEF Shapes
  <2> QED
    BY <1>0, <1>a, <2>1, <2>2, <2>3, <2>4, <2>5 DEF Shapes, Disputes, Answers
<1>6. CASE RecoverReconcile
  <2>1. /\ pc = "recover_reconcile" /\ pc' = "recover_save" /\ UNCHANGED <<disk, run, progress>>
        /\ \E c \in Cleanups : mem' = [mem EXCEPT !.cleanup = c]
    BY <1>6 DEF RecoverReconcile, Reconcile, Cleanups
  <2>2. SameClaim(mem', mem)
    BY <1>0, <2>1, ClaimEdits
  <2>3. Live(mem') /\ (Conflicting(mem') => Conflicting(mem))
    BY <1>0, <2>1, <2>2 DEF Shapes, SameClaim, Live, Acknowledged, Conflicting
  <2> QED
    BY <1>0, <1>a, <2>1, <2>3 DEF Shapes, Disputes, Answers
<1>7. CASE RecoverSave
  <2>1. /\ pc = "recover_save" /\ pc' \in {"recovered", "mark_hold"} /\ UNCHANGED <<mem, run, progress>>
    BY <1>7 DEF RecoverSave, Save
  <2>2. disk'[job] \in {disk[job], mem}
    BY <1>0, <2>1
  <2>3. Live(mem) /\ Live(disk[job])
    BY <1>0, <2>1 DEF Shapes
  <2> QED
    BY <1>0, <1>a, <2>1, <2>2, <2>3 DEF Disputes, Answers
<1>8. CASE Recovered
  <2>1. /\ pc = "recovered" /\ UNCHANGED <<mem, disk, run, progress>>
        /\ pc' \in {"worker_error", "release", "mark_hold"}
        /\ pc' = "release" => progress.lost \/ run.why = "claim_lost"
    BY <1>8 DEF Recovered, world
  <2>2. CleanSecond' = CleanSecond
    BY <2>1 DEF CleanSecond
  <2> QED
    BY <1>0, <1>a, <2>1, <2>2 DEF Shapes, Disputes, Answers
<1>9. CASE SetWorkerError
  <2>1. /\ pc = "worker_error" /\ UNCHANGED <<run, progress>>
        /\ \E c \in ErrorCodes : mem' = WithWorkerError(mem, c)
        /\ pc' \in {"settle", "deliver", "hold_check"}
        /\ pc' = "settle" => disk' = [disk EXCEPT ![job] = mem']
    BY <1>9 DEF SetWorkerError, SaveMem, Save, Saved, Typed, CauseKnown, WorkerErrorCode, ErrorCodes
  <2>2. SameClaim(mem', mem)
    BY <1>0, <2>1, ClaimEdits
  <2>3. Live(mem') /\ (Conflicting(mem') => Conflicting(mem))
    BY <1>0, <2>1, <2>2 DEF Shapes, SameClaim, Live, Acknowledged, Conflicting
  <2>4. pc' = "settle" => Live(disk'[job])
    BY <1>0, <2>1, <2>3
  <2> QED
    BY <1>0, <1>a, <2>1, <2>3, <2>4 DEF Disputes, Answers
<1>10. CASE ReleaseClaim
  <2>1. /\ pc = "release" /\ mem' = WithReleasedClaim(mem) /\ UNCHANGED <<run, progress>>
        /\ pc' \in {"return_ok", "hold_check"}
    BY <1>10 DEF ReleaseClaim, SaveMem, Save
  <2>2. Retired(mem') /\ ~Conflicting(mem')
    BY <1>0, <2>1, ClaimEdits DEF Retired, Closed, Conflicting
  <2>3. Answered(job)
    BY <1>0, <2>1 DEF Answers
  <2>4. Shapes' /\ Disputes'
    BY <1>0, <2>1, <2>2, <2>3, WriteAnswers DEF Shapes, Disputes, AnswerInv
  <2>5. Fresh' /\ Answers'
    BY <1>0, <2>1, <2>2, <2>3, WriteAnswers DEF Fresh, Answers, AnswerInv
  <2> QED
    BY <2>4, <2>5 DEF AnswerInv
<1>11. CASE MarkHold
  <2>1. /\ pc = "mark_hold" /\ pc' = "hold_check" /\ UNCHANGED <<run, progress>>
        /\ mem' = [mem EXCEPT !.hold = IF run.why = "completion_conflict"
                                       THEN "completion_conflict" ELSE "cleanup"]
    BY <1>11 DEF MarkHold, SaveMem, Save
  <2>2. /\ Live(mem')
        /\ Conflicting(mem') => run.why = "completion_conflict"
    BY <1>0, <2>1, ClaimEdits DEF Shapes, Holds, Conflicting, RunRecords
  <2> QED
    BY <1>0, <1>a, <2>1, <2>2 DEF Disputes
<1> QED
  BY <1>1, <1>2, <1>3, <1>4, <1>5, <1>6, <1>7, <1>8, <1>9, <1>10, <1>11 DEF Settlement

\* What the coordinator does with an outcome is an answer.
LEMMA DeliveryAnswers ==
    ASSUME Typed, MarkInv, AnswerInv, Delivery
    PROVE  (AnswerInv)'
<1> USE DEF Step, ControllerPcs, SettlePcs, InHand, Worked, HeartbeatPcs, Guarded, Recovering
<1>0. /\ pc \in {"deliver", "send", "ack"} /\ job \in Jobs /\ mem \in RunRecords
      /\ disk \in [Jobs -> RunRecords] /\ sent \in [Jobs -> SUBSET Bodies]
      /\ coord \in [Jobs -> {"queued", "claimed", "completed", "released"}]
      /\ run \in RunLocals /\ UNCHANGED <<job, op, progress>>
      /\ disk' \in {disk, [disk EXCEPT ![job] = mem']}
      /\ Shapes /\ Disputes /\ Answers
  BY DEF Delivery, PrepareCompletion, SendAcknowledged, SendAnswerLost, SendConflict,
         SendRejected, PersistAcknowledgement, SaveMem, Save, Saved, SaveFails, local,
         Typed, TypeOK, JobInHand, AnswerInv
<1>1. pc' \in {"return_ok", "hold_check", "send", "ack", "mark_hold"} /\ Fresh'
  BY DEF Delivery, PrepareCompletion, SendAcknowledged, SendAnswerLost, SendConflict,
         SendRejected, PersistAcknowledgement, SaveMem, Save, local, Fresh
<1>2. Live(mem)
  BY <1>0 DEF Shapes
<1>3. CASE PrepareCompletion
  <2>1. /\ pc' \in {"send", "hold_check"} /\ UNCHANGED <<run, sent, coord>>
        /\ \/ mem' = mem
           \/ CanPrepareCompletion(mem) /\ mem' = [mem EXCEPT !.pending = CompletionBody(mem)]
    BY <1>2, <1>3 DEF PrepareCompletion, SaveMem, Save, world, Live
  <2>2. Live(mem') /\ (Conflicting(mem') => sent[job] # {})
    <3>1. Conflicting(mem) => sent[job] # {}
      BY <1>0 DEF Disputes
    <3>2. CASE CanPrepareCompletion(mem) /\ mem' = [mem EXCEPT !.pending = CompletionBody(mem)]
      <4>1. CompletionBody(mem) \in Bodies
        BY <1>0, <3>2, CompletionBodyType
      <4>2. Live(mem')
        BY <1>0, <1>2, <3>2, <4>1, ClaimEdits
      <4>3. mem'.hold = mem.hold
        BY <1>0, <3>2 DEF RunRecords
      <4> QED
        BY <3>1, <4>2, <4>3 DEF Conflicting
    <3> QED
      BY <1>2, <2>1, <3>1, <3>2
  <2>3. Shapes'
    BY <1>0, <2>1, <2>2, WriteAnswers DEF Shapes, AnswerInv
  <2>4. Disputes'
    BY <1>0, <2>1, <2>2, WriteAnswers DEF Disputes, AnswerInv
  <2>5. Answers'
    BY <1>0, <2>1, <2>2, WriteAnswers DEF Disputes, Answers, AnswerInv, Answered
  <2> QED
    BY <1>1, <2>3, <2>4, <2>5 DEF AnswerInv
<1>4. CASE SendAcknowledged \/ SendAnswerLost \/ SendConflict \/ SendRejected
  <2>1. /\ pc = "send" /\ UNCHANGED <<mem, disk>> /\ pc' # "return_ok"
        /\ coord' \in {coord, [coord EXCEPT ![job] = "completed"]}
        /\ sent' \in {sent, [sent EXCEPT ![job] = @ \cup {mem.pending}]}
        /\ pc' = "ack" => coord'[job] = "completed"
        /\ run' = run \/ (run'.why = "completion_conflict" /\ sent'[job] # {})
    BY <1>0, <1>4 DEF SendAcknowledged, SendAnswerLost, SendConflict, SendRejected, Recorded,
       Duplicate, Received, Because, local, world, RunLocals
  <2>2. /\ \A j \in Jobs : sent[j] \subseteq sent'[j] /\ (Answered(j) => Answered(j)')
    BY <1>0, <2>1 DEF Answered
  <2>3. Shapes'
    BY <1>0, <1>1, <2>1 DEF Shapes, Recovery
  <2>4. Disputes'
    <3>1. \A o \in Operators : Recovery(o) => op[o].job \in Jobs
      BY DEF MarkInv, RequestsCurrent
    <3>2. \A j \in Jobs : sent[j] # {} => sent'[j] # {}
      BY <2>2
    <3> HIDE DEF ControllerPcs, SettlePcs, Worked, InHand
    <3> QED
      BY <1>0, <2>1, <2>2, <3>1, <3>2 DEF Disputes, Recovery, Worked, InHand, SettlePcs
  <2>5. Answers'
    BY <1>0, <1>1, <2>1, <2>2 DEF Answers
  <2> QED
    BY <1>1, <2>3, <2>4, <2>5 DEF AnswerInv
<1>5. CASE PersistAcknowledgement
  <2>1. /\ pc = "ack" /\ mem' = WithAcknowledgement(mem) /\ UNCHANGED <<run, sent, coord>>
        /\ pc' \in {"return_ok", "hold_check"}
    BY <1>5 DEF PersistAcknowledgement, SaveMem, Save, world
  <2>2. Retired(mem') /\ ~Conflicting(mem') /\ Answered(job)
    BY <1>0, <2>1, ClaimEdits DEF Retired, Closed, Conflicting, Answers, Answered
  <2>3. Shapes' /\ Disputes'
    BY <1>0, <2>1, <2>2, WriteAnswers DEF Shapes, Disputes, AnswerInv
  <2>4. Answers'
    BY <1>0, <2>1, <2>2, WriteAnswers DEF Answers, AnswerInv
  <2> QED
    BY <1>1, <2>3, <2>4 DEF AnswerInv
<1> QED
  BY <1>3, <1>4, <1>5 DEF Delivery

\* A job is taken on, or recovered, with a live record and nothing answered.
LEMMA RunLoopAnswers ==
    ASSUME Typed, MarkInv, AnswerInv, RunLoop
    PROVE  (AnswerInv)'
<1> USE DEF Step, ControllerPcs, SettlePcs, InHand, Worked, HeartbeatPcs, Guarded, Recovering
<1>0. /\ disk \in [Jobs -> RunRecords] /\ UNCHANGED <<op, disk, sent>>
      /\ coord \in [Jobs -> {"queued", "claimed", "completed", "released"}]
      /\ Shapes /\ Disputes /\ Fresh /\ Answers
  BY DEF RunLoop, ClaimJob, ClaimAnswerLost, ClaimUnresolved, ClaimRejected, ReturnOk, Recover,
     CheckForHold, WakeUp, world, Typed, TypeOK, AnswerInv
<1>1. \A j \in Jobs : Answered(j) => Answered(j)'
  <2>1. coord' = coord \/ \E j \in Jobs : coord[j] = "queued" /\ coord' = [coord EXCEPT ![j] = "claimed"]
    BY DEF RunLoop, ClaimJob, ClaimAnswerLost, ClaimUnresolved, ClaimRejected, ReturnOk, Recover,
       CheckForHold, WakeUp, world
  <2> QED
    BY <1>0, <2>1 DEF Answered
<1>2. ASSUME NEW j \in Jobs, ClaimJob(j) PROVE (AnswerInv)'
  <2>1. pc = "claim" /\ pc' = "create" /\ job' = j /\ mem' = Claimed /\ UNCHANGED <<run, progress>>
    BY <1>2 DEF ClaimJob
  <2>2. Live(Claimed) /\ ~Conflicting(Claimed)
    BY DEF Claimed, NoRecord, Live, Acknowledged, Conflicting
  <2>3. run.why = "none" /\ Fresh'
    BY <1>0, <2>1 DEF Fresh, NoRun
  <2> QED
    BY <1>0, <1>1, <2>1, <2>2, <2>3 DEF AnswerInv, Shapes, Disputes, Answers, Recovery
<1>3. ASSUME NEW j \in Unresolved, RecoverWith(j) PROVE (AnswerInv)'
  <2>1. /\ job' = j /\ j \in Jobs
        /\ pc' \in {"hold_check", "deliver", "recover_target"}
        /\ ~progress'.lost /\ run'.why \in {"none", "interrupted"}
    BY <1>3 DEF RecoverWith, Unresolved, NoProgress, NoRun
  <2>3. Live(disk[j])
    BY <1>0, <1>3, <2>1, ShapeFacts DEF Unresolved, Shapes
  <2>4. pc' # "hold_check" => SameClaim(mem', disk[j])
    <3>1. disk[j] \in RunRecords
      BY <1>0, <2>1
    <3>2. SameClaim([disk[j] EXCEPT !.status = "interrupted"], disk[j])
      BY <3>1, ClaimEdits DEF Statuses
    <3>3. SameClaim(disk[j], disk[j])
      BY DEF SameClaim
    <3>4. pc' = "hold_check" \/ mem' \in {disk[j], [disk[j] EXCEPT !.status = "interrupted"]}
      BY <1>3 DEF RecoverWith
    <3> QED
      BY <3>2, <3>3, <3>4
  <2>2. pc' # "hold_check" => Live(mem') /\ Conflicting(mem') = Conflicting(disk[j])
    BY <2>3, <2>4 DEF SameClaim, Live, Acknowledged, Conflicting
  <2> QED
    BY <1>0, <1>1, <2>1, <2>2, <2>3 DEF AnswerInv, Shapes, Disputes, Fresh, Answers, Recovery
\* The other steps leave, or stay, between jobs.
<1>4. ASSUME pc' \notin Worked, Fresh' PROVE (AnswerInv)'
  BY <1>0, <1>1, <1>4 DEF AnswerInv, Shapes, Disputes, Answers, Recovery
<1>5. ASSUME NEW j \in Jobs, ClaimAnswerLost(j) PROVE (AnswerInv)'
  BY <1>0, <1>4, <1>5 DEF ClaimAnswerLost, local, Fresh
<1>6. CASE ClaimUnresolved \/ ClaimRejected \/ WakeUp
  BY <1>0, <1>4, <1>6 DEF ClaimUnresolved, ClaimRejected, WakeUp, Fresh
<1>7. CASE ReturnOk \/ CheckForHold
  BY <1>4, <1>7 DEF ReturnOk, CheckForHold, ForgetJob, Fresh
<1>8. CASE Recover /\ UNCHANGED <<run, progress>> /\ pc' \in {"claim", "hold_check"}
  BY <1>0, <1>4, <1>8 DEF Recover, Fresh
<1> QED
  BY <1>2, <1>3, <1>5, <1>6, <1>7, <1>8 DEF RunLoop, Recover

\* An operator retires a record only on a conflict; the coordinator takes an
\* answer back only on a conflict; the heartbeat sees answers.
LEMMA OthersAnswer ==
    ASSUME Typed, MarkInv, CleanupInv, AnswerInv,
           \/ Heartbeat \/ Operator \/ Restart
           \/ \E j \in Jobs : CoordinatorReleases(j) \/ CoordinatorReinstates(j)
    PROVE  (AnswerInv)'
<1> USE DEF ControllerPcs, SettlePcs
<1>0. /\ disk \in [Jobs -> RunRecords] /\ op \in [Operators -> Requests]
      /\ coord \in [Jobs -> {"queued", "claimed", "completed", "released"}]
      /\ progress \in ProgressFlags
      /\ Shapes /\ Disputes /\ Fresh /\ Answers
      /\ pc \in Worked => job \in Jobs
  BY DEF Typed, TypeOK, JobInHand, AnswerInv, Worked
<1>a. \A o \in Operators : Recovery(o) => op[o].job \in Jobs
  BY DEF MarkInv, RequestsCurrent
<1>1. CASE Heartbeat
  <2>1. /\ UNCHANGED <<pc, job, mem, run, disk, sent, op, coord>> /\ pc \in HeartbeatPcs
        /\ coord[job] # "claimed" \/ progress'.lost = progress.lost
    BY <1>0, <1>1 DEF Heartbeat, HeartbeatClaimLost, HeartbeatCancel, world, ProgressFlags
  <2>2. job \in Jobs /\ coord[job] # "queued" /\ pc # "create"
    BY <1>0, <2>1 DEF MarkInv, HandOnDisk, HeartbeatPcs, Worked
  <2>3. Answered(job) \/ progress'.lost = progress.lost
    BY <1>0, <2>1, <2>2 DEF Answered
  <2>4. Shapes' /\ Disputes'
    BY <1>0, <2>1 DEF Shapes, Disputes, Recovery, CleanSecond
  <2>5. Fresh'
    BY <2>1 DEF Fresh, HeartbeatPcs
  <2>6. Answers'
    BY <1>0, <2>1, <2>3 DEF Answers, Answered
  <2> QED
    BY <2>4, <2>5, <2>6 DEF AnswerInv
<1>2. ASSUME NEW o \in Operators, NEW a \in RecoveryActions, NEW j \in Jobs,
             RecoveryRequest(o, a, j)
      PROVE  (AnswerInv)'
  <2>1. /\ op' = [op EXCEPT ![o] = [action |-> a, job |-> j, snap |-> disk[j]]]
        /\ disk[j].hold # "none"
        /\ UNCHANGED <<pc, job, mem, run, progress, disk, sent, coord>>
        /\ a \in {"retryCompletion", "acceptCoordinatorResult"} => Conflicting(disk[j])
    BY <1>2 DEF RecoveryRequest, RecoveryAllowed, RecoveryActions, local, Conflicting
  <2>2. \A p \in Operators :
            \/ p = o /\ op'[p] = [action |-> a, job |-> j, snap |-> disk[j]]
            \/ p # o /\ op'[p] = op[p]
    BY <1>0, <2>1
  <2>3. Live(disk[j])
    BY <1>0, <2>1 DEF Shapes, Retired, Closed
  <2>4. Shapes'
    BY <1>0, <2>1, <2>2, <2>3 DEF Shapes, Recovery, CleanSecond
  <2>5. Disputes'
    BY <1>0, <2>1, <2>2 DEF Disputes, Recovery
  <2>6. Fresh' /\ Answers'
    BY <1>0, <2>1 DEF Fresh, Answers, Answered
  <2> QED
    BY <2>4, <2>5, <2>6 DEF AnswerInv
<1>3. ASSUME NEW o \in Operators, RecoverySave(o) PROVE (AnswerInv)'
  <2> DEFINE k == op[o].job
             snap == op[o].snap
             rec == RecoveryEdit(op[o].action, snap)
  <2>1. /\ op' = [op EXCEPT ![o] = NoRequest] /\ Recovery(o)
        /\ disk' \in {disk, [disk EXCEPT ![k] = rec]}
        /\ UNCHANGED <<pc, job, mem, run, progress, sent, coord>>
    BY <1>3 DEF RecoverySave, Recovery, local, world
  <2>2. \A p \in Operators : Recovery(p)' => Recovery(p) /\ op'[p] = op[p]
    BY <1>0, <2>1 DEF Recovery, NoRequest, RecoveryActions
  <2>3. /\ k \in Jobs /\ snap \in RunRecords /\ Live(snap)
        /\ \/ disk' = disk
           \/ disk'[k] = rec /\ \A j \in Jobs \ {k} : disk'[j] = disk[j]
    BY <1>0, <1>a, <2>1 DEF Requests, Shapes
  <2>4. /\ Live(rec) \/ (Retired(rec) /\ Conflicting(snap))
        /\ Conflicting(rec) => Conflicting(snap)
    <3>1. op[o].action = "acceptCoordinatorResult" => Conflicting(snap)
      BY <1>0, <2>1 DEF Disputes
    <3> QED
      BY <2>1, <2>3, <3>1 DEF RecoveryEdit, Recovery, RecoveryActions, Live, Retired, Closed,
         Acknowledged, Conflicting, RunRecords
  <2>5. Conflicting(snap) => sent[k] # {}
    BY <1>0, <2>1 DEF Disputes
  <2> HIDE DEF rec
  \* A guarded file is not the one that is written.
  <2>6. /\ pc \in Guarded => disk'[job] = disk[job]
        /\ pc \in Recovering => disk'[job] = disk[job] \/ CleanSecond
    <3>1. pc \in Guarded => k # job
      BY <2>1 DEF Guarded, MarkInv, ExecutionUndisturbed, Undisturbed, CleanupInv, RecoveredAlone, Free
    <3>2. pc \in Recovering => k # job \/ CleanSecond
      BY <2>1 DEF CleanupInv, RecoveredAlone, Free
    <3>3. pc \in Guarded \cup Recovering => job \in Jobs
      BY <1>0 DEF Guarded, Recovering, Worked
    <3> QED
      BY <2>3, <3>1, <3>2, <3>3
  <2>7. Shapes'
    <3>1. \A j \in Jobs : Live(disk'[j]) \/ Retired(disk'[j])
      BY <1>0, <2>3, <2>4 DEF Shapes
    <3> QED
      BY <1>0, <2>1, <2>2, <2>6, <3>1 DEF Shapes, CleanSecond
  <2>8. Disputes'
    <3>1. \A j \in Jobs : Conflicting(disk'[j]) => sent[j] # {}
      BY <1>0, <2>3, <2>4, <2>5 DEF Disputes
    <3> QED
      BY <1>0, <2>1, <2>2, <3>1 DEF Disputes
  <2>9. Fresh' /\ Answers'
    <3>1. \A j \in Jobs : (disk'[j].status # "absent" /\ Retired(disk'[j])) => Answered(j)
      <4>1. Retired(rec) => sent[k] # {}
        BY <2>4, <2>5 DEF Live, Retired, Closed
      <4> QED
        BY <1>0, <2>3, <4>1 DEF Answers, Answered
    <3> QED
      BY <1>0, <2>1, <3>1 DEF Fresh, Answers, Answered
  <2> QED
    BY <2>7, <2>8, <2>9 DEF AnswerInv
\* Requests end, answers stay, and nothing else changes.
<1>b. ASSUME UNCHANGED <<pc, job, mem, run, progress, disk, sent>>,
             \A p \in Operators : Recovery(p)' => Recovery(p) /\ op'[p] = op[p],
             \A j \in Jobs : Answered(j) => coord'[j] \in {"completed", "released"} \/ sent[j] # {},
             \A j \in Jobs : coord[j] = "completed" => coord'[j] = "completed"
      PROVE  (AnswerInv)'
  <2>1. Shapes'
    BY <1>0, <1>b DEF Shapes, CleanSecond
  <2>2. Disputes'
    BY <1>0, <1>b DEF Disputes
  <2>3. Fresh'
    BY <1>0, <1>b DEF Fresh
  <2>4. Answers'
    BY <1>0, <1>b DEF Answers, Answered, HeartbeatPcs, Worked
  <2> QED
    BY <2>1, <2>2, <2>3, <2>4 DEF AnswerInv
<1>4. ASSUME NEW o \in Operators, NEW j \in Jobs, ReadyRequest(o, j)
      PROVE  (AnswerInv)'
  <2>1. /\ op' = [op EXCEPT ![o] = [NoRequest EXCEPT !.action = "ready", !.job = j]]
        /\ UNCHANGED <<pc, job, mem, run, progress, disk, sent, coord>>
    BY <1>4 DEF ReadyRequest, local, world
  <2>2. \A p \in Operators : Recovery(p)' => Recovery(p) /\ op'[p] = op[p]
    BY <1>0, <2>1 DEF Recovery, NoRequest, RecoveryActions
  <2>3. /\ \A k \in Jobs : Answered(k) => coord'[k] \in {"completed", "released"} \/ sent[k] # {}
        /\ \A k \in Jobs : coord[k] = "completed" => coord'[k] = "completed"
    BY <2>1 DEF Answered
  <2> QED
    BY <1>b, <2>1, <2>2, <2>3
<1>5. ASSUME NEW o \in Operators, ReadyCall(o) PROVE (AnswerInv)'
  <2>1. /\ op' = [op EXCEPT ![o] = NoRequest]
        /\ UNCHANGED <<pc, job, mem, run, progress, disk, sent>>
        /\ \/ coord' = coord
           \/ /\ coord[op[o].job] # "completed"
              /\ coord' = [coord EXCEPT ![op[o].job] = "released"]
    BY <1>5 DEF ReadyCall, local
  <2>2. \A p \in Operators : Recovery(p)' => Recovery(p) /\ op'[p] = op[p]
    BY <1>0, <2>1 DEF Recovery, NoRequest, RecoveryActions
  <2>3. /\ \A j \in Jobs : Answered(j) => coord'[j] \in {"completed", "released"} \/ sent[j] # {}
        /\ \A j \in Jobs : coord[j] = "completed" => coord'[j] = "completed"
    BY <1>0, <2>1 DEF Answered
  <2> QED
    BY <1>b, <2>1, <2>2, <2>3
<1>6. CASE Restart
  <2>1. /\ pc' = "recover" /\ op' = [o \in Operators |-> NoRequest]
        /\ run' = NoRun /\ progress' = NoProgress
        /\ UNCHANGED <<disk, sent, coord>>
    BY <1>6 DEF Restart, ForgetJob, world
  <2>2. \A o \in Operators : ~Recovery(o)'
    BY <2>1 DEF Recovery, NoRequest, RecoveryActions
  <2>3. pc' \notin Worked /\ pc' \notin Guarded /\ pc' \notin Recovering /\ pc' \notin HeartbeatPcs
    BY <2>1 DEF Worked, Guarded, Recovering, HeartbeatPcs
  <2>4. Shapes' /\ Disputes'
    BY <1>0, <2>1, <2>2, <2>3 DEF Shapes, Disputes, InHand
  <2>5. Fresh' /\ Answers'
    BY <1>0, <2>1, <2>3 DEF Fresh, Answers, Answered
  <2> QED
    BY <2>4, <2>5 DEF AnswerInv
<1>7. ASSUME NEW j \in Jobs, CoordinatorReleases(j) \/ CoordinatorReinstates(j)
      PROVE  (AnswerInv)'
  <2>1. /\ UNCHANGED <<pc, job, mem, run, progress, disk, sent, op>>
        /\ \/ coord[j] = "claimed" /\ coord' = [coord EXCEPT ![j] = "released"]
           \/ /\ coord[j] = "released" /\ coord' = [coord EXCEPT ![j] = "claimed"]
              /\ Conflicting(disk[j])
    BY <1>7 DEF CoordinatorReleases, CoordinatorReinstates, local, Conflicting
  <2>2. Conflicting(disk[j]) => sent[j] # {}
    BY <1>0 DEF Disputes
  <2>3. /\ \A k \in Jobs : Answered(k) => coord'[k] \in {"completed", "released"} \/ sent[k] # {}
        /\ \A k \in Jobs : coord[k] = "completed" => coord'[k] = "completed"
    BY <1>0, <2>1, <2>2 DEF Answered
  <2> QED
    BY <1>b, <2>1, <2>3 DEF Recovery
<1> QED
  BY <1>1, <1>2, <1>3, <1>4, <1>5, <1>6, <1>7 DEF Operator

\* What the worker or an operator gives up was answered.
THEOREM AnswerInvariant == Spec => [](Typed /\ MarkInv /\ CleanupInv /\ AnswerInv)
<1>1. Init => AnswerInv
  <2> SUFFICES ASSUME Init PROVE AnswerInv
    OBVIOUS
  <2>1. /\ pc = "recover" /\ \A o \in Operators : ~Recovery(o)
        /\ \A j \in Jobs : disk[j] = NoRecord
        /\ run = NoRun /\ progress = NoProgress
    BY DEF Init, Recovery, NoRequest, RecoveryActions
  <2> QED
    BY <2>1 DEF AnswerInv, Shapes, Disputes, Fresh, Answers, NoRecord, Retired, Closed, Conflicting,
       InHand, Worked, Guarded, Recovering, HeartbeatPcs, ControllerPcs, SettlePcs
<1>2. /\ Typed /\ MarkInv /\ CleanupInv /\ (MarkInv)'
      /\ AnswerInv /\ [Next]_vars
      => (AnswerInv)'
  <2>1. CASE UNCHANGED vars
    BY <2>1 DEF AnswerInv, Shapes, Disputes, Fresh, Answers, Answered, Recovery, CleanSecond,
       vars, local, world
  <2> QED
    BY <2>1, ControllerAnswers, SettlementAnswers, DeliveryAnswers, RunLoopAnswers, OthersAnswer
       DEF Next, Worker
<1> QED
  BY <1>1, <1>2, CleanupInvariant, PTL DEF Spec

(***************************************************************************)
(* Whatever fails and however operators race, a job with a record that     *)
(* asks for no more attention was answered: the coordinator no longer      *)
(* considers it claimed, or refused the outcome it was sent.               *)
(***************************************************************************)
SettledWereAnswered ==
    \A j \in Jobs :
        (disk[j].status # "absent" /\ ~RequiresWorkerAttention(disk[j])) => Answered(j)

\* Giving a claim up follows an answer, in every reachable state.
THEOREM SettledAfterAnswer == Spec => []SettledWereAnswered
<1>1. Typed /\ AnswerInv => SettledWereAnswered
  BY ShapeFacts DEF Typed, TypeOK, AnswerInv, Shapes, Answers, SettledWereAnswered
<1> QED
  BY <1>1, AnswerInvariant, PTL

\* Without reinstatement, an outcome is only ever sent to a coordinator that
\* records it or has let go of the job for good.
OutcomesFinal == \A j \in Jobs : sent[j] # {} => coord[j] \in {"completed", "released"}

\* No step opens a job again an outcome was sent for.
LEMMA OutcomesStayFinal ==
    ASSUME "reinstate" \notin Faults, Typed, OutcomesFinal, [Next]_vars
    PROVE  OutcomesFinal'
<1>0. /\ sent \in [Jobs -> SUBSET Bodies]
      /\ coord \in [Jobs -> {"queued", "claimed", "completed", "released"}]
      /\ pc = "send" => job \in Jobs
  BY DEF Typed, TypeOK, JobInHand, SettlePcs
<1>1. CASE UNCHANGED <<sent, coord>>
  BY <1>1 DEF OutcomesFinal
<1>2. ASSUME NEW j \in Jobs, ClaimJob(j) \/ ClaimAnswerLost(j) PROVE OutcomesFinal'
  BY <1>0, <1>2 DEF ClaimJob, ClaimAnswerLost, OutcomesFinal
<1>3. CASE SendAcknowledged \/ SendAnswerLost
  <2>1. /\ job \in Jobs
        /\ \/ UNCHANGED <<sent, coord>>
           \/ /\ coord' = [coord EXCEPT ![job] = "completed"]
              /\ sent' = [sent EXCEPT ![job] = @ \cup {mem.pending}]
    BY <1>0, <1>3 DEF SendAcknowledged, SendAnswerLost, Recorded, Duplicate, Received, Step
  <2> QED
    BY <1>0, <1>1, <2>1 DEF OutcomesFinal
<1>4. CASE SendConflict
  <2>1. /\ job \in Jobs /\ coord[job] \in {"completed", "released"} /\ coord' = coord
        /\ sent' = [sent EXCEPT ![job] = @ \cup {mem.pending}]
    BY <1>0, <1>4 DEF SendConflict, Received, Step
  <2> QED
    BY <1>0, <2>1 DEF OutcomesFinal
<1>5. ASSUME NEW j \in Jobs, CoordinatorReleases(j) PROVE OutcomesFinal'
  BY <1>0, <1>5 DEF CoordinatorReleases, OutcomesFinal
<1>6. ASSUME NEW o \in Operators, ReadyCall(o) PROVE OutcomesFinal'
  BY <1>0, <1>6 DEF ReadyCall, OutcomesFinal
<1>7. CASE Controller
  BY <1>1, <1>7 DEF Controller, StartExecution, Preflight, PrepareBaseline, InstallBaseline, Mutate,
     PrepareCandidate, UpdateCandidate, GatherEvidence, BeginCleanup, ControllerReconcile,
     SaveCleanup, FinishExecution, Execution, ExecutionSave, world
<1>8. CASE Settlement
  BY <1>1, <1>8 DEF Settlement, CreateRecord, CheckSupported, ReloadRecord, Settle, RecoverTarget,
     RecoverReconcile, RecoverSave, Recovered, SetWorkerError, ReleaseClaim, MarkHold, world
<1>9. CASE PrepareCompletion \/ SendRejected \/ PersistAcknowledgement
  BY <1>1, <1>9 DEF PrepareCompletion, SendRejected, PersistAcknowledgement, world
<1>10. CASE ClaimUnresolved \/ ClaimRejected \/ ReturnOk \/ Recover \/ CheckForHold \/ WakeUp
  BY <1>1, <1>10 DEF ClaimUnresolved, ClaimRejected, ReturnOk, Recover, CheckForHold, WakeUp, world
<1>11. CASE Heartbeat \/ Restart \/ UNCHANGED vars
  BY <1>1, <1>11 DEF Heartbeat, HeartbeatClaimLost, HeartbeatCancel, Restart, vars, world
<1>12. ASSUME NEW o \in Operators, NEW j \in Jobs,
              \/ ReadyRequest(o, j)
              \/ \E a \in RecoveryActions : RecoveryRequest(o, a, j)
       PROVE  OutcomesFinal'
  BY <1>1, <1>12 DEF ReadyRequest, RecoveryRequest, world
<1>13. ASSUME NEW o \in Operators, RecoverySave(o) PROVE OutcomesFinal'
  BY <1>1, <1>13 DEF RecoverySave, world
<1>14. ~\E j \in Jobs : CoordinatorReinstates(j)
  BY DEF CoordinatorReinstates
<1> QED
  BY <1>2, <1>3, <1>4, <1>5, <1>6, <1>7, <1>8, <1>9, <1>10, <1>11, <1>12, <1>13, <1>14
     DEF Next, Worker, Delivery, RunLoop, Operator

(***************************************************************************)
(* Where nobody reinstates a disputed job, a record that asks for no more  *)
(* attention never hides a claim that is open at the coordinator.          *)
(***************************************************************************)
THEOREM SettledRemotely ==
    ASSUME "reinstate" \notin Faults
    PROVE  Spec => []SettledLocallyMeansSettledRemotely
<1>1. Init => OutcomesFinal
  BY DEF Init, OutcomesFinal
<1>2. Typed /\ OutcomesFinal /\ [Next]_vars => OutcomesFinal'
  BY OutcomesStayFinal
<1>3. OutcomesFinal /\ SettledWereAnswered => SettledLocallyMeansSettledRemotely
  BY DEF OutcomesFinal, SettledWereAnswered, Answered, SettledLocallyMeansSettledRemotely
<1> QED
  BY <1>1, <1>2, <1>3, SettledAfterAnswer, TypeCorrect, PTL DEF Spec

--------------------------------------------------------------------------------
(***************************************************************************)
(* A changed target is on record.  A record states what became of the      *)
(* target once its cleanup is no longer pending, or was never required.    *)
(***************************************************************************)
Concluded(r) == r.result # NoOutcome \/ r.pending # NoOutcome
Stated(r) == r.cleanup = "pending" => ~r.cleanupRequired

\* No cleanup is skipped that is required, and no outcome is written down
\* before the cleanup is over.
Proper(r) ==
    /\ r.cleanup = "skipped" => ~r.cleanupRequired
    /\ Concluded(r) => r.cleanup # "pending"

\* Where the record in hand states its cleanup, and where it is not pending.
StatedPcs == {"recover_save", "recovered", "worker_error", "release"}
OverPcs == {"save_cleanup", "finish", "settle", "deliver", "send", "ack"}

StatedFiles ==
    \A j \in Jobs :
        /\ Proper(disk[j])
        /\ disk[j].cleanup = "passed" => node[j] # "modified"
        /\ Retired(disk[j]) => Stated(disk[j])

StatedHand ==
    /\ pc \in InHand => Proper(mem) /\ (mem.cleanup = "passed" => node[job] # "modified")
    /\ pc \in {"unsupported", "start"} => disk[job] = Claimed /\ mem = Claimed
    /\ pc \in ControllerPcs => ~Concluded(mem) /\ (run.authorized \/ ~mem.cleanupRequired)
    /\ pc \in ControllerPcs \ OverPcs => mem.cleanup = "pending"
    /\ pc \in StatedPcs => Stated(mem)
    /\ pc \in OverPcs => mem.cleanup # "pending"
    /\ pc = "executed" /\ ~run.execError => disk[job].cleanup # "pending"

\* What the worker left behind when it turned to the next job.
LeftStated ==
    /\ pc \in {"claim", "return_ok"} => \A j \in Jobs : Stated(disk[j])
    /\ pc \in Worked => \A j \in Jobs \ {job} : Stated(disk[j])

RequestsClean ==
    \A o \in Operators : Recovery(o) =>
        /\ node[op[o].job] # "modified"
        /\ Proper(op[o].snap)
        /\ op[o].action \in {"retryCompletion", "acceptCoordinatorResult"}
                => op[o].snap.cleanup \in {"passed", "skipped"}

TargetInv == StatedFiles /\ StatedHand /\ LeftStated /\ RequestsClean

\* What the edits of a record do to the cleanup it states.
LEMMA CleanupEdits ==
    ASSUME NEW r \in RunRecords, Proper(r)
    PROVE  /\ \A f \in BOOLEAN : r.cleanup # "pending" => Proper(WithResult(r, f))
           /\ \A f \in BOOLEAN : WithResult(r, f).cleanup = r.cleanup
           /\ \A c \in ErrorCodes :
                /\ Proper(WithWorkerError(r, c))
                /\ WithWorkerError(r, c).cleanup = "passed" => r.cleanup = "passed"
                /\ Stated(r) => WithWorkerError(r, c).cleanup # "pending"
           /\ \A s \in Statuses :
                /\ Proper([r EXCEPT !.status = s])
                /\ [r EXCEPT !.status = s].cleanup = r.cleanup
           /\ \A h \in Holds :
                /\ Proper([r EXCEPT !.hold = h])
                /\ [r EXCEPT !.hold = h].cleanup = r.cleanup
           /\ Proper(WithAcknowledgement(r)) /\ WithAcknowledgement(r).cleanup = r.cleanup
           /\ Proper(WithReleasedClaim(r)) /\ WithReleasedClaim(r).cleanup = r.cleanup
           /\ Stated(r) => Stated(WithReleasedClaim(r))
<1> USE DEF Proper, Concluded, Stated
<1>1. /\ \A f \in BOOLEAN : r.cleanup # "pending" => Proper(WithResult(r, f))
      /\ \A f \in BOOLEAN : WithResult(r, f).cleanup = r.cleanup
  BY DEF WithResult, RunRecords
<1>2. \A c \in ErrorCodes :
          /\ Proper(WithWorkerError(r, c))
          /\ WithWorkerError(r, c).cleanup = "passed" => r.cleanup = "passed"
          /\ Stated(r) => WithWorkerError(r, c).cleanup # "pending"
  BY DEF WithWorkerError, WorkerErrorCleanup, RunRecords
<1>3. \A s \in Statuses :
          /\ Proper([r EXCEPT !.status = s])
          /\ [r EXCEPT !.status = s].cleanup = r.cleanup
  BY DEF RunRecords
<1>4. \A h \in Holds :
          /\ Proper([r EXCEPT !.hold = h])
          /\ [r EXCEPT !.hold = h].cleanup = r.cleanup
  BY DEF RunRecords
<1>5. /\ Proper(WithAcknowledgement(r)) /\ WithAcknowledgement(r).cleanup = r.cleanup
      /\ Proper(WithReleasedClaim(r)) /\ WithReleasedClaim(r).cleanup = r.cleanup
      /\ Stated(r) => Stated(WithReleasedClaim(r))
  BY DEF WithAcknowledgement, WithReleasedClaim, RunRecords
<1> QED
  BY <1>1, <1>2, <1>3, <1>4, <1>5

\* A fresh claim states nothing that could be wrong.
LEMMA ClaimedIsProper ==
    /\ Proper(Claimed) /\ ~Concluded(Claimed) /\ Claimed.cleanup = "pending"
    /\ ~Claimed.cleanupRequired /\ Claimed.status = "queued" /\ Stated(Claimed)
BY DEF Claimed, NoRecord, Proper, Concluded, Stated

\* The controller changes the target with a pending cleanup, and writes the
\* outcome of the cleanup before any other.
LEMMA ControllerStates ==
    ASSUME Typed, MarkInv, (MarkInv)', CleanupInv, AnswerInv, (AnswerInv)', TargetInv, Controller
    PROVE  TargetInv'
<1> USE DEF Step, ControllerPcs, OverPcs
<1>0. /\ pc \in ControllerPcs /\ job \in Jobs /\ pc' \in ControllerPcs \cup {"executed"}
      /\ mem \in RunRecords /\ disk \in [Jobs -> RunRecords] /\ run \in RunLocals
      /\ disk[job] \in RunRecords
      /\ UNCHANGED <<job, op>>
      /\ \A j \in Jobs \ {job} : disk'[j] = disk[j]
      /\ \A o \in Operators : Recovery(o) => op[o].job # job
      /\ node \in [Jobs -> {"untouched", "modified", "restored"}]
  BY ControllerFrame DEF Typed, TypeOK
<1>1. /\ StatedFiles /\ StatedHand /\ LeftStated /\ RequestsClean
      /\ \A o \in Operators : Recovery(o) => op[o].job \in Jobs \ {job}
  BY <1>0 DEF TargetInv, MarkInv, RequestsCurrent
\* Left to show: the file and the record in hand.
<1>a. ASSUME \A j \in Jobs \ {job} : node'[j] = node[j],
             Proper(disk'[job]), disk'[job].cleanup = "passed" => node'[job] # "modified",
             pc' \notin {"unsupported", "start"},
             pc' # "executed" =>
                /\ Proper(mem') /\ (mem'.cleanup = "passed" => node'[job] # "modified")
                /\ ~Concluded(mem') /\ (run'.authorized \/ ~mem'.cleanupRequired)
                /\ pc' \in OverPcs <=> mem'.cleanup # "pending",
             pc' = "executed" /\ ~run'.execError => disk'[job].cleanup # "pending"
      PROVE  TargetInv'
  <2>1. StatedFiles'
    <3>1. Live(disk'[job])
      BY <1>0 DEF AnswerInv, Shapes, Guarded
    <3>2. ~Retired(disk'[job])
      BY <3>1 DEF Live, Retired, Closed
    <3> QED
      BY <1>0, <1>1, <1>a, <3>2 DEF StatedFiles
  <2>2. StatedHand'
    BY <1>0, <1>a DEF StatedHand, StatedPcs, InHand, Worked, SettlePcs
  <2>3. LeftStated'
    BY <1>0, <1>1, <1>a DEF LeftStated, Worked
  <2>4. RequestsClean'
    BY <1>0, <1>1, <1>a DEF RequestsClean, Recovery
  <2> QED
    BY <2>1, <2>2, <2>3, <2>4 DEF TargetInv
<1>b. /\ Proper(mem) /\ (mem.cleanup = "passed" => node[job] # "modified")
      /\ ~Concluded(mem) /\ (run.authorized \/ ~mem.cleanupRequired)
      /\ pc \in OverPcs <=> mem.cleanup # "pending"
      /\ Proper(disk[job]) /\ (disk[job].cleanup = "passed" => node[job] # "modified")
  BY <1>0, <1>1 DEF StatedFiles, StatedHand, InHand, Worked
<1>1a. CASE StartExecution
  <2> DEFINE started == [disk[job] EXCEPT !.status = "running"]
  <2>1. disk[job] = Claimed /\ pc = "start"
    BY <1>1, <1>1a DEF StatedHand, StartExecution
  <2>2. /\ UNCHANGED node
        /\ \/ /\ pc' = "preflight" /\ UNCHANGED run /\ mem' = started
              /\ disk' = [disk EXCEPT ![job] = started]
           \/ /\ pc' = "executed" /\ run'.execError
              /\ disk' \in {disk, [disk EXCEPT ![job] = started]}
    BY <1>0, <1>1a, <2>1, ClaimedIsProper DEF StartExecution, Saved, SaveFails, Execution, RunLocals
  <2>3. /\ started.cleanup = "pending" /\ ~started.cleanupRequired
        /\ Proper(started) /\ ~Concluded(started)
    BY <2>1, ClaimedIsProper DEF Claimed, NoRecord, Proper, Concluded
  <2> HIDE DEF started
  <2> QED
    BY <1>0, <1>a, <1>b, <2>2, <2>3
<1>2. CASE Preflight
  <2> DEFINE planned == [mem EXCEPT !.plan = RightPlan(job)]
  <2>1. /\ pc = "preflight" /\ UNCHANGED node
        /\ pc' \in {"baseline", "cleanup"} /\ run'.authorized = run.authorized
        /\ mem' \in {mem, planned} /\ disk' \in {disk, [disk EXCEPT ![job] = planned]}
    BY <1>0, <1>2 DEF Preflight, Saved, SaveFails, WorkflowFails, Execution, RunLocals
  <2>2. /\ planned.cleanup = mem.cleanup /\ planned.cleanupRequired = mem.cleanupRequired
        /\ planned.result = mem.result /\ planned.pending = mem.pending
    BY <1>0 DEF RunRecords
  <2> HIDE DEF planned
  <2> QED
    BY <1>0, <1>a, <1>b, <2>1, <2>2 DEF Proper, Concluded
<1>3. CASE PrepareBaseline \/ PrepareCandidate
  <2> DEFINE marked == [mem EXCEPT !.cleanupRequired = TRUE]
  <2>1. /\ pc \in {"baseline", "candidate"} /\ UNCHANGED node
        /\ pc' \in {"baseline_mutate", "candidate_mutate", "candidate", "cleanup"}
        /\ \/ mem' = mem /\ UNCHANGED disk /\ run'.authorized = run.authorized
           \/ /\ mem' = marked /\ disk' \in {disk, [disk EXCEPT ![job] = marked]}
              /\ run'.authorized
    BY <1>0, <1>3 DEF PrepareBaseline, PrepareCandidate, AuthorizeCleanup, Saved, SaveFails,
       WorkflowFails, world, RunLocals
  <2>2. /\ marked.cleanup = mem.cleanup
        /\ marked.result = mem.result /\ marked.pending = mem.pending
    BY <1>0 DEF RunRecords
  <2> HIDE DEF marked
  <2> QED
    BY <1>0, <1>a, <1>b, <2>1, <2>2 DEF Proper, Concluded
<1>4. CASE InstallBaseline \/ UpdateCandidate
  <2>1. /\ pc \in {"baseline_mutate", "candidate_mutate"} /\ UNCHANGED <<mem, disk>>
        /\ pc' \in {"candidate", "evidence", "cleanup"}
        /\ node' = [node EXCEPT ![job] = "modified"] /\ run'.authorized = run.authorized
    BY <1>0, <1>4 DEF InstallBaseline, UpdateCandidate, Mutate, WorkflowFails, RunLocals
  <2>2. disk[job].cleanup # "passed" /\ mem.cleanup # "passed"
    BY <2>1 DEF CleanupInv, CleanupsKept
  <2> QED
    BY <1>0, <1>a, <1>b, <2>1, <2>2
<1>5. CASE GatherEvidence
  <2>1. /\ pc = "evidence" /\ UNCHANGED <<mem, disk, node>> /\ pc' = "cleanup"
        /\ run'.authorized = run.authorized
    BY <1>0, <1>5 DEF GatherEvidence, WorkflowFails, world, RunLocals
  <2> QED
    BY <1>0, <1>a, <1>b, <2>1
<1>6. CASE BeginCleanup
  <2> DEFINE skipped == [mem EXCEPT !.cleanup = "skipped"]
  <2>1. /\ pc = "cleanup" /\ UNCHANGED node /\ run'.authorized = run.authorized
        /\ \/ /\ pc' = "reconcile" /\ mem' = mem /\ disk' = [disk EXCEPT ![job] = mem]
           \/ /\ pc' = "executed" /\ run'.execError /\ disk' \in {disk, [disk EXCEPT ![job] = mem]}
           \/ /\ pc' = "finish" /\ mem' = skipped /\ UNCHANGED disk /\ ~run.authorized
    BY <1>0, <1>6 DEF BeginCleanup, Saved, SaveFails, world, RunLocals
  <2>2. /\ skipped.cleanup = "skipped" /\ skipped.cleanupRequired = mem.cleanupRequired
        /\ skipped.result = mem.result /\ skipped.pending = mem.pending
    BY <1>0 DEF RunRecords
  <2> HIDE DEF skipped
  <2> QED
    BY <1>0, <1>a, <1>b, <2>1, <2>2 DEF Proper, Concluded
<1>7. CASE ControllerReconcile
  <2>1. /\ pc = "reconcile" /\ pc' = "save_cleanup" /\ UNCHANGED <<disk, run>>
        /\ \/ node' = [node EXCEPT ![job] = "restored"] /\ mem' = [mem EXCEPT !.cleanup = "passed"]
           \/ node' = [node EXCEPT ![job] = "modified"] /\ mem' = [mem EXCEPT !.cleanup = "failed"]
    BY <1>7 DEF ControllerReconcile, Reconcile
  <2>2. /\ mem'.cleanup \in {"passed", "failed"} /\ mem'.cleanupRequired = mem.cleanupRequired
        /\ mem'.result = mem.result /\ mem'.pending = mem.pending
        /\ mem'.cleanup = "passed" => node'[job] # "modified"
    BY <1>0, <2>1 DEF RunRecords
  <2>3. disk[job].cleanup # "passed"
    BY <2>1 DEF CleanupInv, CleanupsKept
  <2>4. \A j \in Jobs \ {job} : node'[j] = node[j]
    BY <1>0, <2>1
  <2> QED
    BY <1>0, <1>a, <1>b, <2>1, <2>2, <2>3, <2>4 DEF Proper, Concluded
<1>8. CASE SaveCleanup
  <2>1. /\ pc = "save_cleanup" /\ UNCHANGED <<mem, node>>
        /\ disk' \in {disk, [disk EXCEPT ![job] = mem]}
        /\ \/ pc' = "finish" /\ UNCHANGED run
           \/ pc' = "executed" /\ run'.execError
    BY <1>0, <1>8 DEF SaveCleanup, ExecutionSave, Saved, SaveFails, Execution, RunLocals
  <2> QED
    BY <1>0, <1>a, <1>b, <2>1
<1>9. CASE FinishExecution
  <2> DEFINE ended == WithResult(mem, run.failed)
  <2>1. /\ pc = "finish" /\ UNCHANGED node /\ pc' = "executed"
        /\ \/ disk' = [disk EXCEPT ![job] = ended]
           \/ run'.execError /\ disk' \in {disk, [disk EXCEPT ![job] = ended]}
    BY <1>0, <1>9 DEF FinishExecution, ExecutionSave, Saved, SaveFails, Execution, RunLocals
  <2>2. Proper(ended) /\ ended.cleanup = mem.cleanup /\ mem.cleanup # "pending"
    BY <1>0, <1>b, <2>1, CleanupEdits DEF RunLocals
  <2> HIDE DEF ended
  <2> QED
    BY <1>0, <1>a, <1>b, <2>1, <2>2
<1> QED
  BY <1>1a, <1>2, <1>3, <1>4, <1>5, <1>6, <1>7, <1>8, <1>9 DEF Controller

\* A step of the worker that leaves the targets alone: the record it writes
\* is proper, and states its cleanup if it is the last one of its job.
LEMMA WriteStates ==
    ASSUME Typed, TargetInv, job \in Jobs, UNCHANGED <<node, op, job>>,
           disk' \in {disk, [disk EXCEPT ![job] = mem']},
           Proper(mem'), mem'.cleanup = "passed" => node[job] # "modified",
           Retired(mem') => Stated(mem'),
           pc' \notin ControllerPcs \cup {"unsupported", "executed", "claim", "create"},
           pc' \in Worked \cup {"hold_check", "return_ok"}, pc \in Worked,
           pc' \in StatedPcs => Stated(mem'),
           pc' \in OverPcs => mem'.cleanup # "pending",
           pc' = "return_ok" => Stated(disk'[job])
    PROVE  TargetInv'
<1>1. /\ disk \in [Jobs -> RunRecords] /\ StatedFiles /\ StatedHand /\ LeftStated /\ RequestsClean
      /\ \A j \in Jobs \ {job} : disk'[j] = disk[j]
      /\ disk'[job] \in {disk[job], mem'}
  BY DEF Typed, TypeOK, TargetInv
<1>2. StatedFiles'
  BY <1>1 DEF StatedFiles
<1>3. StatedHand'
  BY <1>1 DEF StatedHand, ControllerPcs, InHand
<1>4. LeftStated'
  BY <1>1 DEF LeftStated
<1>5. RequestsClean'
  BY <1>1 DEF RequestsClean, Recovery
<1> QED
  BY <1>2, <1>3, <1>4, <1>5 DEF TargetInv

\* Settling a job states what became of its target before it is given up.
LEMMA SettlementStates ==
    ASSUME Typed, MarkInv, CleanupInv, AnswerInv, TargetInv, Settlement
    PROVE  TargetInv'
<1> USE DEF Step, ControllerPcs, SettlePcs, Worked, StatedPcs, OverPcs
<1>0. /\ pc \in SettlePcs /\ job \in Jobs /\ mem \in RunRecords /\ disk[job] \in RunRecords
      /\ disk \in [Jobs -> RunRecords] /\ run \in RunLocals
      /\ node \in [Jobs -> {"untouched", "modified", "restored"}]
      /\ UNCHANGED <<job, op>>
      /\ disk' \in {disk, [disk EXCEPT ![job] = mem']}
      /\ StatedFiles /\ StatedHand /\ LeftStated /\ RequestsClean
  BY DEF Settlement, CreateRecord, CheckSupported, ReloadRecord, Settle, RecoverTarget,
         RecoverReconcile, RecoverSave, Recovered, SetWorkerError, ReleaseClaim, MarkHold,
         Save, SaveMem, Saved, SaveFails, Typed, TypeOK, JobInHand, TargetInv
<1>b. pc # "executed" =>
          /\ Proper(mem) /\ (mem.cleanup = "passed" => node[job] # "modified")
          /\ Live(mem) /\ ~Retired(mem)
  BY <1>0 DEF StatedHand, InHand, AnswerInv, Shapes, Live, Retired, Closed
<1>c. pc # "recover_reconcile" => UNCHANGED node
  BY DEF Settlement, CreateRecord, CheckSupported, ReloadRecord, Settle, RecoverTarget,
         RecoverReconcile, RecoverSave, Recovered, SetWorkerError, ReleaseClaim, MarkHold, world
<1>1. CASE CreateRecord
  <2>1. /\ pc = "create" /\ mem' = mem /\ pc' \in {"unsupported", "hold_check"}
        /\ pc' = "unsupported" => disk' = [disk EXCEPT ![job] = mem]
    BY <1>1 DEF CreateRecord, Save, Saved
  <2>2. mem = Claimed
    BY <2>1 DEF MarkInv, HandOnDisk
  <2>3. /\ \A j \in Jobs \ {job} : disk'[j] = disk[j]
        /\ disk'[job] \in {disk[job], mem}
        /\ pc' = "unsupported" => disk'[job] = mem
    BY <1>0, <2>1
  <2>4. StatedFiles'
    BY <1>0, <1>b, <1>c, <2>1, <2>3 DEF StatedFiles
  <2>5. StatedHand'
    BY <1>0, <1>b, <1>c, <2>1, <2>2, <2>3 DEF StatedHand, InHand
  <2>6. LeftStated' /\ RequestsClean'
    BY <1>0, <1>c, <2>1, <2>3 DEF LeftStated, RequestsClean, Recovery
  <2> QED
    BY <2>4, <2>5, <2>6 DEF TargetInv
<1>2. CASE CheckSupported
  <2>1. /\ pc = "unsupported" /\ pc' \in {"start", "worker_error"} /\ UNCHANGED <<mem, disk, node>>
        /\ run'.authorized = run.authorized
    BY <1>0, <1>2 DEF CheckSupported, Because, world, RunLocals
  <2>2. mem = Claimed /\ disk[job] = Claimed
    BY <1>0, <2>1 DEF StatedHand
  <2>4. StatedFiles'
    BY <1>0, <2>1 DEF StatedFiles
  <2>5. StatedHand'
    BY <1>0, <1>b, <2>1, <2>2, ClaimedIsProper DEF StatedHand, InHand
  <2>6. LeftStated' /\ RequestsClean'
    BY <1>0, <2>1 DEF LeftStated, RequestsClean, Recovery
  <2> QED
    BY <2>4, <2>5, <2>6 DEF TargetInv
<1>3. CASE ReloadRecord
  <2>1. /\ pc = "executed" /\ UNCHANGED <<disk, node>>
        /\ \/ mem' = disk[job] /\ pc' = "recover_target"
           \/ mem' = disk[job] /\ pc' = "settle" /\ ~run.execError
           \/ pc' = "hold_check"
    BY <1>3 DEF ReloadRecord, world
  <2>2. /\ Proper(disk[job]) /\ (disk[job].cleanup = "passed" => node[job] # "modified")
        /\ ~run.execError => disk[job].cleanup # "pending"
    BY <1>0, <2>1 DEF StatedFiles, StatedHand
  <2>4. StatedFiles'
    BY <1>0, <2>1 DEF StatedFiles
  <2>5. StatedHand'
    BY <1>0, <2>1, <2>2 DEF StatedHand, InHand
  <2>6. LeftStated' /\ RequestsClean'
    BY <1>0, <2>1 DEF LeftStated, RequestsClean, Recovery
  <2> QED
    BY <2>4, <2>5, <2>6 DEF TargetInv
<1>4. CASE Settle
  <2>1. /\ pc = "settle" /\ mem' = mem /\ pc' \in {"recover_target", "mark_hold", "deliver"}
    BY <1>4 DEF Settle
  <2>2. mem.cleanup # "pending"
    BY <1>0, <2>1 DEF StatedHand
  <2> QED
    BY <1>0, <1>b, <1>c, <2>1, <2>2, WriteStates
<1>5. CASE RecoverTarget
  <2>1. /\ pc = "recover_target" /\ mem' = mem
        /\ pc' \in {"recovered", "mark_hold", "recover_reconcile"}
        /\ pc' = "recovered" => CleanupSettled(mem)
    BY <1>5 DEF RecoverTarget, Save
  <2>2. pc' = "recovered" => Stated(mem)
    BY <2>1 DEF CleanupSettled, Stated
  <2> QED
    BY <1>0, <1>b, <1>c, <2>1, <2>2, WriteStates
<1>6. CASE RecoverReconcile
  <2>1. /\ pc = "recover_reconcile" /\ pc' = "recover_save" /\ UNCHANGED disk
        /\ \/ node' = [node EXCEPT ![job] = "restored"] /\ mem' = [mem EXCEPT !.cleanup = "passed"]
           \/ node' = [node EXCEPT ![job] = "modified"] /\ mem' = [mem EXCEPT !.cleanup = "failed"]
    BY <1>6 DEF RecoverReconcile, Reconcile
  <2>2. /\ mem'.cleanup \in {"passed", "failed"}
        /\ mem'.cleanup = "passed" => node'[job] # "modified"
        /\ \A j \in Jobs \ {job} : node'[j] = node[j]
    BY <1>0, <2>1 DEF RunRecords
  <2>3. disk[job].cleanup # "passed" /\ Free(job)
    BY <2>1 DEF CleanupInv, CleanupsKept, RecoveredAlone
  <2>4. StatedFiles'
    BY <1>0, <2>1, <2>2, <2>3 DEF StatedFiles
  <2>5. StatedHand'
    BY <1>0, <2>1, <2>2 DEF StatedHand, Stated, Proper
  <2>6. LeftStated'
    BY <1>0, <2>1 DEF LeftStated
  <2>7. RequestsClean'
    <3>1. \A o \in Operators : Recovery(o) => op[o].job \in Jobs \ {job}
      BY <2>3 DEF Free, MarkInv, RequestsCurrent
    <3> QED
      BY <1>0, <2>2, <3>1 DEF RequestsClean, Recovery
  <2> QED
    BY <2>4, <2>5, <2>6, <2>7 DEF TargetInv
<1>7. CASE RecoverSave
  <2>1. pc = "recover_save" /\ mem' = mem /\ pc' \in {"recovered", "mark_hold"}
    BY <1>7 DEF RecoverSave, Save
  <2>2. Stated(mem)
    BY <1>0, <2>1 DEF StatedHand
  <2> QED
    BY <1>0, <1>b, <1>c, <2>1, <2>2, WriteStates
<1>8. CASE Recovered
  <2>1. pc = "recovered" /\ mem' = mem /\ pc' \in {"worker_error", "release", "mark_hold"}
    BY <1>8 DEF Recovered
  <2>2. Stated(mem)
    BY <1>0, <2>1 DEF StatedHand
  <2> QED
    BY <1>0, <1>b, <1>c, <2>1, <2>2, WriteStates
<1>9. CASE SetWorkerError
  <2>1. /\ pc = "worker_error" /\ \E c \in ErrorCodes : mem' = WithWorkerError(mem, c)
        /\ pc' \in {"settle", "deliver", "hold_check"}
    BY <1>9 DEF SetWorkerError, SaveMem, Save, Typed, CauseKnown, WorkerErrorCode, ErrorCodes
  <2>2. Stated(mem)
    BY <1>0, <2>1 DEF StatedHand
  <2>3. /\ Proper(mem') /\ (mem'.cleanup = "passed" => mem.cleanup = "passed")
        /\ mem'.cleanup # "pending"
    BY <1>0, <1>b, <2>1, <2>2, CleanupEdits
  <2> QED
    BY <1>0, <1>b, <1>c, <2>1, <2>3, WriteStates DEF Stated
<1>10. CASE ReleaseClaim
  <2>1. /\ pc = "release" /\ mem' = WithReleasedClaim(mem) /\ pc' \in {"return_ok", "hold_check"}
        /\ pc' = "return_ok" => disk' = [disk EXCEPT ![job] = mem']
    BY <1>10 DEF ReleaseClaim, SaveMem, Save, Saved
  <2>2. Stated(mem)
    BY <1>0, <2>1 DEF StatedHand
  <2>3. Proper(mem') /\ mem'.cleanup = mem.cleanup /\ Stated(mem')
    BY <1>0, <1>b, <2>1, <2>2, CleanupEdits
  <2> QED
    BY <1>0, <1>b, <1>c, <2>1, <2>3, WriteStates
<1>11. CASE MarkHold
  <2>1. /\ pc = "mark_hold" /\ pc' = "hold_check"
        /\ mem' = [mem EXCEPT !.hold = IF run.why = "completion_conflict"
                                       THEN "completion_conflict" ELSE "cleanup"]
    BY <1>11 DEF MarkHold, SaveMem, Save
  <2>2. Proper(mem') /\ mem'.cleanup = mem.cleanup /\ ~Retired(mem')
    BY <1>0, <1>b, <2>1, CleanupEdits DEF Holds, Retired, Closed, RunRecords
  <2> QED
    BY <1>0, <1>b, <1>c, <2>1, <2>2, WriteStates
<1> QED
  BY <1>1, <1>2, <1>3, <1>4, <1>5, <1>6, <1>7, <1>8, <1>9, <1>10, <1>11 DEF Settlement

\* What is delivered has its cleanup behind it.
LEMMA DeliveryStates ==
    ASSUME Typed, MarkInv, AnswerInv, TargetInv, Delivery
    PROVE  TargetInv'
<1> USE DEF Step, ControllerPcs, SettlePcs, Worked, StatedPcs, OverPcs
<1>0. /\ pc \in {"deliver", "send", "ack"} /\ job \in Jobs /\ mem \in RunRecords
      /\ disk \in [Jobs -> RunRecords] /\ UNCHANGED <<job, op, node>>
      /\ disk' \in {disk, [disk EXCEPT ![job] = mem']}
      /\ StatedHand
  BY DEF Delivery, PrepareCompletion, SendAcknowledged, SendAnswerLost, SendConflict,
         SendRejected, PersistAcknowledgement, SaveMem, Save, Saved, SaveFails, local, world,
         Typed, TypeOK, JobInHand, TargetInv
<1>1. /\ Proper(mem) /\ (mem.cleanup = "passed" => node[job] # "modified")
      /\ mem.cleanup # "pending" /\ Live(mem) /\ ~Retired(mem)
  BY <1>0 DEF StatedHand, InHand, AnswerInv, Shapes, Live, Retired, Closed
<1>2. CASE PrepareCompletion
  <2>1. /\ pc' \in {"send", "hold_check"}
        /\ mem' = mem \/ mem' = [mem EXCEPT !.pending = CompletionBody(mem)]
    BY <1>1, <1>2 DEF PrepareCompletion, SaveMem, Save, Live
  <2>2. Proper(mem') /\ mem'.cleanup = mem.cleanup
    BY <1>0, <1>1, <2>1 DEF Proper, Concluded, RunRecords
  <2> QED
    BY <1>0, <1>1, <2>1, <2>2, WriteStates DEF Stated
<1>3. CASE SendAcknowledged \/ SendAnswerLost \/ SendConflict \/ SendRejected
  <2>1. mem' = mem /\ pc' \in {"ack", "send", "mark_hold", "hold_check"}
    BY <1>0, <1>3 DEF SendAcknowledged, SendAnswerLost, SendConflict, SendRejected, local
  <2> QED
    BY <1>0, <1>1, <2>1, WriteStates
<1>4. CASE PersistAcknowledgement
  <2>1. /\ mem' = WithAcknowledgement(mem) /\ pc' \in {"return_ok", "hold_check"}
        /\ pc' = "return_ok" => disk' = [disk EXCEPT ![job] = mem']
    BY <1>4 DEF PersistAcknowledgement, SaveMem, Save, Saved
  <2>2. Proper(mem') /\ mem'.cleanup = mem.cleanup
    BY <1>0, <1>1, <2>1, CleanupEdits
  <2> QED
    BY <1>0, <1>1, <2>1, <2>2, WriteStates DEF Stated
<1> QED
  BY <1>2, <1>3, <1>4 DEF Delivery

\* The records that need attention are finitely many: a step writes one file.
FewUnresolved == IsFiniteSet(Unresolved)

LEMMA FewStayUnresolved ==
    ASSUME Typed, MarkInv, FewUnresolved, [Next]_vars
    PROVE  FewUnresolved'
<1>0. /\ disk \in [Jobs -> RunRecords]
      /\ \A o \in Operators : Recovery(o) => op[o].job \in Jobs
      /\ pc \in Worked => job \in Jobs
  BY DEF Typed, TypeOK, JobInHand, Worked, MarkInv, RequestsCurrent
<1>1. disk' = disk \/ \E k \in Jobs : \E r : disk' = [disk EXCEPT ![k] = r]
  <2>1. CASE Controller
    BY <1>0, <2>1 DEF Controller, StartExecution, Preflight, PrepareBaseline, InstallBaseline, Mutate,
         PrepareCandidate, UpdateCandidate, GatherEvidence, BeginCleanup, AuthorizeCleanup,
         ControllerReconcile, SaveCleanup, FinishExecution, ExecutionSave, SaveFails, Saved,
         Step, Worked, ControllerPcs
  <2>2. CASE Settlement \/ Delivery
    BY <1>0, <2>2 DEF Settlement, CreateRecord, CheckSupported, ReloadRecord, Settle, RecoverTarget,
         RecoverReconcile, RecoverSave, Recovered, SetWorkerError, ReleaseClaim, MarkHold,
         Delivery, PrepareCompletion, SendAcknowledged, SendAnswerLost, SendConflict,
         SendRejected, PersistAcknowledgement, SaveMem, Save, SaveFails, Saved, Step, Worked, SettlePcs
  <2>3. CASE RunLoop
    BY <2>3 DEF RunLoop, ClaimJob, ClaimAnswerLost, ClaimUnresolved, ClaimRejected, ReturnOk, Recover,
         CheckForHold, WakeUp
  <2>4. CASE Operator
    BY <1>0, <2>4 DEF Operator, ReadyRequest, RecoveryRequest, RecoverySave, ReadyCall, Recovery
  <2>5. CASE \/ Heartbeat \/ Restart \/ UNCHANGED vars
             \/ \E j \in Jobs : CoordinatorReleases(j) \/ CoordinatorReinstates(j)
    BY <2>5 DEF Heartbeat, HeartbeatClaimLost, HeartbeatCancel, Restart, CoordinatorReleases,
         CoordinatorReinstates, vars
  <2> QED
    BY <2>1, <2>2, <2>3, <2>4, <2>5 DEF Next, Worker
<1>2. PICK k : Unresolved' \subseteq Unresolved \cup {k}
  BY <1>0, <1>1 DEF Unresolved
<1>3. IsFiniteSet(Unresolved \cup {k})
  BY FS_AddElement DEF FewUnresolved
<1> QED
  BY <1>2, <1>3, FS_Subset DEF FewUnresolved

\* The one record that needs attention.
LEMMA OneUnresolved ==
    ASSUME FewUnresolved, Cardinality(Unresolved) = 1, NEW j \in Unresolved
    PROVE  Unresolved = {j}
BY FS_Singleton DEF FewUnresolved

\* The worker turns to another job only with every cleanup stated.
LEMMA RunLoopStates ==
    ASSUME Typed, AnswerInv, FewUnresolved, TargetInv, RunLoop
    PROVE  TargetInv'
<1> USE DEF Step, ControllerPcs, SettlePcs, Worked, StatedPcs, OverPcs, InHand
<1>0. /\ disk \in [Jobs -> RunRecords] /\ UNCHANGED <<disk, op, node>>
      /\ StatedFiles /\ StatedHand /\ LeftStated /\ RequestsClean
  BY DEF RunLoop, ClaimJob, ClaimAnswerLost, ClaimUnresolved, ClaimRejected, ReturnOk, Recover,
         CheckForHold, WakeUp, world, Typed, TypeOK, TargetInv
<1>1. (StatedFiles /\ RequestsClean)'
  BY <1>0 DEF StatedFiles, RequestsClean, Recovery
<1>2. \A j \in Jobs : j \notin Unresolved => Stated(disk[j])
  BY <1>0, ShapeFacts DEF Unresolved, AnswerInv, Shapes, StatedFiles
<1>3. ASSUME NEW j \in Jobs, ClaimJob(j) PROVE TargetInv'
  <2>1. pc = "claim" /\ pc' = "create" /\ job' = j /\ mem' = Claimed
    BY <1>3 DEF ClaimJob
  <2>2. StatedHand'
    BY <1>0, <2>1, ClaimedIsProper DEF StatedHand
  <2>3. LeftStated'
    BY <1>0, <2>1 DEF LeftStated
  <2> QED
    BY <1>1, <2>2, <2>3 DEF TargetInv
<1>4. ASSUME NEW j \in Unresolved, Unresolved = {j}, RecoverWith(j) PROVE TargetInv'
  <2>1. /\ job' = j /\ j \in Jobs /\ disk[j] \in RunRecords
        /\ \/ pc' = "hold_check"
           \/ pc' = "deliver" /\ mem' = disk[j] /\ HasCompletion(disk[j])
           \/ pc' = "recover_target" /\ mem' = [disk[j] EXCEPT !.status = "interrupted"]
    BY <1>0, <1>4 DEF RecoverWith, Unresolved
  <2>2. /\ pc' # "hold_check" => Proper(mem') /\ mem'.cleanup = disk[j].cleanup
        /\ pc' = "deliver" => Concluded(disk[j])
    <3>1. Proper(disk[j])
      BY <1>0, <2>1 DEF StatedFiles
    <3> QED
      BY <2>1, <3>1, CleanupEdits DEF Statuses, HasCompletion, Concluded
  <2>3. StatedHand'
    BY <1>0, <2>1, <2>2 DEF StatedHand, StatedFiles, Proper
  <2>4. LeftStated'
    BY <1>0, <1>2, <1>4, <2>1 DEF LeftStated
  <2> QED
    BY <1>1, <2>3, <2>4 DEF TargetInv
<1>5. CASE UNCHANGED <<job, mem, run>> /\ pc' \notin Worked
           /\ (pc' \in {"claim", "return_ok"} => pc \in {"claim", "return_ok"} \/ Unresolved = {})
  <2>1. StatedHand'
    BY <1>0, <1>5 DEF StatedHand
  <2>2. LeftStated'
    BY <1>0, <1>2, <1>5 DEF LeftStated
  <2> QED
    BY <1>1, <2>1, <2>2 DEF TargetInv
<1>6. CASE ReturnOk \/ CheckForHold
  <2>1. pc' \notin Worked /\ (pc' = "claim" => pc = "return_ok") /\ pc' # "return_ok"
    BY <1>6 DEF ReturnOk, CheckForHold
  <2>2. StatedHand'
    BY <1>0, <2>1 DEF StatedHand
  <2>3. LeftStated'
    BY <1>0, <2>1 DEF LeftStated
  <2> QED
    BY <1>1, <2>2, <2>3 DEF TargetInv
<1>7. ASSUME NEW j \in Jobs, ClaimAnswerLost(j) PROVE TargetInv'
  BY <1>5, <1>7 DEF ClaimAnswerLost, local
<1>8. CASE ClaimUnresolved \/ ClaimRejected \/ WakeUp
  BY <1>5, <1>8 DEF ClaimUnresolved, ClaimRejected, WakeUp
<1>9. CASE Recover
  <2>1. \/ Unresolved = {} /\ pc' = "claim" /\ UNCHANGED <<job, mem, run>>
        \/ pc' = "hold_check" /\ UNCHANGED <<job, mem, run>>
        \/ \E j \in Unresolved : Unresolved = {j} /\ RecoverWith(j)
    BY <1>9, OneUnresolved DEF Recover
  <2> QED
    BY <1>4, <1>5, <2>1
<1> QED
  BY <1>3, <1>6, <1>7, <1>8, <1>9 DEF RunLoop

\* An operator confirms a cleanup only after restoring the target, and no
\* mutation of it can follow.
LEMMA OthersState ==
    ASSUME Typed, MarkInv, CleanupInv, AnswerInv, TargetInv,
           \/ Heartbeat \/ Operator \/ Restart
           \/ \E j \in Jobs : CoordinatorReleases(j) \/ CoordinatorReinstates(j)
    PROVE  TargetInv'
<1> USE DEF ControllerPcs, SettlePcs, Worked, StatedPcs, OverPcs, InHand
<1>0. /\ disk \in [Jobs -> RunRecords] /\ op \in [Operators -> Requests]
      /\ node \in [Jobs -> {"untouched", "modified", "restored"}]
      /\ StatedFiles /\ StatedHand /\ LeftStated /\ RequestsClean
      /\ pc \in Worked => job \in Jobs
      /\ \A o \in Operators : Recovery(o) => op[o].job \in Jobs
  BY DEF Typed, TypeOK, JobInHand, TargetInv, MarkInv, RequestsCurrent
<1>1. ASSUME NEW o \in Operators, NEW a \in RecoveryActions, NEW j \in Jobs,
             RecoveryRequest(o, a, j)
      PROVE  TargetInv'
  <2>1. /\ op' = [op EXCEPT ![o] = [action |-> a, job |-> j, snap |-> disk[j]]]
        /\ UNCHANGED <<pc, job, mem, run, disk>>
        /\ IF a \in {"continueAfterCleanup", "confirmCleanup"}
           THEN node' = [node EXCEPT ![j] = "restored"]
           ELSE node' = node /\ disk[j].cleanup \in {"passed", "skipped"}
    BY <1>1 DEF RecoveryRequest, RecoveryAllowed, RecoveryActions, local
  <2>2. \A p \in Operators :
            \/ p = o /\ op'[p] = [action |-> a, job |-> j, snap |-> disk[j]]
            \/ p # o /\ op'[p] = op[p]
    BY <1>0, <2>1
  <2>3. \A k \in Jobs : node[k] # "modified" => node'[k] # "modified"
    BY <1>0, <2>1
  <2>4. node'[j] # "modified"
    <3>1. a \notin {"continueAfterCleanup", "confirmCleanup"} => node[j] # "modified"
      BY <1>0, <2>1 DEF StatedFiles, Proper, MarkInv, FilesMarked
    <3> QED
      BY <1>0, <2>1, <3>1
  <2>5. StatedFiles' /\ LeftStated'
    BY <1>0, <2>1, <2>3 DEF StatedFiles, LeftStated
  <2>6. StatedHand'
    BY <1>0, <2>1, <2>3 DEF StatedHand
  <2>7. RequestsClean'
    <3>1. \A p \in Operators : Recovery(p)' => p = o \/ Recovery(p)
      BY <2>2 DEF Recovery
    <3>2. Proper(disk[j])
      BY <1>0 DEF StatedFiles
    <3>3. a \in {"retryCompletion", "acceptCoordinatorResult"} => disk[j].cleanup \in {"passed", "skipped"}
      BY <2>1
    <3> QED
      BY <1>0, <2>2, <2>3, <2>4, <3>1, <3>2, <3>3 DEF RequestsClean
  <2> QED
    BY <2>5, <2>6, <2>7 DEF TargetInv
<1>2. ASSUME NEW o \in Operators, RecoverySave(o) PROVE TargetInv'
  <2> DEFINE k == op[o].job
             snap == op[o].snap
             rec == RecoveryEdit(op[o].action, snap)
  <2>1. /\ op' = [op EXCEPT ![o] = NoRequest] /\ Recovery(o)
        /\ disk' \in {disk, [disk EXCEPT ![k] = rec]}
        /\ UNCHANGED <<pc, job, mem, run, node>>
    BY <1>2 DEF RecoverySave, Recovery, local, world
  <2>2. \A p \in Operators : Recovery(p)' => Recovery(p) /\ op'[p] = op[p]
    BY <1>0, <2>1 DEF Recovery, NoRequest, RecoveryActions
  <2>3. /\ k \in Jobs /\ snap \in RunRecords /\ Proper(snap) /\ node[k] # "modified"
        /\ op[o].action \in {"retryCompletion", "acceptCoordinatorResult"}
                => snap.cleanup \in {"passed", "skipped"}
        /\ \/ disk' = disk
           \/ disk'[k] = rec /\ \A j \in Jobs \ {k} : disk'[j] = disk[j]
    BY <1>0, <2>1 DEF Requests, RequestsClean
  <2>4. Proper(rec) /\ rec.cleanup # "pending"
    BY <2>1, <2>3 DEF RecoveryEdit, Recovery, RecoveryActions, Proper, Concluded, RunRecords
  <2> HIDE DEF rec
  \* The worker is not about to read this file.
  <2>5. pc \in {"unsupported", "start", "executed"} => disk'[job] = disk[job]
    <3>1. pc \in {"unsupported", "start", "executed"} => k # job
      BY <2>1 DEF MarkInv, ExecutionUndisturbed, Undisturbed, CleanupInv, RecoveredAlone, Free
    <3> QED
      BY <1>0, <2>3, <3>1
  <2>6. StatedFiles'
    BY <1>0, <2>1, <2>3, <2>4 DEF StatedFiles, Stated
  <2>7. StatedHand'
    BY <1>0, <2>1, <2>5 DEF StatedHand
  <2>8. LeftStated'
    BY <1>0, <2>1, <2>3, <2>4 DEF LeftStated, Stated
  <2>9. RequestsClean'
    BY <1>0, <2>1, <2>2 DEF RequestsClean
  <2> QED
    BY <2>6, <2>7, <2>8, <2>9 DEF TargetInv
<1>3. CASE /\ UNCHANGED <<disk, node>>
           /\ UNCHANGED <<pc, job, mem, run>> \/ pc' = "recover"
           /\ \A p \in Operators : Recovery(p)' => Recovery(p) /\ op'[p] = op[p]
  <2>1. StatedFiles' /\ LeftStated'
    BY <1>0, <1>3 DEF StatedFiles, LeftStated
  <2>2. StatedHand'
    BY <1>0, <1>3 DEF StatedHand
  <2>3. RequestsClean'
    BY <1>0, <1>3 DEF RequestsClean
  <2> QED
    BY <2>1, <2>2, <2>3 DEF TargetInv
<1>4. ASSUME NEW o \in Operators, NEW j \in Jobs, ReadyRequest(o, j)
      PROVE  TargetInv'
  <2>1. /\ op' = [op EXCEPT ![o] = [NoRequest EXCEPT !.action = "ready", !.job = j]]
        /\ UNCHANGED <<pc, job, mem, run, disk, node>>
    BY <1>4 DEF ReadyRequest, local, world
  <2>2. \A p \in Operators : Recovery(p)' => Recovery(p) /\ op'[p] = op[p]
    BY <1>0, <2>1 DEF Recovery, NoRequest, RecoveryActions
  <2> QED
    BY <1>3, <2>1, <2>2
<1>5. ASSUME NEW o \in Operators, ReadyCall(o) PROVE TargetInv'
  <2>1. /\ op' = [op EXCEPT ![o] = NoRequest] /\ UNCHANGED <<pc, job, mem, run, disk, node>>
    BY <1>5 DEF ReadyCall, local
  <2>2. \A p \in Operators : Recovery(p)' => Recovery(p) /\ op'[p] = op[p]
    BY <1>0, <2>1 DEF Recovery, NoRequest, RecoveryActions
  <2> QED
    BY <1>3, <2>1, <2>2
<1>6. CASE Restart
  <2>1. /\ pc' = "recover" /\ UNCHANGED <<disk, node>> /\ op' = [o \in Operators |-> NoRequest]
    BY <1>6 DEF Restart, world
  <2>2. \A p \in Operators : ~Recovery(p)'
    BY <2>1 DEF Recovery, NoRequest, RecoveryActions
  <2> QED
    BY <1>3, <2>1, <2>2
<1>7. CASE \/ Heartbeat
           \/ \E j \in Jobs : CoordinatorReleases(j) \/ CoordinatorReinstates(j)
  <2>1. UNCHANGED <<pc, job, mem, run, disk, node, op>>
    BY <1>7 DEF Heartbeat, HeartbeatClaimLost, HeartbeatCancel, CoordinatorReleases,
       CoordinatorReinstates, local, world
  <2> QED
    BY <1>3, <2>1 DEF Recovery
<1> QED
  BY <1>1, <1>2, <1>4, <1>5, <1>6, <1>7 DEF Operator

\* What became of a target is stated before its job is given up.
THEOREM TargetInvariant ==
    Spec => [](Typed /\ MarkInv /\ CleanupInv /\ AnswerInv /\ FewUnresolved /\ TargetInv)
<1>1. Init => FewUnresolved /\ TargetInv
  <2> SUFFICES ASSUME Init PROVE FewUnresolved /\ TargetInv
    OBVIOUS
  <2>1. /\ pc = "recover" /\ \A o \in Operators : ~Recovery(o)
        /\ \A j \in Jobs : disk[j] = NoRecord
    BY DEF Init, Recovery, NoRequest, RecoveryActions
  <2>2. Unresolved = {}
    BY <2>1 DEF Unresolved, RequiresWorkerAttention, NoRecord
  <2>3. FewUnresolved
    BY <2>2, FS_EmptySet DEF FewUnresolved
  <2> QED
    BY <2>1, <2>3 DEF TargetInv, StatedFiles, StatedHand, LeftStated, RequestsClean, NoRecord,
       Proper, Concluded, Stated, InHand, Worked, ControllerPcs, SettlePcs, StatedPcs, OverPcs
<1>2. /\ Typed /\ MarkInv /\ CleanupInv /\ AnswerInv /\ (MarkInv)' /\ (AnswerInv)'
      /\ FewUnresolved /\ TargetInv /\ [Next]_vars
      => (FewUnresolved /\ TargetInv)'
  <2>1. CASE UNCHANGED vars
    BY <2>1, FewStayUnresolved DEF TargetInv, StatedFiles, StatedHand, LeftStated, RequestsClean,
       Recovery, vars, local, world
  <2> QED
    BY <2>1, FewStayUnresolved, ControllerStates, SettlementStates, DeliveryStates, RunLoopStates,
       OthersState DEF Next, Worker
<1> QED
  BY <1>1, <1>2, AnswerInvariant, PTL DEF Spec

(***************************************************************************)
(* Whatever fails and whoever interferes, when the worker asks for the     *)
(* next job, a target it left changed has its failed cleanup on record.    *)
(***************************************************************************)
THEOREM DirtyTargetsRecorded == Spec => []DirtyTargetIsOnRecord
<1>1. Typed /\ MarkInv /\ TargetInv => DirtyTargetIsOnRecord
  <2> SUFFICES ASSUME Typed, MarkInv, TargetInv, pc = "claim", NEW j \in Jobs, node[j] = "modified"
               PROVE  disk[j].cleanup = "failed"
    BY DEF DirtyTargetIsOnRecord
  <2>1. disk[j].cleanupRequired /\ disk[j].cleanup \in Cleanups
    BY DEF MarkInv, FilesMarked, Typed, TypeOK, RunRecords
  <2>2. /\ Proper(disk[j]) /\ disk[j].cleanup # "passed" /\ Stated(disk[j])
    BY DEF TargetInv, StatedFiles, LeftStated
  <2> QED
    BY <2>1, <2>2 DEF Proper, Stated, Cleanups
<1> QED
  BY <1>1, TargetInvariant, PTL

--------------------------------------------------------------------------------
(***************************************************************************)
(* Every hold has a remedy.  A record is remediable when some recovery     *)
(* action is accepted for whatever hold it has, and the cleanup status it  *)
(* quotes is one an action accepts.                                        *)
(***************************************************************************)
ConflictRemedy(r) == r.pending # NoOutcome /\ (r.cleanupRequired \/ r.cleanup = "skipped")

Remediable(r) ==
    /\ r.cleanup \in {"passed", "failed"} => r.cleanupRequired
    /\ r.hold = "cleanup" => r.cleanupRequired
    /\ r.hold = "completion_conflict" => ConflictRemedy(r)

RemedyInv ==
    /\ \A j \in Jobs : Remediable(disk[j])
    /\ pc \in InHand => Remediable(mem)
    /\ \A o \in Operators : Recovery(o) => Remediable(op[o].snap)
    /\ pc \in Worked /\ run.why = "completion_conflict" => pc = "mark_hold"
    /\ pc = "mark_hold" => IF run.why = "completion_conflict" THEN ConflictRemedy(mem)
                           ELSE mem.cleanupRequired

\* No edit of a record takes the remedy away.
LEMMA RemedyEdits ==
    ASSUME NEW r \in RunRecords, Remediable(r)
    PROVE  /\ \A f \in BOOLEAN : Remediable(WithResult(r, f))
           /\ \A c \in ErrorCodes : Remediable(WithWorkerError(r, c))
           /\ \A s \in Statuses : Remediable([r EXCEPT !.status = s])
           /\ \A p \in Plans : Remediable([r EXCEPT !.plan = p])
           /\ \A b \in Bodies : Remediable([r EXCEPT !.pending = b])
           /\ Remediable([r EXCEPT !.cleanupRequired = TRUE])
           /\ Remediable([r EXCEPT !.cleanup = "skipped"])
           /\ r.cleanupRequired => \A c \in Cleanups : Remediable([r EXCEPT !.cleanup = c])
           /\ Remediable(WithAcknowledgement(r)) /\ Remediable(WithReleasedClaim(r))
           /\ \A a \in RecoveryActions :
                (a \in {"continueAfterCleanup", "confirmCleanup"} => r.cleanupRequired)
                    => Remediable(RecoveryEdit(a, r))
<1> USE DEF Remediable, ConflictRemedy
<1>1. /\ \A f \in BOOLEAN : Remediable(WithResult(r, f))
      /\ \A s \in Statuses : Remediable([r EXCEPT !.status = s])
      /\ \A p \in Plans : Remediable([r EXCEPT !.plan = p])
  BY DEF WithResult, RunRecords
<1>2. \A c \in ErrorCodes : Remediable(WithWorkerError(r, c))
  BY DEF WithWorkerError, WorkerErrorCleanup, RunRecords
<1>3. \A b \in Bodies : Remediable([r EXCEPT !.pending = b])
  BY DEF RunRecords, Bodies, Results, WorkerErrors, NoOutcome
<1>4. /\ Remediable([r EXCEPT !.cleanupRequired = TRUE])
      /\ Remediable([r EXCEPT !.cleanup = "skipped"])
      /\ r.cleanupRequired => \A c \in Cleanups : Remediable([r EXCEPT !.cleanup = c])
  BY DEF RunRecords
<1>5. Remediable(WithAcknowledgement(r)) /\ Remediable(WithReleasedClaim(r))
  BY DEF WithAcknowledgement, WithReleasedClaim, RunRecords
<1>6. \A a \in RecoveryActions :
          (a \in {"continueAfterCleanup", "confirmCleanup"} => r.cleanupRequired)
              => Remediable(RecoveryEdit(a, r))
  BY DEF RecoveryEdit, RecoveryActions, RunRecords
<1> QED
  BY <1>1, <1>2, <1>3, <1>4, <1>5, <1>6

\* What a step of the worker has to establish.
LEMMA WriteRemedies ==
    ASSUME RemedyInv, job \in Jobs, disk \in [Jobs -> RunRecords], UNCHANGED <<op, job>>,
           NEW rec, disk' \in {disk, [disk EXCEPT ![job] = rec]}, Remediable(rec),
           pc' \in InHand => Remediable(mem'),
           pc' \in Worked => run'.why # "completion_conflict" \/ pc' = "mark_hold",
           pc' = "mark_hold" => IF run'.why = "completion_conflict" THEN ConflictRemedy(mem')
                                ELSE mem'.cleanupRequired
    PROVE  RemedyInv'
<1>1. \A j \in Jobs : Remediable(disk'[j])
  BY DEF RemedyInv
<1> QED
  BY <1>1 DEF RemedyInv, Recovery

\* The controller writes no hold and keeps what a remedy needs.
LEMMA ControllerRemedies ==
    ASSUME Typed, MarkInv, (MarkInv)', RemedyInv, AnswerInv, Controller
    PROVE  RemedyInv'
<1> USE DEF Step, ControllerPcs, SettlePcs, Worked, InHand
<1>0. /\ pc \in ControllerPcs /\ job \in Jobs /\ pc' \in ControllerPcs \cup {"executed"}
      /\ mem \in RunRecords /\ disk \in [Jobs -> RunRecords] /\ run \in RunLocals
      /\ disk[job] \in RunRecords /\ UNCHANGED <<job, op>>
  BY ControllerFrame
<1>1. /\ run'.why = run.why /\ run.why # "completion_conflict"
      /\ Remediable(mem) /\ Remediable(disk[job])
  BY <1>0, ControllerWrites DEF RemedyInv
<1> DEFINE started == [disk[job] EXCEPT !.status = "running"]
           planned == [mem EXCEPT !.plan = RightPlan(job)]
           marked == [mem EXCEPT !.cleanupRequired = TRUE]
           skipped == [mem EXCEPT !.cleanup = "skipped"]
           ended == WithResult(mem, run.failed)
<1>2. /\ Remediable(started) /\ Remediable(planned) /\ Remediable(marked)
      /\ Remediable(skipped) /\ Remediable(ended)
  BY <1>0, <1>1, RemedyEdits DEF Statuses, Plans, RightPlan, RunLocals
<1>3. /\ \E rec \in {mem, started, planned, marked, ended} :
            disk' \in {disk, [disk EXCEPT ![job] = rec]}
      /\ \/ pc' = "executed"
         \/ mem' \in {mem, started, planned, marked, skipped}
         \/ pc = "reconcile" /\ \E c \in Cleanups : mem' = [mem EXCEPT !.cleanup = c]
  BY DEF Controller, StartExecution, Preflight, PrepareBaseline, InstallBaseline, Mutate,
         PrepareCandidate, UpdateCandidate, GatherEvidence, BeginCleanup,
         AuthorizeCleanup, ControllerReconcile, Reconcile, SaveCleanup, FinishExecution,
         ExecutionSave, SaveFails, Saved, world, Cleanups
<1>4. pc' # "executed" => Remediable(mem')
  <2>1. ASSUME pc = "reconcile", NEW c \in Cleanups PROVE Remediable([mem EXCEPT !.cleanup = c])
    <3>1. mem.cleanupRequired
      BY <2>1 DEF MarkInv, Armed
    <3> QED
      BY <1>0, <1>1, <3>1, RemedyEdits
  <2> QED
    BY <1>1, <1>2, <1>3, <2>1
<1>5. PICK rec \in {mem, started, planned, marked, ended} :
          disk' \in {disk, [disk EXCEPT ![job] = rec]}
  BY <1>3
<1>6. Remediable(rec)
  BY <1>1, <1>2
<1> HIDE DEF started, planned, marked, skipped, ended
<1> QED
  BY <1>0, <1>1, <1>4, <1>5, <1>6, WriteRemedies

\* The worker puts a job on hold for a cleanup that is required, and for a
\* conflict about an outcome whose cleanup is over.
LEMMA SettlementRemedies ==
    ASSUME {"save_lost", "save_unsynced"} \cap Faults = {},
           Typed, MarkInv, CleanupInv, AnswerInv, RemedyInv, Settlement
    PROVE  RemedyInv'
<1> USE DEF Step, ControllerPcs, SettlePcs, Worked, InHand
<1>0. /\ pc \in SettlePcs /\ job \in Jobs /\ mem \in RunRecords /\ disk[job] \in RunRecords
      /\ disk \in [Jobs -> RunRecords] /\ run \in RunLocals
      /\ UNCHANGED <<job, op>>
      /\ disk' \in {disk, [disk EXCEPT ![job] = mem']}
      /\ Remediable(disk[job]) /\ (pc # "executed" => Remediable(mem))
      /\ pc # "mark_hold" => run.why # "completion_conflict"
  BY DEF Settlement, CreateRecord, CheckSupported, ReloadRecord, Settle, RecoverTarget,
         RecoverReconcile, RecoverSave, Recovered, SetWorkerError, ReleaseClaim, MarkHold,
         Save, SaveMem, Saved, SaveFails, Typed, TypeOK, JobInHand, RemedyInv
\* The steps that put nothing on hold.
<1>a. ASSUME Remediable(mem'), pc' # "mark_hold",
             pc' \in Worked => run'.why # "completion_conflict"
      PROVE  RemedyInv'
  BY <1>0, <1>a, WriteRemedies
<1>1. CASE CreateRecord \/ CheckSupported
  <2>1. /\ mem' = mem /\ pc # "executed" /\ pc' # "mark_hold" /\ pc # "mark_hold"
        /\ run'.why \in {run.why, "unsupported_job", "unexpected_error"}
    BY <1>0, <1>1 DEF CreateRecord, CheckSupported, Save, Because, RunLocals
  <2> QED
    BY <1>0, <1>a, <2>1
<1>2. CASE ReloadRecord
  <2>1. /\ pc = "executed" /\ UNCHANGED disk /\ pc' \in {"recover_target", "settle", "hold_check"}
        /\ pc' # "hold_check" => mem' = disk[job]
        /\ run'.why \in {run.why, "exec_error"}
    BY <1>0, <1>2 DEF ReloadRecord, Because, RunLocals
  <2> QED
    BY <1>0, <2>1, WriteRemedies
<1>3. CASE Settle
  <2>1. /\ pc = "settle" /\ UNCHANGED <<mem, disk>> /\ pc' \in {"recover_target", "mark_hold", "deliver"}
        /\ run'.why \in {run.why, "claim_lost"}
        /\ pc' = "mark_hold" => mem.cleanup = "failed"
    BY <1>0, <1>3 DEF Settle, Because, CleanupFailed, RunLocals
  <2>2. pc' = "mark_hold" => mem'.cleanupRequired
    BY <1>0, <2>1 DEF Remediable
  <2> QED
    BY <1>0, <2>1, <2>2, WriteRemedies
<1>4. CASE RecoverTarget
  <2>1. /\ pc = "recover_target" /\ UNCHANGED <<mem, run>>
        /\ pc' \in {"recovered", "mark_hold", "recover_reconcile"}
        /\ pc' = "mark_hold" => mem.cleanupRequired
    BY <1>4 DEF RecoverTarget, Save, SaveFails, CleanupSettled
  <2> QED
    BY <1>0, <2>1, WriteRemedies
<1>5. CASE RecoverReconcile
  <2>1. /\ pc = "recover_reconcile" /\ pc' = "recover_save" /\ UNCHANGED <<disk, run>>
        /\ \E c \in Cleanups : mem' = [mem EXCEPT !.cleanup = c]
    BY <1>5 DEF RecoverReconcile, Reconcile, Cleanups
  <2>2. mem.cleanupRequired
    BY <2>1 DEF MarkInv, Armed
  <2>3. Remediable(mem')
    BY <1>0, <2>1, <2>2, RemedyEdits
  <2> QED
    BY <1>0, <1>a, <2>1, <2>3
<1>6. CASE RecoverSave
  <2>1. pc = "recover_save" /\ UNCHANGED <<mem, run>> /\ pc' = "recovered"
    BY <1>6 DEF RecoverSave, Save, SaveFails
  <2> QED
    BY <1>0, <1>a, <2>1
<1>7. CASE Recovered
  <2>1. /\ pc = "recovered" /\ UNCHANGED <<mem, run>> /\ pc' \in {"worker_error", "release", "mark_hold"}
        /\ pc' = "mark_hold" => mem.cleanup = "failed"
    BY <1>7 DEF Recovered, CleanupFailed
  <2>2. pc' = "mark_hold" => mem.cleanupRequired
    BY <1>0, <2>1 DEF Remediable
  <2> QED
    BY <1>0, <2>1, <2>2, WriteRemedies
<1>8. CASE SetWorkerError
  <2>1. /\ pc = "worker_error" /\ \E c \in ErrorCodes : mem' = WithWorkerError(mem, c)
        /\ pc' \in {"settle", "deliver", "hold_check"} /\ UNCHANGED run
    BY <1>8 DEF SetWorkerError, SaveMem, Save, Typed, CauseKnown, WorkerErrorCode, ErrorCodes
  <2>2. Remediable(mem')
    BY <1>0, <2>1, RemedyEdits
  <2> QED
    BY <1>0, <1>a, <2>1, <2>2
<1>9. CASE ReleaseClaim
  <2>1. /\ pc = "release" /\ mem' = WithReleasedClaim(mem) /\ pc' \in {"return_ok", "hold_check"}
    BY <1>9 DEF ReleaseClaim, SaveMem, Save
  <2>2. Remediable(mem')
    BY <1>0, <2>1, RemedyEdits
  <2> QED
    BY <1>0, <1>a, <2>1, <2>2
<1>10. CASE MarkHold
  <2>1. /\ pc = "mark_hold" /\ pc' = "hold_check"
        /\ mem' = [mem EXCEPT !.hold = IF run.why = "completion_conflict"
                                       THEN "completion_conflict" ELSE "cleanup"]
    BY <1>10 DEF MarkHold, SaveMem, Save
  <2>2. IF run.why = "completion_conflict" THEN ConflictRemedy(mem) ELSE mem.cleanupRequired
    BY <2>1 DEF RemedyInv
  <2>3. Remediable(mem')
    BY <1>0, <2>1, <2>2 DEF Remediable, ConflictRemedy, RunRecords
  <2> QED
    BY <1>0, <1>a, <2>1, <2>3
<1> QED
  BY <1>1, <1>2, <1>3, <1>4, <1>5, <1>6, <1>7, <1>8, <1>9, <1>10 DEF Settlement

\* A delivery is held only for the bytes it has.
LEMMA DeliveryRemedies ==
    ASSUME Typed, AnswerInv, TargetInv, RemedyInv, Delivery
    PROVE  RemedyInv'
<1> USE DEF Step, ControllerPcs, SettlePcs, Worked, InHand
<1>0. /\ pc \in {"deliver", "send", "ack"} /\ job \in Jobs /\ mem \in RunRecords
      /\ disk \in [Jobs -> RunRecords] /\ run \in RunLocals /\ UNCHANGED <<job, op>>
      /\ disk' \in {disk, [disk EXCEPT ![job] = mem']}
      /\ Remediable(mem) /\ run.why # "completion_conflict"
  BY DEF Delivery, PrepareCompletion, SendAcknowledged, SendAnswerLost, SendConflict,
         SendRejected, PersistAcknowledgement, SaveMem, Save, Saved, SaveFails, local,
         Typed, TypeOK, JobInHand, RemedyInv
<1>1. CASE PrepareCompletion
  <2>1. /\ pc' \in {"send", "hold_check"} /\ UNCHANGED run
        /\ \/ mem' = mem
           \/ CanPrepareCompletion(mem) /\ mem' = [mem EXCEPT !.pending = CompletionBody(mem)]
    BY <1>0, <1>1 DEF PrepareCompletion, SaveMem, Save, AnswerInv, Shapes, Live
  <2>2. CanPrepareCompletion(mem) => CompletionBody(mem) \in Bodies
    BY <1>0, CompletionBodyType
  <2>3. Remediable(mem')
    BY <1>0, <2>1, <2>2, RemedyEdits
  <2> QED
    BY <1>0, <2>1, <2>3, WriteRemedies
<1>2. CASE SendConflict
  <2>1. /\ pc = "send" /\ mem' = mem /\ pc' = "mark_hold" /\ run'.why = "completion_conflict"
    BY <1>0, <1>2 DEF SendConflict, Because, RunLocals
  <2>2. mem.pending \in Bodies /\ mem.cleanup # "pending"
    BY <2>1 DEF Typed, BodyInHand, TargetInv, StatedHand, OverPcs
  <2>3. ConflictRemedy(mem)
    BY <1>0, <2>2 DEF ConflictRemedy, Remediable, RunRecords, Cleanups, Bodies, Results,
       WorkerErrors, NoOutcome
  <2> QED
    BY <1>0, <2>1, <2>3, WriteRemedies
<1>3. CASE SendAcknowledged \/ SendAnswerLost \/ SendRejected
  <2>1. mem' = mem /\ UNCHANGED run /\ pc' \in {"ack", "send", "hold_check"}
    BY <1>0, <1>3 DEF SendAcknowledged, SendAnswerLost, SendRejected, local
  <2> QED
    BY <1>0, <2>1, WriteRemedies
<1>4. CASE PersistAcknowledgement
  <2>1. mem' = WithAcknowledgement(mem) /\ pc' \in {"return_ok", "hold_check"}
    BY <1>4 DEF PersistAcknowledgement, SaveMem, Save
  <2>2. Remediable(mem')
    BY <1>0, <2>1, RemedyEdits
  <2> QED
    BY <1>0, <2>1, <2>2, WriteRemedies
<1> QED
  BY <1>1, <1>2, <1>3, <1>4 DEF Delivery

\* A recovery takes over the remedy of the file it reads.
LEMMA RunLoopRemedies ==
    ASSUME Typed, AnswerInv, RemedyInv, RunLoop
    PROVE  RemedyInv'
<1> USE DEF Step, ControllerPcs, SettlePcs, Worked, InHand
<1>0. disk \in [Jobs -> RunRecords] /\ UNCHANGED <<disk, op>>
  BY DEF RunLoop, ClaimJob, ClaimAnswerLost, ClaimUnresolved, ClaimRejected, ReturnOk, Recover,
         CheckForHold, WakeUp, Typed, TypeOK
<1>1. ASSUME NEW j \in Jobs, ClaimJob(j) PROVE RemedyInv'
  <2>1. pc = "claim" /\ pc' = "create" /\ mem' = Claimed /\ run' = run
    BY <1>1 DEF ClaimJob
  <2>2. run.why = "none"
    BY <2>1 DEF AnswerInv, Fresh, NoRun
  <2>3. Remediable(Claimed)
    BY DEF Claimed, NoRecord, Remediable
  <2> QED
    BY <1>0, <2>1, <2>2, <2>3 DEF RemedyInv, Recovery
<1>2. ASSUME NEW j \in Unresolved, RecoverWith(j) PROVE RemedyInv'
  <2>1. /\ j \in Jobs /\ disk[j] \in RunRecords /\ Remediable(disk[j])
        /\ pc' \in {"hold_check", "deliver", "recover_target"}
        /\ run'.why \in {"none", "interrupted"}
        /\ pc' # "hold_check" => mem' \in {disk[j], [disk[j] EXCEPT !.status = "interrupted"]}
    BY <1>0, <1>2 DEF RecoverWith, Unresolved, NoRun, RemedyInv
  <2>2. pc' # "hold_check" => Remediable(mem')
    BY <2>1, RemedyEdits DEF Statuses
  <2> QED
    BY <1>0, <2>1, <2>2 DEF RemedyInv, Recovery
<1>3. CASE pc' \notin Worked
  BY <1>0, <1>3 DEF RemedyInv, Recovery
<1>4. ASSUME NEW j \in Jobs, ClaimAnswerLost(j) PROVE RemedyInv'
  BY <1>3, <1>4 DEF ClaimAnswerLost, local
<1>5. CASE ClaimUnresolved \/ ClaimRejected \/ WakeUp \/ ReturnOk \/ CheckForHold
  BY <1>3, <1>5 DEF ClaimUnresolved, ClaimRejected, WakeUp, ReturnOk, CheckForHold
<1>6. CASE Recover
  BY <1>2, <1>3, <1>6 DEF Recover
<1> QED
  BY <1>1, <1>4, <1>5, <1>6 DEF RunLoop

\* An operator's edit leaves a remedy for the hold it does not clear.
LEMMA OthersRemedy ==
    ASSUME Typed, MarkInv, CleanupInv, RemedyInv,
           \/ Heartbeat \/ Operator \/ Restart
           \/ \E j \in Jobs : CoordinatorReleases(j) \/ CoordinatorReinstates(j)
    PROVE  RemedyInv'
<1> USE DEF ControllerPcs, SettlePcs, Worked, InHand
<1>0. /\ disk \in [Jobs -> RunRecords] /\ op \in [Operators -> Requests]
      /\ \A o \in Operators : Recovery(o) => op[o].job \in Jobs
  BY DEF Typed, TypeOK, MarkInv, RequestsCurrent
<1>1. ASSUME NEW o \in Operators, NEW a \in RecoveryActions, NEW j \in Jobs,
             RecoveryRequest(o, a, j)
      PROVE  RemedyInv'
  <2>1. /\ op' = [op EXCEPT ![o] = [action |-> a, job |-> j, snap |-> disk[j]]]
        /\ UNCHANGED <<pc, job, mem, run, disk>>
    BY <1>1 DEF RecoveryRequest, local
  <2>2. \A p \in Operators :
            \/ p = o /\ op'[p].snap = disk[j]
            \/ p # o /\ op'[p] = op[p]
    BY <1>0, <2>1
  <2> QED
    BY <1>0, <2>1, <2>2 DEF RemedyInv, Recovery
<1>2. ASSUME NEW o \in Operators, RecoverySave(o) PROVE RemedyInv'
  <2> DEFINE k == op[o].job
             snap == op[o].snap
             rec == RecoveryEdit(op[o].action, snap)
  <2>1. /\ op' = [op EXCEPT ![o] = NoRequest] /\ Recovery(o)
        /\ disk' \in {disk, [disk EXCEPT ![k] = rec]}
        /\ UNCHANGED <<pc, job, mem, run>>
    BY <1>2 DEF RecoverySave, Recovery, local
  <2>2. \A p \in Operators : Recovery(p)' => Recovery(p) /\ op'[p] = op[p]
    BY <1>0, <2>1 DEF Recovery, NoRequest, RecoveryActions
  <2>3. /\ k \in Jobs /\ snap \in RunRecords /\ Remediable(snap)
        /\ op[o].action \in RecoveryActions
        /\ op[o].action \in {"continueAfterCleanup", "confirmCleanup"} => snap.cleanupRequired
    BY <1>0, <2>1 DEF Requests, RemedyInv, CleanupInv, RequestsJustified, Recovery
  <2>4. Remediable(rec)
    BY <2>3, RemedyEdits
  <2> HIDE DEF rec
  <2>5. \A j \in Jobs : Remediable(disk'[j])
    BY <1>0, <2>1, <2>3, <2>4 DEF RemedyInv
  <2> QED
    BY <2>1, <2>2, <2>5 DEF RemedyInv
<1>3. CASE /\ UNCHANGED disk
           /\ UNCHANGED <<pc, mem, run>> \/ pc' = "recover"
           /\ \A p \in Operators : Recovery(p)' => Recovery(p) /\ op'[p] = op[p]
  BY <1>3 DEF RemedyInv
<1>4. ASSUME NEW o \in Operators, NEW j \in Jobs, ReadyRequest(o, j)
      PROVE  RemedyInv'
  <2>1. /\ op' = [op EXCEPT ![o] = [NoRequest EXCEPT !.action = "ready", !.job = j]]
        /\ UNCHANGED <<pc, mem, run, disk>>
    BY <1>4 DEF ReadyRequest, local
  <2>2. \A p \in Operators : Recovery(p)' => Recovery(p) /\ op'[p] = op[p]
    BY <1>0, <2>1 DEF Recovery, NoRequest, RecoveryActions
  <2> QED
    BY <1>3, <2>1, <2>2
<1>5. ASSUME NEW o \in Operators, ReadyCall(o) PROVE RemedyInv'
  <2>1. /\ op' = [op EXCEPT ![o] = NoRequest] /\ UNCHANGED <<pc, mem, run, disk>>
    BY <1>5 DEF ReadyCall, local
  <2>2. \A p \in Operators : Recovery(p)' => Recovery(p) /\ op'[p] = op[p]
    BY <1>0, <2>1 DEF Recovery, NoRequest, RecoveryActions
  <2> QED
    BY <1>3, <2>1, <2>2
<1>6. CASE Restart
  <2>1. /\ pc' = "recover" /\ UNCHANGED disk /\ op' = [o \in Operators |-> NoRequest]
    BY <1>6 DEF Restart
  <2>2. \A p \in Operators : ~Recovery(p)'
    BY <2>1 DEF Recovery, NoRequest, RecoveryActions
  <2> QED
    BY <1>3, <2>1, <2>2
<1>7. CASE \/ Heartbeat
           \/ \E j \in Jobs : CoordinatorReleases(j) \/ CoordinatorReinstates(j)
  <2>1. UNCHANGED <<pc, mem, run, disk, op>>
    BY <1>7 DEF Heartbeat, HeartbeatClaimLost, HeartbeatCancel, CoordinatorReleases,
       CoordinatorReinstates, local
  <2> QED
    BY <1>3, <2>1 DEF Recovery
<1> QED
  BY <1>1, <1>2, <1>4, <1>5, <1>6, <1>7 DEF Operator

(***************************************************************************)
(* While saves succeed, every hold on disk has a recovery action that the  *)
(* endpoints accept, however operators race.  A save that fails while a    *)
(* target without required cleanup is recovered leaves a hold that none    *)
(* clears: the run hold_without_remedy.                                    *)
(***************************************************************************)
THEOREM HoldsHaveRemedies ==
    ASSUME {"save_lost", "save_unsynced"} \cap Faults = {}
    PROVE  Spec => []HoldHasRemedy
<1>1. Init => RemedyInv
  <2> SUFFICES ASSUME Init PROVE RemedyInv
    OBVIOUS
  <2>1. /\ pc = "recover" /\ \A o \in Operators : ~Recovery(o)
        /\ \A j \in Jobs : disk[j] = NoRecord
    BY DEF Init, Recovery, NoRequest, RecoveryActions
  <2> QED
    BY <2>1 DEF RemedyInv, Remediable, NoRecord, InHand, Worked, ControllerPcs, SettlePcs
<1>2. /\ Typed /\ MarkInv /\ (MarkInv)' /\ CleanupInv /\ AnswerInv /\ TargetInv
      /\ RemedyInv /\ [Next]_vars
      => RemedyInv'
  <2>1. CASE UNCHANGED vars
    BY <2>1 DEF RemedyInv, Recovery, vars, local
  <2> QED
    BY <2>1, ControllerRemedies, SettlementRemedies, DeliveryRemedies, RunLoopRemedies,
       OthersRemedy DEF Next, Worker
<1>3. Typed /\ RemedyInv => HoldHasRemedy
  <2> SUFFICES ASSUME Typed, RemedyInv, NEW j \in Jobs, disk[j].hold # "none"
               PROVE  \E a \in RecoveryActions : RecoveryAllowed(a, disk[j])
    BY DEF HoldHasRemedy
  <2>1. disk[j].hold \in {"cleanup", "completion_conflict"} /\ Remediable(disk[j])
    BY DEF Typed, TypeOK, RunRecords, Holds, RemedyInv
  <2>2. CASE disk[j].cleanupRequired
    BY <2>2 DEF RecoveryAllowed, RecoveryActions
  <2>3. CASE ~disk[j].cleanupRequired
    <3>1. RecoveryAllowed("retryCompletion", disk[j])
      BY <2>1, <2>3 DEF Remediable, ConflictRemedy, RecoveryAllowed
    <3> QED
      BY <3>1 DEF RecoveryActions
  <2> QED
    BY <2>2, <2>3
<1> QED
  BY <1>1, <1>2, <1>3, TargetInvariant, PTL DEF Spec

--------------------------------------------------------------------------------
(***************************************************************************)
(* Pending bytes are kept.  The worker is alone with a file as long as it  *)
(* has no bytes in hand; once it carries some, every copy that may still   *)
(* be written has bytes as well, the same ones by DecidedOnce.             *)
(***************************************************************************)
Carried == pc \in InHand /\ mem.pending # NoOutcome

AloneWithoutBytes ==
    pc = "executed" \/ (pc \in InHand /\ ~Carried) => Free(job) /\ disk[job].pending = NoOutcome

BytesOnDisk == Carried => disk[job].pending # NoOutcome \/ Retired(disk[job])

BytesInRequests ==
    \A o \in Operators : Recovery(o) =>
        /\ disk[op[o].job].hold # "none" \/ disk[op[o].job].pending # NoOutcome
                \/ Retired(disk[op[o].job])
        /\ op[o].snap.pending = NoOutcome => disk[op[o].job].pending = NoOutcome
        /\ Carried /\ op[o].job = job => op[o].snap.pending # NoOutcome

PendingInv ==
    /\ AloneWithoutBytes /\ BytesOnDisk /\ BytesInRequests
    /\ pc = "release" => mem.pending = NoOutcome

\* Bytes are in hand only while they are delivered.
LEMMA CarriedLate ==
    ASSUME DecisionInv, PendingInv, Carried
    PROVE  pc \in {"deliver", "send", "ack", "mark_hold"}
BY DEF Carried, PendingInv, DecisionInv, UndecidedUntilDelivery, FirstLife, Recovering, InHand,
       Worked, ControllerPcs, SettlePcs

\* A step of the worker on a file that no operator can write, without bytes
\* before it; it may prepare some, and write them first.
LEMMA AlonePending ==
    ASSUME MarkInv, PendingInv, job \in Jobs, disk \in [Jobs -> RunRecords], UNCHANGED <<op, job>>,
           pc = "executed" \/ (pc \in InHand /\ ~Carried),
           NEW rec, disk' \in {disk, [disk EXCEPT ![job] = rec]},
           pc' \in Worked =>
                /\ (Carried)' => disk' = [disk EXCEPT ![job] = rec] /\ rec.pending # NoOutcome
                /\ ~(Carried)' => disk' = disk \/ (rec.hold = "none" /\ rec.pending = NoOutcome),
           pc' = "release" => ~(Carried)'
    PROVE  PendingInv'
<1>1. /\ Free(job) /\ disk[job].pending = NoOutcome
      /\ \A j \in Jobs \ {job} : disk'[j] = disk[j]
      /\ disk'[job] \in {disk[job], rec} /\ (disk' # disk => disk'[job] = rec)
  BY DEF PendingInv, AloneWithoutBytes
<1>2. AloneWithoutBytes'
  BY <1>1 DEF AloneWithoutBytes, Free, Recovery, Carried, InHand, Worked, SettlePcs
<1>3. BytesOnDisk'
  BY <1>1 DEF BytesOnDisk, Carried, InHand
<1>4. BytesInRequests'
  <2>1. \A o \in Operators : Recovery(o) => op[o].job \in Jobs \ {job}
    BY <1>1 DEF Free, MarkInv, RequestsCurrent
  <2> QED
    BY <1>1, <2>1 DEF PendingInv, BytesInRequests, Recovery
<1>5. pc' = "release" => mem'.pending = NoOutcome
  BY DEF Carried, InHand, Worked, SettlePcs
<1> QED
  BY <1>2, <1>3, <1>4, <1>5 DEF PendingInv

\* A step of the worker with bytes in hand: it writes them, or the record that
\* ends the delivery.
LEMMA CarriedPending ==
    ASSUME MarkInv, PendingInv, job \in Jobs, disk \in [Jobs -> RunRecords], UNCHANGED <<op, job>>,
           Carried, disk' \in {disk, [disk EXCEPT ![job] = mem']},
           mem'.pending = mem.pending \/ Retired(mem'),
           pc' \in InHand \cup {"return_ok", "hold_check"}, pc' # "release",
           pc' \in InHand => mem'.pending = mem.pending
    PROVE  PendingInv'
<1>1. /\ BytesOnDisk /\ BytesInRequests /\ mem.pending # NoOutcome
      /\ \A j \in Jobs \ {job} : disk'[j] = disk[j]
      /\ disk'[job] \in {disk[job], mem'}
      /\ pc' \in InHand => (Carried)'
      /\ pc' # "executed"
  BY DEF PendingInv, Carried, InHand
<1>2. AloneWithoutBytes'
  BY <1>1 DEF AloneWithoutBytes, InHand
<1>3. disk'[job].pending # NoOutcome \/ Retired(disk'[job])
  BY <1>1 DEF BytesOnDisk
<1>4. BytesInRequests'
  <2>1. \A o \in Operators : Recovery(o) => op[o].job \in Jobs
    BY DEF MarkInv, RequestsCurrent
  <2>2. \A o \in Operators : (Recovery(o) /\ op[o].job = job) => op[o].snap.pending # NoOutcome
    BY <1>1 DEF BytesInRequests
  <2> QED
    BY <1>1, <1>3, <2>1, <2>2 DEF BytesInRequests, Recovery
<1> QED
  BY <1>2, <1>3, <1>4 DEF PendingInv, BytesOnDisk

\* The worker keeps to the files it is alone with until bytes are prepared.
LEMMA WorkerPending ==
    ASSUME Typed, MarkInv, (MarkInv)', CleanupInv, AnswerInv, DecisionInv, PendingInv,
           Controller \/ Settlement \/ Delivery
    PROVE  PendingInv'
<1> USE DEF Step, ControllerPcs, SettlePcs, Worked, InHand
<1>0. /\ pc \in Worked /\ job \in Jobs /\ mem \in RunRecords /\ disk[job] \in RunRecords
      /\ disk \in [Jobs -> RunRecords] /\ UNCHANGED <<job, op>> /\ run \in RunLocals
  BY ControllerFrame DEF Settlement, CreateRecord, CheckSupported, ReloadRecord, Settle, RecoverTarget,
         RecoverReconcile, RecoverSave, Recovered, SetWorkerError, ReleaseClaim, MarkHold,
         Delivery, PrepareCompletion, SendAcknowledged, SendAnswerLost, SendConflict,
         SendRejected, PersistAcknowledgement, local, Typed, TypeOK, JobInHand
<1>1. /\ ~(pc = "executed" \/ (pc \in InHand /\ ~Carried)) => pc \in {"deliver", "send", "ack", "mark_hold"} /\ Carried
      /\ ~Carried /\ pc # "executed" => mem.pending = NoOutcome
  BY <1>0, CarriedLate DEF Carried
<1>2. CASE Controller
  <2>1. /\ pc \in ControllerPcs /\ pc' \in ControllerPcs \cup {"executed"} /\ ~Carried
        /\ \A j \in Jobs \ {job} : disk'[j] = disk[j]
        /\ disk'[job].hold = "none"
        /\ SameClaim(disk'[job], disk[job]) \/ SameClaim(disk'[job], mem)
        /\ pc' # "executed" => SameClaim(mem', disk[job]) \/ SameClaim(mem', mem)
    BY <1>1, <1>2, ControllerFrame, ControllerWrites
  <2>2. mem.pending = NoOutcome /\ disk[job].pending = NoOutcome /\ Free(job)
    BY <1>1, <2>1 DEF PendingInv, AloneWithoutBytes
  <2>3. /\ disk'[job].pending = NoOutcome
        /\ pc' # "executed" => mem'.pending = NoOutcome
    BY <2>1, <2>2 DEF SameClaim
  <2>4. \A o \in Operators : Recovery(o) => op[o].job \in Jobs \ {job}
    BY <2>2 DEF Free, MarkInv, RequestsCurrent
  <2>5. ~(Carried)'
    BY <2>3 DEF Carried
  <2>6. AloneWithoutBytes' /\ BytesOnDisk'
    BY <1>0, <2>1, <2>2, <2>3, <2>5 DEF AloneWithoutBytes, BytesOnDisk, Free, Recovery
  <2>7. BytesInRequests'
    BY <1>0, <2>1, <2>4 DEF PendingInv, BytesInRequests, Recovery
  <2> QED
    BY <2>1, <2>6, <2>7 DEF PendingInv
<1>3. CASE CreateRecord \/ CheckSupported \/ ReloadRecord \/ Settle \/ RecoverTarget \/ RecoverReconcile
           \/ RecoverSave \/ Recovered \/ SetWorkerError \/ ReleaseClaim
  <2>1. /\ pc \in SettlePcs \ {"deliver", "send", "ack", "mark_hold"}
        /\ disk' \in {disk, [disk EXCEPT ![job] = mem']}
        /\ pc' \notin {"send", "ack", "executed"}
        /\ disk' # disk /\ pc' \in Worked => pc \in {"create", "recover_target", "recover_save", "worker_error"}
    <3>1. /\ pc \in SettlePcs \ {"deliver", "send", "ack", "mark_hold"}
          /\ pc' \notin {"send", "ack", "executed"}
      BY <1>3 DEF CreateRecord, CheckSupported, ReloadRecord, Settle, RecoverTarget,
         RecoverReconcile, Reconcile, RecoverSave, Recovered, SetWorkerError, ReleaseClaim,
         SaveMem, Save
    <3>2. /\ disk' \in {disk, [disk EXCEPT ![job] = mem']}
          /\ \/ UNCHANGED disk \/ pc' \notin Worked
             \/ pc \in {"create", "recover_target", "recover_save", "worker_error"}
      BY <1>3 DEF CreateRecord, CheckSupported, ReloadRecord, Settle, RecoverTarget,
         RecoverReconcile, RecoverSave, Recovered, SetWorkerError, ReleaseClaim,
         SaveMem, Save, Saved, SaveFails
    <3> QED
      BY <3>1, <3>2
  <2>2. pc = "executed" \/ (pc \in InHand /\ ~Carried)
    BY <1>0, <1>1, <2>1
  <2>3. pc' \in InHand => mem'.pending = NoOutcome
    <3>1. pc = "executed" => disk[job].pending = NoOutcome
      BY DEF PendingInv, AloneWithoutBytes
    <3>2. pc # "executed" => mem.pending = NoOutcome
      BY <1>1, <2>2
    <3>3. \/ pc' \notin InHand
          \/ pc # "executed" /\ mem' = mem
          \/ pc = "executed" /\ mem' = disk[job]
          \/ pc # "executed" /\ \E c \in Cleanups : mem' = [mem EXCEPT !.cleanup = c]
          \/ pc # "executed" /\ \E c \in ErrorCodes : mem' = WithWorkerError(mem, c)
      BY <1>3 DEF CreateRecord, CheckSupported, ReloadRecord, Settle, RecoverTarget,
         RecoverReconcile, Reconcile, RecoverSave, Recovered, SetWorkerError, ReleaseClaim,
         SaveMem, Save, Cleanups, Typed, CauseKnown, WorkerErrorCode, ErrorCodes
    <3>4. /\ \A c \in Cleanups : SameClaim([mem EXCEPT !.cleanup = c], mem)
          /\ \A c \in ErrorCodes : SameClaim(WithWorkerError(mem, c), mem)
      BY <1>0, ClaimEdits
    <3> QED
      BY <3>1, <3>2, <3>3, <3>4 DEF SameClaim
  <2>4. ~(Carried)'
    BY <2>3 DEF Carried
  <2>5. disk' # disk /\ pc' \in Worked => mem'.hold = "none"
    <3>1. pc \in {"create", "recover_target", "recover_save", "worker_error"} => mem.hold = "none"
      BY DEF CleanupInv, RecoveredAlone, Recovering, MarkInv, ExecutionUndisturbed, Undisturbed
    <3>2. \A c \in ErrorCodes : WithWorkerError(mem, c).hold = mem.hold
      BY <1>0 DEF WithWorkerError, RunRecords
    <3>3. pc \in {"create", "recover_target", "recover_save", "worker_error"} =>
              mem' = mem \/ \E c \in ErrorCodes : mem' = WithWorkerError(mem, c)
      BY <1>3 DEF CreateRecord, CheckSupported, ReloadRecord, Settle, RecoverTarget,
         RecoverReconcile, RecoverSave, Recovered, SetWorkerError, ReleaseClaim,
         SaveMem, Save, Typed, CauseKnown, WorkerErrorCode, ErrorCodes
    <3> QED
      BY <2>1, <3>1, <3>2, <3>3
  <2> QED
    BY <1>0, <2>1, <2>2, <2>3, <2>4, <2>5, AlonePending
<1>4. CASE MarkHold
  <2>1. /\ pc = "mark_hold" /\ pc' = "hold_check"
        /\ mem' = [mem EXCEPT !.hold = IF run.why = "completion_conflict"
                                       THEN "completion_conflict" ELSE "cleanup"]
        /\ disk' \in {disk, [disk EXCEPT ![job] = mem']}
    BY <1>4 DEF MarkHold, SaveMem, Save, Saved, SaveFails
  <2>2. mem'.pending = mem.pending
    BY <1>0, <2>1 DEF RunRecords
  <2>3. CASE Carried
    BY <1>0, <2>1, <2>2, <2>3, CarriedPending
  <2>4. CASE ~Carried
    BY <1>0, <2>1, <2>4, AlonePending
  <2> QED
    BY <2>3, <2>4
<1>5. CASE PrepareCompletion
  <2>1. /\ pc = "deliver" /\ pc' \in {"send", "hold_check"}
        /\ \/ UNCHANGED <<mem, disk>> /\ (pc' = "send" => Carried)
           \/ /\ mem' = [mem EXCEPT !.pending = CompletionBody(mem)] /\ CanPrepareCompletion(mem)
              /\ ~Carried /\ disk' \in {disk, [disk EXCEPT ![job] = mem']}
              /\ pc' = "send" => disk' = [disk EXCEPT ![job] = mem']
    BY <1>5 DEF PrepareCompletion, SaveMem, Save, Saved, SaveFails, Carried, AnswerInv, Shapes, Live
  <2>2. CASE Carried
    BY <1>0, <2>1, <2>2, CarriedPending
  <2>3. CASE ~Carried
    <3>1. CASE UNCHANGED <<mem, disk>> /\ pc' = "hold_check"
      BY <1>0, <2>1, <2>3, <3>1, AlonePending
    <3>2. CASE /\ mem' = [mem EXCEPT !.pending = CompletionBody(mem)] /\ CanPrepareCompletion(mem)
               /\ disk' \in {disk, [disk EXCEPT ![job] = mem']}
               /\ pc' = "send" => disk' = [disk EXCEPT ![job] = mem']
      <4>1. CompletionBody(mem) \in Bodies /\ CompletionBody(mem) # NoOutcome
        BY <1>0, <3>2, CompletionBodyType DEF Bodies, Results, WorkerErrors, NoOutcome
      <4>2. mem'.pending # NoOutcome /\ mem'.hold = mem.hold
        BY <1>0, <3>2, <4>1 DEF RunRecords
      <4> QED
        <5>1. pc' = "send" => (Carried)'
          BY <4>2 DEF Carried
        <5>2. /\ pc \in InHand /\ ~Carried /\ pc' # "release"
              /\ disk' \in {disk, [disk EXCEPT ![job] = mem']}
          BY <2>1, <2>3, <3>2
        <5>3. pc' \in Worked => disk' = [disk EXCEPT ![job] = mem'] /\ (Carried)'
          BY <2>1, <3>2, <5>1
        <5> QED
          BY <1>0, <4>2, <5>2, <5>3, AlonePending
    <3> QED
      BY <2>1, <2>3, <3>1, <3>2
  <2> QED
    BY <2>2, <2>3
<1>6. CASE SendAcknowledged \/ SendAnswerLost \/ SendConflict \/ SendRejected
  <2>1. /\ pc = "send" /\ UNCHANGED <<mem, disk>> /\ pc' \in {"ack", "send", "mark_hold", "hold_check"}
    BY <1>6 DEF SendAcknowledged, SendAnswerLost, SendConflict, SendRejected, local
  <2>2. Carried
    BY <2>1 DEF Carried, Typed, BodyInHand, Bodies, Results, WorkerErrors, NoOutcome
  <2> QED
    BY <1>0, <2>1, <2>2, CarriedPending
<1>7. CASE PersistAcknowledgement
  <2>1. /\ pc = "ack" /\ mem' = WithAcknowledgement(mem) /\ pc' \in {"return_ok", "hold_check"}
        /\ disk' \in {disk, [disk EXCEPT ![job] = mem']} /\ Retired(mem')
    BY <1>0, <1>7, ClaimEdits DEF PersistAcknowledgement, SaveMem, Save, Saved, SaveFails
  <2>2. CASE Carried
    BY <1>0, <2>1, <2>2, CarriedPending
  <2>3. CASE ~Carried
    BY <1>0, <2>1, <2>3, AlonePending
  <2> QED
    BY <2>2, <2>3
<1> QED
  BY <1>2, <1>3, <1>4, <1>5, <1>6, <1>7 DEF Settlement, Delivery

\* A job is taken on, or recovered, with no operator near its file, or with
\* the bytes that are on disk.
LEMMA RunLoopPending ==
    ASSUME Typed, MarkInv, AnswerInv, PendingInv, RunLoop
    PROVE  PendingInv'
<1> USE DEF Step, ControllerPcs, SettlePcs, Worked, InHand, Carried
<1>0. /\ disk \in [Jobs -> RunRecords] /\ UNCHANGED <<disk, op>>
      /\ \A o \in Operators : Recovery(o) => op[o].job \in Jobs
      /\ BytesInRequests
  BY DEF RunLoop, ClaimJob, ClaimAnswerLost, ClaimUnresolved, ClaimRejected, ReturnOk, Recover,
         CheckForHold, WakeUp, Typed, TypeOK, MarkInv, RequestsCurrent, PendingInv
<1>1. ASSUME NEW j \in Jobs, ClaimJob(j) PROVE PendingInv'
  <2>1. /\ pc' = "create" /\ mem' = Claimed /\ job' = j /\ disk[j] = NoRecord
    BY <1>1 DEF ClaimJob, MarkInv, FilesMarked
  <2>2. /\ Claimed.pending = NoOutcome /\ NoRecord.hold = "none" /\ NoRecord.pending = NoOutcome
        /\ NoRecord.status = "absent"
    BY DEF Claimed, NoRecord
  <2>3. \A o \in Operators : Recovery(o) => op[o].job # j
    BY <2>1, <2>2 DEF MarkInv, RequestsCurrent
  <2> QED
    BY <1>0, <2>1, <2>2, <2>3 DEF PendingInv, AloneWithoutBytes, BytesOnDisk, BytesInRequests,
       Free, Recovery
<1>2. ASSUME NEW j \in Unresolved, RecoverWith(j) PROVE PendingInv'
  <2>1. /\ j \in Jobs /\ job' = j /\ pc' \in {"hold_check", "deliver", "recover_target"}
        /\ pc' # "hold_check" =>
            /\ mem' \in {disk[j], [disk[j] EXCEPT !.status = "interrupted"]}
            /\ disk[j].pending # NoOutcome \/ disk[j].hold = "none"
    BY <1>2 DEF RecoverWith, Unresolved
  <2>2. pc' # "hold_check" => mem'.pending = disk[j].pending
    BY <1>0, <2>1 DEF RunRecords
  <2>3. ~Retired(disk[j])
    BY <1>0, <2>1, ShapeFacts DEF Unresolved
  <2>4. \A o \in Operators : (Recovery(o) /\ op[o].job = j) =>
            /\ disk[j].hold # "none" \/ disk[j].pending # NoOutcome
            /\ op[o].snap.pending = NoOutcome => disk[j].pending = NoOutcome
    BY <1>0, <2>3 DEF BytesInRequests
  <2>5. AloneWithoutBytes' /\ BytesOnDisk'
    BY <1>0, <2>1, <2>2, <2>4 DEF AloneWithoutBytes, BytesOnDisk, Free, Recovery
  <2>6. BytesInRequests'
    BY <1>0, <2>1, <2>2, <2>4 DEF BytesInRequests, Recovery
  <2> QED
    BY <2>1, <2>5, <2>6 DEF PendingInv
<1>3. CASE pc' \notin Worked
  BY <1>0, <1>3 DEF PendingInv, AloneWithoutBytes, BytesOnDisk, BytesInRequests, Recovery
<1>4. ASSUME NEW j \in Jobs, ClaimAnswerLost(j) PROVE PendingInv'
  BY <1>3, <1>4 DEF ClaimAnswerLost, local
<1>5. CASE ClaimUnresolved \/ ClaimRejected \/ WakeUp \/ ReturnOk \/ CheckForHold
  BY <1>3, <1>5 DEF ClaimUnresolved, ClaimRejected, WakeUp, ReturnOk, CheckForHold
<1>6. CASE Recover
  BY <1>2, <1>3, <1>6 DEF Recover
<1> QED
  BY <1>1, <1>4, <1>5, <1>6 DEF RunLoop

\* The snapshot of a request has the bytes that are on disk when it is read,
\* and nobody else writes them in between but the worker that delivers them.
LEMMA OthersPending ==
    ASSUME \A o, p \in Operators : o = p,
           Typed, MarkInv, CleanupInv, AnswerInv, PendingInv,
           \/ Heartbeat \/ Operator \/ Restart
           \/ \E j \in Jobs : CoordinatorReleases(j) \/ CoordinatorReinstates(j)
    PROVE  PendingInv'
<1> USE DEF ControllerPcs, SettlePcs, Worked, InHand
<1>0. /\ disk \in [Jobs -> RunRecords] /\ op \in [Operators -> Requests]
      /\ \A o \in Operators : Recovery(o) => op[o].job \in Jobs
      /\ AloneWithoutBytes /\ BytesOnDisk /\ BytesInRequests
      /\ pc \in Worked => job \in Jobs
      /\ Carried => pc \in InHand
  BY DEF Typed, TypeOK, MarkInv, RequestsCurrent, PendingInv, JobInHand, Carried
<1>1. ASSUME NEW o \in Operators, NEW a \in RecoveryActions, NEW j \in Jobs,
             RecoveryRequest(o, a, j)
      PROVE  PendingInv'
  <2>1. /\ op' = [op EXCEPT ![o] = [action |-> a, job |-> j, snap |-> disk[j]]]
        /\ UNCHANGED <<pc, job, mem, disk>> /\ disk[j].hold # "none"
    BY <1>1 DEF RecoveryRequest, RecoveryAllowed, RecoveryActions, local
  <2>2. \A p \in Operators :
            \/ p = o /\ op'[p].job = j /\ op'[p].snap = disk[j]
            \/ p # o /\ op'[p] = op[p]
    BY <1>0, <2>1
  <2>3. (Carried)' = Carried
    BY <2>1 DEF Carried
  <2>4. AloneWithoutBytes' /\ BytesOnDisk'
    BY <1>0, <2>1, <2>2, <2>3 DEF AloneWithoutBytes, BytesOnDisk, Free, Recovery
  <2>5. Carried /\ j = job => disk[j].pending # NoOutcome
    BY <1>0, <2>1 DEF BytesOnDisk, Retired, Closed
  <2>6. BytesInRequests'
    BY <1>0, <2>1, <2>2, <2>3, <2>5 DEF BytesInRequests, Recovery
  <2> QED
    BY <2>1, <2>4, <2>6 DEF PendingInv
<1>2. ASSUME NEW o \in Operators, RecoverySave(o) PROVE PendingInv'
  <2> DEFINE k == op[o].job
             snap == op[o].snap
             rec == RecoveryEdit(op[o].action, snap)
  <2>1. /\ op' = [op EXCEPT ![o] = NoRequest] /\ Recovery(o)
        /\ disk' \in {disk, [disk EXCEPT ![k] = rec]}
        /\ UNCHANGED <<pc, job, mem>>
    BY <1>2 DEF RecoverySave, Recovery, local
  <2>2. \A p \in Operators : ~Recovery(p)'
    BY <1>0, <2>1 DEF Recovery, NoRequest, RecoveryActions
  <2>3. /\ k \in Jobs /\ snap \in RunRecords
        /\ \/ disk' = disk
           \/ disk'[k] = rec /\ \A j \in Jobs \ {k} : disk'[j] = disk[j]
    BY <1>0, <2>1 DEF Requests
  <2>4. rec.pending = snap.pending \/ Retired(rec)
    BY <2>1, <2>3 DEF RecoveryEdit, Recovery, RecoveryActions, Retired, Closed, RunRecords
  <2> HIDE DEF rec
  <2>5. (Carried)' = Carried
    BY <2>1 DEF Carried
  <2>6. AloneWithoutBytes'
    BY <1>0, <2>1, <2>2, <2>3, <2>5 DEF AloneWithoutBytes, Free
  <2>7. BytesOnDisk'
    <3>1. Carried /\ k = job => snap.pending # NoOutcome
      BY <1>0, <2>1 DEF BytesInRequests
    <3> QED
      BY <1>0, <2>1, <2>3, <2>4, <2>5, <3>1 DEF BytesOnDisk
  <2> QED
    BY <2>1, <2>2, <2>6, <2>7 DEF PendingInv, BytesInRequests
<1>3. CASE /\ UNCHANGED <<disk, pc, job, mem>>
           /\ \A p \in Operators : Recovery(p)' => Recovery(p) /\ op'[p] = op[p]
  <2>1. (Carried)' = Carried
    BY <1>3 DEF Carried
  <2>2. AloneWithoutBytes'
    BY <1>0, <1>3, <2>1 DEF AloneWithoutBytes, Free
  <2>3. BytesOnDisk'
    BY <1>0, <1>3, <2>1 DEF BytesOnDisk
  <2>4. BytesInRequests'
    BY <1>0, <1>3, <2>1 DEF BytesInRequests
  <2> QED
    BY <1>3, <2>2, <2>3, <2>4 DEF PendingInv
<1>4. ASSUME NEW o \in Operators, NEW j \in Jobs, ReadyRequest(o, j)
      PROVE  PendingInv'
  <2>1. /\ op' = [op EXCEPT ![o] = [NoRequest EXCEPT !.action = "ready", !.job = j]]
        /\ UNCHANGED <<pc, job, mem, disk>>
    BY <1>4 DEF ReadyRequest, local
  <2>2. \A p \in Operators : Recovery(p)' => Recovery(p) /\ op'[p] = op[p]
    BY <1>0, <2>1 DEF Recovery, NoRequest, RecoveryActions
  <2> QED
    BY <1>3, <2>1, <2>2
<1>5. ASSUME NEW o \in Operators, ReadyCall(o) PROVE PendingInv'
  <2>1. /\ op' = [op EXCEPT ![o] = NoRequest] /\ UNCHANGED <<pc, job, mem, disk>>
    BY <1>5 DEF ReadyCall, local
  <2>2. \A p \in Operators : Recovery(p)' => Recovery(p) /\ op'[p] = op[p]
    BY <1>0, <2>1 DEF Recovery, NoRequest, RecoveryActions
  <2> QED
    BY <1>3, <2>1, <2>2
<1>6. CASE Restart
  <2>1. /\ pc' = "recover" /\ UNCHANGED disk /\ op' = [o \in Operators |-> NoRequest]
    BY <1>6 DEF Restart
  <2>2. \A p \in Operators : ~Recovery(p)'
    BY <2>1 DEF Recovery, NoRequest, RecoveryActions
  <2>3. pc' \notin Worked /\ ~(Carried)'
    BY <2>1 DEF Carried
  <2> QED
    BY <2>1, <2>2, <2>3 DEF PendingInv, AloneWithoutBytes, BytesOnDisk, BytesInRequests
<1>7. CASE \/ Heartbeat
           \/ \E j \in Jobs : CoordinatorReleases(j) \/ CoordinatorReinstates(j)
  <2>1. UNCHANGED <<pc, job, mem, disk, op>>
    BY <1>7 DEF Heartbeat, HeartbeatClaimLost, HeartbeatCancel, CoordinatorReleases,
       CoordinatorReinstates, local
  <2> QED
    BY <1>3, <2>1 DEF Recovery
<1> QED
  BY <1>1, <1>2, <1>4, <1>5, <1>6, <1>7 DEF Operator

\* Two pending bodies of a job are the same.
LEMMA SamePending ==
    ASSUME DecidedOnce, NEW j \in Jobs, NEW b \in Bodies, NEW c \in Bodies,
           Decided(j, b), Decided(j, c)
    PROVE  b = c
BY DEF DecidedOnce

\* No step replaces or drops pending bytes.
LEMMA StepKeepsBytes ==
    ASSUME Typed, MarkInv, (MarkInv)', CleanupInv, AnswerInv, DecisionInv, PendingInv, Next,
           NEW j \in Jobs, disk[j].pending # NoOutcome
    PROVE  disk'[j].pending = disk[j].pending \/ Acknowledged(disk'[j])
<1> USE DEF Step, ControllerPcs, SettlePcs, Worked, InHand
<1>0. /\ disk \in [Jobs -> RunRecords] /\ mem \in RunRecords /\ op \in [Operators -> Requests]
      /\ disk[j].pending \in Bodies /\ Decided(j, disk[j].pending)
      /\ DecidedOnce
  BY DEF Typed, TypeOK, RunRecords, Decided, DecisionInv
<1>1. CASE Settlement \/ Delivery
  <2>1. /\ job \in Jobs /\ pc \in SettlePcs
        /\ disk' \in {disk, [disk EXCEPT ![job] = mem']}
        /\ pc = "executed" => UNCHANGED disk
    BY <1>1 DEF Settlement, CreateRecord, CheckSupported, ReloadRecord, Settle, RecoverTarget,
         RecoverReconcile, RecoverSave, Recovered, SetWorkerError, ReleaseClaim, MarkHold,
         Delivery, PrepareCompletion, SendAcknowledged, SendAnswerLost, SendConflict,
         SendRejected, PersistAcknowledgement, SaveMem, Save, Saved, SaveFails, local,
         Typed, JobInHand
  <2>2. CASE j # job \/ disk' = disk
    BY <1>0, <2>1, <2>2
  <2>3. CASE j = job /\ disk' # disk
    <3>1. Carried /\ pc \in {"deliver", "send", "ack", "mark_hold"}
      <4>1. Carried
        BY <2>1, <2>3 DEF PendingInv, AloneWithoutBytes
      <4> QED
        BY <4>1, CarriedLate
    <3>2. mem.pending \in Bodies /\ mem.pending # NoOutcome /\ Decided(j, mem.pending)
      BY <1>0, <2>3, <3>1 DEF Carried, RunRecords, Decided, Held
    <3>3. mem.pending = disk[j].pending
      BY <1>0, <3>2, SamePending
    <3>4. disk'[j] = mem'
      BY <1>0, <2>1, <2>3
    <3>5. CASE pc = "mark_hold"
      <4>1. \E h \in Holds : mem' = [mem EXCEPT !.hold = h]
        BY <1>1, <3>5 DEF Settlement, CreateRecord, CheckSupported, ReloadRecord, Settle, RecoverTarget,
           RecoverReconcile, RecoverSave, Recovered, SetWorkerError, ReleaseClaim, MarkHold, SaveMem,
           Delivery, PrepareCompletion, SendAcknowledged, SendAnswerLost, SendConflict,
           SendRejected, PersistAcknowledgement, Holds
      <4> QED
        BY <1>0, <3>3, <3>4, <4>1 DEF RunRecords
    <3>6. CASE pc = "ack"
      <4>1. mem' = WithAcknowledgement(mem)
        BY <1>1, <3>6 DEF Settlement, CreateRecord, CheckSupported, ReloadRecord, Settle, RecoverTarget,
           RecoverReconcile, RecoverSave, Recovered, SetWorkerError, ReleaseClaim, MarkHold, SaveMem,
           Delivery, PrepareCompletion, SendAcknowledged, SendAnswerLost, SendConflict,
           SendRejected, PersistAcknowledgement
      <4> QED
        BY <1>0, <3>4, <4>1 DEF WithAcknowledgement, Acknowledged, RunRecords
    <3>7. CASE pc \in {"deliver", "send"}
      BY <1>1, <2>3, <3>2, <3>7 DEF Settlement, CreateRecord, CheckSupported, ReloadRecord, Settle,
         RecoverTarget, RecoverReconcile, RecoverSave, Recovered, SetWorkerError, ReleaseClaim,
         MarkHold, Delivery, PrepareCompletion, SendAcknowledged, SendAnswerLost, SendConflict,
         SendRejected, PersistAcknowledgement
    <3> QED
      BY <3>1, <3>5, <3>6, <3>7
  <2> QED
    BY <2>2, <2>3
<1>2. CASE Controller
  <2>1. /\ pc \in ControllerPcs /\ \A k \in Jobs \ {job} : disk'[k] = disk[k]
    BY <1>2, ControllerFrame
  <2>2. disk[job].pending = NoOutcome
    BY <2>1, CarriedLate DEF PendingInv, AloneWithoutBytes
  <2> QED
    BY <2>1, <2>2
<1>3. ASSUME NEW o \in Operators, RecoverySave(o)
      PROVE  disk'[j].pending = disk[j].pending \/ Acknowledged(disk'[j])
  <2> DEFINE k == op[o].job
             snap == op[o].snap
             rec == RecoveryEdit(op[o].action, snap)
  <2>1. Recovery(o) /\ disk' \in {disk, [disk EXCEPT ![k] = rec]} /\ snap \in RunRecords
    BY <1>0, <1>3 DEF RecoverySave, Recovery, Requests
  <2>2. CASE k # j \/ disk' = disk
    BY <1>0, <2>1, <2>2
  <2>3. CASE k = j /\ disk' = [disk EXCEPT ![k] = rec]
    <3>1. snap.pending # NoOutcome /\ snap.pending \in Bodies /\ Decided(j, snap.pending)
      BY <2>1, <2>3 DEF PendingInv, BytesInRequests, RunRecords, Decided, InFlight
    <3>2. snap.pending = disk[j].pending
      BY <1>0, <3>1, SamePending
    <3>3. rec.pending = snap.pending \/ Acknowledged(rec)
      BY <2>1 DEF RecoveryEdit, Recovery, RecoveryActions, Acknowledged, RunRecords
    <3> QED
      BY <1>0, <2>3, <3>2, <3>3
  <2> QED
    BY <2>1, <2>2, <2>3
<1>4. CASE RunLoop
  BY <1>4 DEF RunLoop, ClaimJob, ClaimAnswerLost, ClaimUnresolved, ClaimRejected, ReturnOk, Recover,
     CheckForHold, WakeUp
<1>5. CASE \/ Heartbeat \/ Restart
           \/ \E k \in Jobs : CoordinatorReleases(k) \/ CoordinatorReinstates(k)
  BY <1>5 DEF Heartbeat, HeartbeatClaimLost, HeartbeatCancel, Restart, CoordinatorReleases,
     CoordinatorReinstates
<1>6. CASE Operator
  BY <1>3, <1>6 DEF Operator, ReadyRequest, RecoveryRequest, ReadyCall
<1> QED
  BY <1>1, <1>2, <1>4, <1>5, <1>6 DEF Next, Worker

(***************************************************************************)
(* With one operator at a time, persisted completion bytes stay on disk    *)
(* until the file records the acknowledgement, whatever fails and however  *)
(* the operator races with the worker.                                     *)
(***************************************************************************)
THEOREM PendingBytesStay ==
    ASSUME \A o, p \in Operators : o = p
    PROVE  Spec => PendingBytesKept
<1>1. Init => PendingInv
  BY DEF Init, PendingInv, AloneWithoutBytes, BytesOnDisk, BytesInRequests, Carried, Recovery,
     NoRequest, RecoveryActions, InHand, Worked, ControllerPcs, SettlePcs
<1>2. /\ Typed /\ MarkInv /\ (MarkInv)' /\ CleanupInv /\ AnswerInv /\ DecisionInv
      /\ PendingInv /\ [Next]_vars
      => PendingInv'
  <2>1. CASE UNCHANGED vars
    BY <2>1 DEF PendingInv, AloneWithoutBytes, BytesOnDisk, BytesInRequests, Carried, Free,
       Recovery, vars, local
  <2> QED
    BY <2>1, WorkerPending, RunLoopPending, OthersPending DEF Next, Worker
<1>3. /\ Typed /\ MarkInv /\ (MarkInv)' /\ CleanupInv /\ AnswerInv /\ DecisionInv
      /\ PendingInv /\ [Next]_vars
      => [\A j \in Jobs : disk[j].pending # NoOutcome =>
              disk'[j].pending = disk[j].pending \/ Acknowledged(disk'[j])]_vars
  BY StepKeepsBytes
<1> QED
  BY <1>1, <1>2, <1>3, AnswerInvariant, DecisionInvariant, PTL DEF Spec, PendingBytesKept

--------------------------------------------------------------------------------
(* The outcome on record                                                    *)

\* What the coordinator recorded was sent to it.
RecordedWasSent == \A j \in Jobs : coord[j] = "completed" => accepted[j] \in sent[j]

\* A body is recorded when it is received, and no job is completed otherwise.
LEMMA RecordedStaysSent ==
    ASSUME Typed, RecordedWasSent, Next
    PROVE  RecordedWasSent'
<1> USE DEF Typed, TypeOK, JobInHand, Step, ControllerPcs, SettlePcs, RecordedWasSent
<1>1. CASE SendAcknowledged \/ SendAnswerLost \/ SendConflict
  BY <1>1 DEF SendAcknowledged, SendAnswerLost, SendConflict, Recorded, Duplicate, Received
<1>2. CASE /\ UNCHANGED <<accepted, sent>>
           /\ \A j \in Jobs : coord'[j] = "completed" => coord[j] = "completed"
  BY <1>2
<1>3. CASE Controller \/ Settlement
  <2>1. UNCHANGED <<coord, accepted, sent>>
    BY <1>3 DEF Controller, StartExecution, Preflight, PrepareBaseline, InstallBaseline, Mutate,
         PrepareCandidate, UpdateCandidate, GatherEvidence, BeginCleanup,
         ControllerReconcile, SaveCleanup, FinishExecution, ExecutionSave, Execution,
         Settlement, CreateRecord, CheckSupported, ReloadRecord, Settle, RecoverTarget,
         RecoverReconcile, RecoverSave, Recovered, SetWorkerError, ReleaseClaim, MarkHold, world
  <2> QED
    BY <1>2, <2>1
<1>4. CASE PrepareCompletion \/ SendRejected \/ PersistAcknowledgement
  BY <1>2, <1>4 DEF PrepareCompletion, SendRejected, PersistAcknowledgement, world
<1>5. CASE RunLoop \/ Heartbeat \/ Restart
  <2>1. UNCHANGED <<accepted, sent>>
        /\ (coord' = coord \/ \E j \in Jobs : coord' = [coord EXCEPT ![j] = "claimed"])
    BY <1>5 DEF RunLoop, ClaimJob, ClaimAnswerLost, ClaimUnresolved, ClaimRejected, ReturnOk,
       Recover, CheckForHold, WakeUp, Heartbeat, HeartbeatClaimLost, HeartbeatCancel, Restart, world
  <2> QED
    BY <1>2, <2>1
<1>6. CASE Operator \/ \E j \in Jobs : CoordinatorReleases(j) \/ CoordinatorReinstates(j)
  <2>1. UNCHANGED <<accepted, sent>>
        /\ (coord' = coord \/ \E j : \E s \in {"claimed", "released"} : coord' = [coord EXCEPT ![j] = s])
    BY <1>6 DEF Operator, ReadyRequest, RecoveryRequest, RecoverySave, ReadyCall,
       CoordinatorReleases, CoordinatorReinstates, world
  <2> QED
    BY <1>2, <2>1
<1> QED
  BY <1>1, <1>3, <1>4, <1>5, <1>6 DEF Next, Worker, Delivery

\* So it is invariant.
LEMMA RecordedInvariant == Spec => []RecordedWasSent
<1>1. Init => RecordedWasSent
  BY DEF Init, RecordedWasSent
<1>2. Typed /\ RecordedWasSent /\ [Next]_vars => RecordedWasSent'
  <2>1. CASE UNCHANGED vars
    BY <2>1 DEF RecordedWasSent, vars, world
  <2> QED
    BY <2>1, RecordedStaysSent
<1> QED
  BY <1>1, <1>2, TypeCorrect, PTL DEF Spec

\* The recorded outcome is everything a completed job was ever reported with.
RecordedIsAll == \A j \in Jobs : coord[j] = "completed" => sent[j] = {accepted[j]}

(***************************************************************************)
(* Under every fault and operator race, the outcome the coordinator has on *)
(* record for a job is the only one the worker ever sent for it, before or *)
(* after (prepare_completion, deliver_until_terminal): no refused or       *)
(* repeated delivery ever carried another.                                 *)
(***************************************************************************)
THEOREM RecordIsComplete == Spec => []RecordedIsAll
<1>1. RecordedWasSent /\ OneCompletionBody => RecordedIsAll
  BY DEF RecordedWasSent, OneCompletionBody, RecordedIsAll
<1> QED
  BY <1>1, RecordedInvariant, OneBody, PTL
================================================================================
